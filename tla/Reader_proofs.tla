----------------------------- MODULE Reader_proofs -----------------------------
(***************************************************************************)
(* What an open book relies on: the folders its configuration keeps, the   *)
(* contents pane beside the text and the popups over it, and the session   *)
(* whose place and time the store receives.  The four share no state; each *)
(* part has its own inductive invariant, for any books, outlines, marks,   *)
(* folders, sizes and bounds.                                              *)
(***************************************************************************)
EXTENDS Contents, Popups, Settings, ReadingSession, FiniteSetTheorems, DataLemmas

----------------------------------------------------------------------------
(* The settings popup and the configuration it edits.                      *)
(*                                                                         *)
(* The cursor is found again among rows that depend on the folders alone,  *)
(* the column is a share of the pane between floors, and the reset of a    *)
(* tab is one reset after another: the invariant says the configuration is *)
(* within its limits with every format once, the file one a hand may have  *)
(* written, the cursor on an option, and a position held for any wrap to   *)
(* come.  What one reset puts back no later one moves (`ResetKeeps`).      *)

\* A configuration lists folders.
HasPaths(c) == "paths" \in DOMAIN c /\ c.paths \in Seq(Typeable)

\* What edits the other options leaves the folders alone.
SamePaths(c, d) == "paths" \in DOMAIN d /\ d.paths = c.paths

\* An option moved one way or the other.
LEMMA ChangedPaths ==
    ASSUME NEW c, HasPaths(c), NEW item, NEW d
    PROVE  SamePaths(c, Changed(c, item, d))
<1>1. \A m : SamePaths(c, WithMode(c, m))
  BY DEF HasPaths, SamePaths, WithMode
<1>2. \A up : SamePaths(c, WithFormatMoved(c, item, up))
  BY DEF HasPaths, SamePaths, WithFormatMoved
<1> QED BY <1>1, <1>2 DEF HasPaths, SamePaths, Changed

\* An option back at its default.
LEMMA ResetPaths ==
    ASSUME NEW c, HasPaths(c), NEW item
    PROVE  SamePaths(c, Reset(c, item))
<1>1. \A m : SamePaths(c, WithMode(c, m))
  BY DEF HasPaths, SamePaths, WithMode
<1> QED BY <1>1 DEF HasPaths, SamePaths, Reset

\* The margin or the column stepped from the page.
LEMMA SteppedPaths ==
    ASSUME NEW c, HasPaths(c), NEW wider
    PROVE  SamePaths(c, Stepped(c, wider))
BY DEF HasPaths, SamePaths, Stepped

\* The elements of a finite set, told apart by their places, have the ranks
\* 0, 1, ... without gaps.
LEMMA RanksAreDense ==
    ASSUME NEW S, IsFiniteSet(S), NEW at \in [S -> Nat],
           \A x, y \in S : at[x] = at[y] => x = y
    PROVE  LET n == Cardinality(S)
               rank(x) == Cardinality(Earlier(S, at, x))
           IN  /\ \A x \in S : rank(x) \in 0 .. (n - 1)
               /\ \A x, y \in S : rank(x) = rank(y) => x = y
               /\ \A k \in 0 .. (n - 1) : \E x \in S : rank(x) = k
<1> DEFINE n == Cardinality(S)
           E(x) == Earlier(S, at, x)
           r == [x \in S |-> Cardinality(E(x))]
<1>1. n \in Nat
  BY FS_CardinalityType
<1>2. ASSUME NEW x \in S PROVE IsFiniteSet(E(x)) /\ Cardinality(E(x)) \in 0 .. (n - 1)
  <2>1. E(x) \in SUBSET S /\ x \notin E(x)
    BY DEF Earlier
  <2>2. IsFiniteSet(E(x)) /\ Cardinality(E(x)) <= n /\ Cardinality(E(x)) \in Nat
    BY <2>1, FS_Subset, FS_CardinalityType
  <2>3. Cardinality(E(x)) # n
    BY <2>1, FS_Subset
  <2> QED BY <1>1, <2>2, <2>3
<1>3. ASSUME NEW x \in S, NEW y \in S, at[x] < at[y]
      PROVE  Cardinality(E(x)) < Cardinality(E(y))
  <2>1. at[x] \in Nat /\ at[y] \in Nat /\ \A z \in S : at[z] \in Nat
    OBVIOUS
  <2>2. E(x) \in SUBSET E(y)
    BY <1>3, <2>1 DEF Earlier
  <2>3. x \in E(y) /\ x \notin E(x)
    BY <1>3, <2>1 DEF Earlier
  <2> HIDE DEF E
  <2>4. Cardinality(E(x)) <= Cardinality(E(y)) /\ Cardinality(E(x)) # Cardinality(E(y))
    BY <1>2, <2>2, <2>3, FS_Subset
  <2>5. Cardinality(E(x)) \in Nat /\ Cardinality(E(y)) \in Nat
    BY <1>2, FS_CardinalityType
  <2> QED BY <2>4, <2>5
<1> HIDE DEF E
<1>4. \A x, y \in S : Cardinality(E(x)) = Cardinality(E(y)) => x = y
  <2> SUFFICES ASSUME NEW x \in S, NEW y \in S, Cardinality(E(x)) = Cardinality(E(y)), x # y
               PROVE  FALSE
    OBVIOUS
  <2>1. at[x] \in Nat /\ at[y] \in Nat /\ at[x] # at[y]
    OBVIOUS
  <2>2. at[x] < at[y] \/ at[y] < at[x]
    BY <2>1
  <2>3. Cardinality(E(x)) \in Nat /\ Cardinality(E(y)) \in Nat
    BY <1>2, FS_CardinalityType
  <2> QED BY <1>3, <2>2, <2>3
<1>5. r \in [S -> 0 .. (n - 1)] /\ \A x \in S : r[x] = Cardinality(E(x))
  BY <1>2
<1> HIDE DEF r
<1>6. r \in Injection(S, 0 .. (n - 1))
  BY <1>4, <1>5 DEF Injection, IsInjective
<1>7. IsFiniteSet(0 .. (n - 1)) /\ Cardinality(0 .. (n - 1)) = n
  <2>1. 0 \in Int /\ n - 1 \in Int /\ (0 > n - 1 <=> n = 0)
    BY <1>1
  <2>2. (n - 1) - 0 + 1 = n
    BY <1>1
  <2> QED BY <2>1, <2>2, FS_Interval
<1>8. r \in Surjection(S, 0 .. (n - 1))
  BY <1>6, <1>7, FS_Injection
<1>9. \A k \in 0 .. (n - 1) : \E x \in S : Cardinality(E(x)) = k
  BY <1>5, <1>8 DEF Surjection
<1> QED BY <1>2, <1>4, <1>9 DEF E

\* A format that is listed has a first place in the list.
LEMMA FirstPlaceIs ==
    ASSUME NEW T, NEW order \in Seq(T), NEW f \in Range(order)
    PROVE  FirstPlace(order, f) \in 1 .. Len(order) /\ order[FirstPlace(order, f)] = f
<1> DEFINE at == {i \in 1 .. Len(order) : order[i] = f}
<1>1. Len(order) \in Nat /\ DOMAIN order = 1 .. Len(order)
  OBVIOUS
<1>2. at \in SUBSET Nat /\ at # {}
  BY <1>1 DEF Range
<1>3. PICK i \in at : \A j \in at : i <= j
  BY <1>2, LeastElement
<1>4. \A j \in 1 .. (i - 1) : j \in 1 .. Len(order) /\ ~(i <= j)
  BY <1>1, <1>3
<1>5. i \in DOMAIN order /\ order[i] = f /\ \A j \in 1 .. (i - 1) : order[j] # f
  BY <1>1, <1>3, <1>4
<1> QED BY <1>1, <1>5 DEF FirstPlace

\* However the file was edited, every format is in the order once.
LEMMA NormalOrderIs ==
    ASSUME NEW T, NEW order \in Seq(T)
    PROVE  /\ NormalOrder(order) \in Seq(Range(Formats))
           /\ Range(NormalOrder(order)) = Range(Formats)
           /\ Len(NormalOrder(order)) = Len(Formats)
<1> DEFINE S == Range(Formats)
           at == PlaceIn(order)
           n == Len(Formats)
           rank(f) == Cardinality(Earlier(S, at, f))
           q == NormalOrder(order)
<1>1. Formats \in Seq(STRING) /\ IsInjective(Formats) /\ n \in Nat
  BY SettingsAssumption
<1>2. IsFiniteSet(S) /\ n = Cardinality(S)
  BY <1>1, LengthOfInjective
<1>3. \A f \in Range(order) : FirstPlace(order, f) \in 1 .. Len(order) /\ order[FirstPlace(order, f)] = f
  BY FirstPlaceIs
<1>4. \A f \in S : FirstPlace(Formats, f) \in 1 .. n /\ Formats[FirstPlace(Formats, f)] = f
  BY <1>1, FirstPlaceIs
<1>5. Len(order) \in Nat
  OBVIOUS
<1>6. \A f \in S : at[f] = IF f \in Range(order) THEN FirstPlace(order, f)
                             ELSE Len(order) + FirstPlace(Formats, f)
  BY DEF PlaceIn
<1>7. \A f \in S : /\ at[f] \in Nat
                   /\ f \in Range(order) => at[f] <= Len(order)
                   /\ f \notin Range(order) => at[f] > Len(order)
  BY <1>1, <1>3, <1>4, <1>5, <1>6
<1>8. at \in [S -> Nat]
  BY <1>7 DEF PlaceIn
<1>9. ASSUME NEW f \in S, NEW g \in S, at[f] = at[g] PROVE f = g
  <2>1. f \in Range(order) <=> g \in Range(order)
    BY <1>5, <1>7, <1>9
  <2>2. CASE f \in Range(order)
    BY <1>3, <1>6, <1>9, <2>1, <2>2
  <2>3. CASE f \notin Range(order)
    <3>1. Len(order) + FirstPlace(Formats, f) = Len(order) + FirstPlace(Formats, g)
      BY <1>6, <1>9, <2>1, <2>3
    <3>2. FirstPlace(Formats, f) \in Nat /\ FirstPlace(Formats, g) \in Nat
      BY <1>1, <1>4
    <3>3. FirstPlace(Formats, f) = FirstPlace(Formats, g)
      BY <1>5, <3>1, <3>2
    <3> QED BY <1>4, <3>3
  <2> QED BY <2>2, <2>3
<1>10. q = [k \in 1 .. n |-> CHOOSE f \in S : rank(f) = k - 1]
  BY DEF NormalOrder
<1> HIDE DEF at
<1>11. /\ \A f \in S : rank(f) \in 0 .. (n - 1)
       /\ \A f, g \in S : rank(f) = rank(g) => f = g
       /\ \A k \in 0 .. (n - 1) : \E f \in S : rank(f) = k
  BY <1>2, <1>8, <1>9, RanksAreDense
<1> HIDE DEF rank, S, q
<1>12. ASSUME NEW k \in 1 .. n PROVE q[k] \in S /\ rank(q[k]) = k - 1
  <2>1. k - 1 \in 0 .. (n - 1)
    BY <1>1
  <2>2. \E f \in S : rank(f) = k - 1
    BY <1>11, <2>1
  <2>3. q[k] = CHOOSE f \in S : rank(f) = k - 1
    BY <1>10
  <2> QED BY <2>2, <2>3
<1>13. q \in [1 .. n -> S]
  BY <1>10, <1>12
<1>14. q \in Seq(S) /\ Len(q) = n /\ DOMAIN q = 1 .. n
  BY <1>1, <1>13
<1>15. ASSUME NEW f \in S PROVE f \in Range(q)
  <2>1. rank(f) + 1 \in 1 .. n /\ (rank(f) + 1) - 1 = rank(f)
    BY <1>1, <1>11
  <2>2. q[rank(f) + 1] \in S /\ rank(q[rank(f) + 1]) = rank(f)
    BY <1>12, <2>1
  <2>3. q[rank(f) + 1] = f
    BY <1>11, <2>2
  <2> QED BY <1>14, <2>1, <2>3 DEF Range
<1>16. Range(q) \subseteq S
  BY <1>12, <1>14 DEF Range
<1> QED BY <1>14, <1>15, <1>16 DEF S, q

\* A configuration within its limits, the formats in some order; one a hand
\* has written; and the popup.
Chosen == [margin : Margins, cap : Caps, spacing : Spacings, flow : BOOLEAN, focus : BOOLEAN,
           theme : {0, 1}, column : BOOLEAN, order : Seq(Range(Formats)), paths : Seq(Typeable)]
Ranked(order) == Range(order) = Range(Formats) /\ Len(order) = Len(Formats)
Sensible(c) == c \in Chosen /\ Ranked(c.order)
Listable == Range(Formats) \cup {"unknown"}
ByHand == [margin : Int, cap : Int, spacing : Int, flow : BOOLEAN, focus : BOOLEAN,
           theme : {0, 1}, column : BOOLEAN, order : Seq(Listable), paths : Seq(Typeable)]

\* What the assumption says of the numbers.
LEMMA Limits ==
    /\ MaxMargin \in Nat /\ MaxCap \in Nat /\ MaxSpacing \in Nat
    /\ PaneWidth \in Nat /\ SidebarWidth \in Nat /\ SidebarWidth < PaneWidth
    /\ MinCap \in Nat /\ 1 <= MinCap /\ MinCap <= MaxCap
    /\ \A x \in Margins : x \in Int /\ 0 <= x /\ x <= MaxMargin
    /\ \A x \in Caps : x \in Int /\ (x = 0 \/ (MinCap <= x /\ x <= MaxCap))
    /\ \A x \in Spacings : x \in Int
    /\ 0 \in Caps /\ 0 \in Margins /\ 0 \in Spacings
<1>1. MaxMargin \in Nat /\ MaxCap \in Nat /\ MaxSpacing \in Nat /\ PaneWidth \in Nat /\ SidebarWidth \in Nat
  BY SettingsAssumption
<1>2. MinCap \in 1 .. MaxCap /\ PaneWidth > SidebarWidth
  BY SettingsAssumption
<1> QED BY <1>1, <1>2 DEF Margins, Caps, Spacings

\* A number bounded is within its bounds.
LEMMA BoundedIs ==
    ASSUME NEW x \in Int
    PROVE  /\ Bounded(x, 0, MaxMargin) \in Margins
           /\ Bounded(x, 0, MaxSpacing) \in Spacings
           /\ Bounded(x, MinCap, MaxCap) \in Caps
BY Limits DEF Bounded, Margins, Spacings, Caps

\* The profiles are within the limits too.
LEMMA PresetIs ==
    ASSUME NEW m \in 1 .. Len(Presets)
    PROVE  /\ Presets[m] = [margin |-> Presets[m].margin, cap |-> Presets[m].cap,
                            spacing |-> Presets[m].spacing, flow |-> Presets[m].flow]
           /\ Presets[m].margin \in Margins /\ Presets[m].cap \in Caps
           /\ Presets[m].spacing \in Spacings /\ Presets[m].flow \in BOOLEAN
<1> DEFINE P == [margin : Margins, cap : Caps, spacing : Spacings, flow : BOOLEAN]
<1>1. Presets \in Seq(P)
  BY SettingsAssumption
<1>2. Presets[m] \in P
  <2> HIDE DEF P
  <2> QED BY <1>1
<1> QED BY <1>2

\* The defaults are within the limits, list no folder and are the first
\* preset's.
LEMMA DefaultIs == Sensible(Default) /\ Default.paths = <<>> /\ Profile(Default) = Presets[1]
<1>1. 1 \in 1 .. Len(Presets)
  <2>1. Len(Presets) > 1
    BY SettingsAssumption
  <2>2. Presets \in Seq([margin : Margins, cap : Caps, spacing : Spacings, flow : BOOLEAN])
    BY SettingsAssumption
  <2>3. Len(Presets) \in Nat
    BY <2>2
  <2> QED BY <2>1, <2>3
<1>2. /\ Presets[1] = [margin |-> Presets[1].margin, cap |-> Presets[1].cap,
                       spacing |-> Presets[1].spacing, flow |-> Presets[1].flow]
      /\ Presets[1].margin \in Margins /\ Presets[1].cap \in Caps
      /\ Presets[1].spacing \in Spacings /\ Presets[1].flow \in BOOLEAN
  BY <1>1, PresetIs
<1>3. Formats \in Seq(Range(Formats))
  <2>1. Formats \in Seq(STRING)
    BY SettingsAssumption
  <2> QED BY <2>1 DEF Range
<1>4. <<>> \in Seq(Typeable)
  OBVIOUS
<1> DEFINE orders == Seq(Range(Formats))
           lists == Seq(Typeable)
           none == <<>>
<1>5. Formats \in orders /\ none \in lists
  BY <1>3, <1>4
<1>6. Default = [margin |-> Presets[1].margin, cap |-> Presets[1].cap,
            spacing |-> Presets[1].spacing, flow |-> Presets[1].flow, focus |-> FALSE,
            theme |-> 0, column |-> TRUE, order |-> Formats, paths |-> none]
  BY DEF Default
<1>7. Chosen = [margin : Margins, cap : Caps, spacing : Spacings, flow : BOOLEAN, focus : BOOLEAN,
           theme : {0, 1}, column : BOOLEAN, order : orders, paths : lists]
  BY DEF Chosen
<1> HIDE DEF orders, lists, none
<1>8. Default \in Chosen /\ Default.order = Formats
  BY <1>2, <1>5, <1>6, <1>7
<1>9. Profile(Default) = [margin |-> Presets[1].margin, cap |-> Presets[1].cap,
                          spacing |-> Presets[1].spacing, flow |-> Presets[1].flow]
  BY <1>6 DEF Profile
<1>10. Default.paths = none
  BY <1>6
<1> QED BY <1>2, <1>8, <1>9, <1>10 DEF Sensible, Ranked, none

\* One field of a configuration set.
LEMMA FieldSet ==
    ASSUME NEW c, Sensible(c)
    PROVE  /\ \A x \in Margins : Sensible([c EXCEPT !.margin = x])
           /\ \A x \in Caps : Sensible([c EXCEPT !.cap = x])
           /\ \A x \in Spacings : Sensible([c EXCEPT !.spacing = x])
           /\ \A x \in BOOLEAN : Sensible([c EXCEPT !.flow = x])
           /\ \A x \in BOOLEAN : Sensible([c EXCEPT !.focus = x])
           /\ \A x \in BOOLEAN : Sensible([c EXCEPT !.column = x])
           /\ \A x \in {0, 1} : Sensible([c EXCEPT !.theme = x])
           /\ \A x \in Seq(Range(Formats)) : Ranked(x) => Sensible([c EXCEPT !.order = x])
           /\ \A x \in Seq(Typeable) : Sensible([c EXCEPT !.paths = x])
<1> DEFINE orders == Seq(Range(Formats))
           lists == Seq(Typeable)
<1>1. Chosen = [margin : Margins, cap : Caps, spacing : Spacings, flow : BOOLEAN, focus : BOOLEAN,
           theme : {0, 1}, column : BOOLEAN, order : orders, paths : lists]
  BY DEF Chosen
<1>2. c \in Chosen /\ Ranked(c.order)
  BY DEF Sensible
<1> HIDE DEF orders, lists
<1>3. \A x \in Margins : Sensible([c EXCEPT !.margin = x])
  BY <1>1, <1>2 DEF Sensible
<1>4. \A x \in Caps : Sensible([c EXCEPT !.cap = x])
  BY <1>1, <1>2 DEF Sensible
<1>5. \A x \in Spacings : Sensible([c EXCEPT !.spacing = x])
  BY <1>1, <1>2 DEF Sensible
<1>6. \A x \in BOOLEAN : Sensible([c EXCEPT !.flow = x])
  BY <1>1, <1>2 DEF Sensible
<1>7. \A x \in BOOLEAN : Sensible([c EXCEPT !.focus = x])
  BY <1>1, <1>2 DEF Sensible
<1>8. \A x \in BOOLEAN : Sensible([c EXCEPT !.column = x])
  BY <1>1, <1>2 DEF Sensible
<1>9. \A x \in {0, 1} : Sensible([c EXCEPT !.theme = x])
  BY <1>1, <1>2 DEF Sensible
<1>10. \A x \in orders : Ranked(x) => Sensible([c EXCEPT !.order = x])
  BY <1>1, <1>2 DEF Sensible
<1>11. \A x \in lists : Sensible([c EXCEPT !.paths = x])
  BY <1>1, <1>2 DEF Sensible
<1> QED BY <1>3, <1>4, <1>5, <1>6, <1>7, <1>8, <1>9, <1>10, <1>11 DEF orders, lists

\* The profile of a preset taken over.
LEMMA ModeSet ==
    ASSUME NEW c, Sensible(c), NEW m \in {Custom} \cup 1 .. Len(Presets)
    PROVE  Sensible(WithMode(c, m))
<1>1. CASE m = Custom
  BY <1>1 DEF WithMode
<1>2. CASE m # Custom
  <2> DEFINE orders == Seq(Range(Formats))
             lists == Seq(Typeable)
             last == Len(Presets)
  <2>1. Chosen = [margin : Margins, cap : Caps, spacing : Spacings, flow : BOOLEAN, focus : BOOLEAN,
             theme : {0, 1}, column : BOOLEAN, order : orders, paths : lists]
    BY DEF Chosen
  <2>2. c \in Chosen /\ Ranked(c.order)
    BY DEF Sensible
  <2>3. /\ Presets[m].margin \in Margins /\ Presets[m].cap \in Caps
        /\ Presets[m].spacing \in Spacings /\ Presets[m].flow \in BOOLEAN
    BY <1>2, PresetIs
  <2>4. WithMode(c, m) = [c EXCEPT !.margin = Presets[m].margin, !.cap = Presets[m].cap,
                   !.spacing = Presets[m].spacing, !.flow = Presets[m].flow,
                   !.focus = (m = last)]
    BY <1>2 DEF WithMode
  <2> DEFINE a == Presets[m].margin
             b == Presets[m].cap
             s == Presets[m].spacing
             f == Presets[m].flow
             e == (m = last)
             d == WithMode(c, m)
  <2>5. e \in BOOLEAN
    OBVIOUS
  <2>6. d = [c EXCEPT !.margin = a, !.cap = b, !.spacing = s, !.flow = f, !.focus = e]
    BY <2>4
  <2>7. a \in Margins /\ b \in Caps /\ s \in Spacings /\ f \in BOOLEAN
    BY <2>3
  <2> HIDE DEF orders, lists, a, b, s, f, e, d
  <2>8. d \in Chosen /\ d.order = c.order
    BY <2>1, <2>2, <2>5, <2>6, <2>7
  <2> QED BY <2>2, <2>8 DEF Sensible, d
<1> QED BY <1>1, <1>2

\* Two places of an order exchanged.
LEMMA ExchangedOrder ==
    ASSUME NEW T, NEW order \in Seq(T), NEW i \in 1 .. Len(order), NEW j \in 1 .. Len(order), i # j
    PROVE  LET q == [order EXCEPT ![i] = order[j], ![j] = order[i]]
           IN  q \in Seq(T) /\ Range(q) = Range(order) /\ Len(q) = Len(order)
<1> DEFINE n == Len(order)
           q == [order EXCEPT ![i] = order[j], ![j] = order[i]]
<1>1. n \in Nat /\ DOMAIN order = 1 .. n /\ \A k \in 1 .. n : order[k] \in T
  OBVIOUS
<1>2. DOMAIN q = 1 .. n /\ q = [k \in 1 .. n |-> q[k]]
  BY <1>1
<1>3. q[i] = order[j] /\ q[j] = order[i] /\ \A k \in 1 .. n : k # i /\ k # j => q[k] = order[k]
  BY <1>1
<1> HIDE DEF q, n
<1>4. \A k \in 1 .. n : q[k] \in T
  BY <1>1, <1>3 DEF n
<1>5. q \in [1 .. n -> T]
  BY <1>2, <1>4
<1>6. q \in Seq(T) /\ Len(q) = n
  BY <1>1, <1>5
<1>7. \A k \in 1 .. n : q[k] \in Range(order)
  BY <1>1, <1>3 DEF Range, n
<1>8. \A k \in 1 .. n : order[k] \in Range(q)
  BY <1>2, <1>3 DEF Range, n
<1>9. Range(q) \subseteq Range(order)
  BY <1>2, <1>7 DEF Range
<1>10. Range(order) \subseteq Range(q)
  BY <1>1, <1>8 DEF Range
<1> QED BY <1>6, <1>9, <1>10 DEF q, n

\* Every format has a rank in the order.
LEMMA KeepRankIs ==
    ASSUME NEW c, Sensible(c), NEW f \in Range(Formats)
    PROVE  KeepRank(c, f) \in 1 .. Len(c.order) /\ c.order[KeepRank(c, f)] = f
<1>1. c.order \in Seq(Range(Formats)) /\ Range(c.order) = Range(Formats)
  BY DEF Sensible, Chosen, Ranked
<1>2. \E i \in 1 .. Len(c.order) : c.order[i] = f
  <2> DEFINE order == c.order
             T == Range(Formats)
  <2>1. order \in Seq(T) /\ f \in Range(order)
    BY <1>1
  <2> HIDE DEF order, T
  <2>2. PICK i \in DOMAIN order : order[i] = f
    BY <2>1 DEF Range
  <2>3. DOMAIN order = 1 .. Len(order)
    BY <2>1
  <2>4. i \in 1 .. Len(order)
    BY <2>2, <2>3
  <2> QED BY <2>2, <2>4 DEF order
<1> QED BY <1>2 DEF KeepRank

\* The options that are formats are those of the default order.
LEMMA FormatIs == \A item : IsFormat(item) <=> item \in Range(Formats)
<1>1. Formats \in Seq(STRING)
  BY SettingsAssumption
<1> QED BY <1>1 DEF IsFormat, Range

\* A format moved up or down leaves an order of the same formats.
LEMMA FormatMoved ==
    ASSUME NEW c, Sensible(c), NEW f \in Range(Formats), NEW up \in BOOLEAN
    PROVE  Sensible(WithFormatMoved(c, f, up))
<1> DEFINE order == c.order
           i == KeepRank(c, f)
           j == IF up THEN i - 1 ELSE i + 1
           q == [order EXCEPT ![i] = order[j], ![j] = order[i]]
<1>1. order \in Seq(Range(Formats)) /\ Ranked(order)
  BY DEF Sensible, Chosen
<1>2. i \in 1 .. Len(order) /\ order[i] = f
  BY KeepRankIs
<1>3. CASE j \in 1 .. Len(order)
  <2>1. i # j
    <3>1. i \in Int
      BY <1>2
    <3> QED BY <3>1
  <2>2. q \in Seq(Range(Formats)) /\ Range(q) = Range(order) /\ Len(q) = Len(order)
    <3> HIDE DEF i, j, order
    <3> QED BY <1>1, <1>2, <1>3, <2>1, ExchangedOrder
  <2>3. WithFormatMoved(c, f, up) = [c EXCEPT !.order = q]
    <3>1. WithFormatMoved(c, f, up) = [c EXCEPT !.order = [@ EXCEPT ![i] = c.order[j], ![j] = f]]
      BY <1>3 DEF WithFormatMoved
    <3>2. [c EXCEPT !.order = [@ EXCEPT ![i] = c.order[j], ![j] = f]]
            = [c EXCEPT !.order = [order EXCEPT ![i] = order[j], ![j] = f]]
      OBVIOUS
    <3> QED BY <1>2, <3>1, <3>2
  <2> HIDE DEF q
  <2>4. Ranked(q)
    BY <1>1, <2>2 DEF Ranked
  <2>5. \A x \in Seq(Range(Formats)) : Ranked(x) => Sensible([c EXCEPT !.order = x])
    BY FieldSet
  <2> QED BY <2>2, <2>3, <2>4, <2>5
<1>4. CASE j \notin 1 .. Len(order)
  BY <1>4 DEF WithFormatMoved
<1> QED BY <1>3, <1>4

\* The reading mode named is the one whose profile the configuration has.
LEMMA ModeIs ==
    ASSUME NEW c
    PROVE  /\ ReadingMode(c) \in {Custom} \cup 1 .. Len(Presets)
           /\ ReadingMode(c) # Custom => Presets[ReadingMode(c)] = Profile(c)
           /\ (\E m \in 1 .. Len(Presets) : Presets[m] = Profile(c)) => ReadingMode(c) # Custom
<1>1. CASE \E m \in 1 .. Len(Presets) : Presets[m] = Profile(c)
  <2> DEFINE m == CHOOSE m \in 1 .. Len(Presets) : Presets[m] = Profile(c)
  <2>1. ReadingMode(c) = m
    BY <1>1 DEF ReadingMode
  <2>2. m \in 1 .. Len(Presets) /\ Presets[m] = Profile(c)
    BY <1>1
  <2>3. m # 0
    BY <2>2
  <2> QED BY <2>1, <2>2, <2>3 DEF Custom
<1>2. CASE ~ \E m \in 1 .. Len(Presets) : Presets[m] = Profile(c)
  BY <1>2 DEF ReadingMode, Custom
<1> QED BY <1>1, <1>2

\* The mode keys cycle through the presets, from a custom profile too.
LEMMA ModesCycle ==
    ASSUME NEW m \in {Custom} \cup 1 .. Len(Presets)
    PROVE  NextMode(m) \in 1 .. Len(Presets) /\ PrevMode(m) \in 1 .. Len(Presets)
<1>1. Presets \in Seq([margin : Margins, cap : Caps, spacing : Spacings, flow : BOOLEAN])
      /\ Len(Presets) > 1
  BY SettingsAssumption
<1>2. Len(Presets) \in Nat
  BY <1>1
<1> QED BY <1>1, <1>2 DEF NextMode, PrevMode, Custom

\* A cap stepped is off or within its bounds.
LEMMA SteppedCapIs == \A x \in Caps : \A d \in {-1, 1} : SteppedCap(x, d) \in Caps
BY Limits DEF SteppedCap, Caps

\* What the rows may hold.
RowItems == OptionFields \cup {"mode", "add", "find", "rescan", "folder", "heading"} \cup Range(Formats)

\* An option moved stays within its limits.
LEMMA ChangedIs ==
    ASSUME NEW c, Sensible(c), NEW item, NEW d \in {-1, 1}
    PROVE  Sensible(Changed(c, item, d))
<1>1. c.margin \in Margins /\ c.cap \in Caps /\ c.spacing \in Spacings /\ c.flow \in BOOLEAN
      /\ c.column \in BOOLEAN /\ c.theme \in {0, 1}
  BY DEF Sensible, Chosen
<1>2. Sensible(WithMode(c, IF d > 0 THEN NextMode(ReadingMode(c)) ELSE PrevMode(ReadingMode(c))))
  <2>1. NextMode(ReadingMode(c)) \in 1 .. Len(Presets) /\ PrevMode(ReadingMode(c)) \in 1 .. Len(Presets)
    BY ModeIs, ModesCycle
  <2> QED BY <2>1, ModeSet
<1>3. Sensible([c EXCEPT !.margin = Bounded(@ + d, 0, MaxMargin)])
  <2>1. Bounded(c.margin + d, 0, MaxMargin) \in Margins
    BY <1>1, Limits, BoundedIs
  <2> QED BY <2>1, FieldSet
<1>4. Sensible([c EXCEPT !.cap = SteppedCap(@, d)])
  <2>1. SteppedCap(c.cap, d) \in Caps
    BY <1>1, SteppedCapIs
  <2> QED BY <2>1, FieldSet
<1>5. Sensible([c EXCEPT !.spacing = Bounded(@ + d, 0, MaxSpacing)])
  <2>1. Bounded(c.spacing + d, 0, MaxSpacing) \in Spacings
    BY <1>1, Limits, BoundedIs
  <2> QED BY <2>1, FieldSet
<1>6. Sensible([c EXCEPT !.flow = ~@]) /\ Sensible([c EXCEPT !.column = ~@])
  <2>1. (~c.flow) \in BOOLEAN /\ (~c.column) \in BOOLEAN
    OBVIOUS
  <2> QED BY <2>1, FieldSet
<1>7. Sensible([c EXCEPT !.theme = (@ + d) % 2])
  <2>1. (c.theme + d) % 2 \in {0, 1}
    <3>1. c.theme = 0 \/ c.theme = 1
      BY <1>1
    <3>2. d = -1 \/ d = 1
      OBVIOUS
    <3> QED BY <3>1, <3>2
  <2> QED BY <2>1, FieldSet
<1>8. IsFormat(item) => Sensible(WithFormatMoved(c, item, d > 0))
  <2> SUFFICES ASSUME IsFormat(item) PROVE Sensible(WithFormatMoved(c, item, d > 0))
    OBVIOUS
  <2>1. item \in Range(Formats) /\ (d > 0) \in BOOLEAN
    BY FormatIs
  <2>2. \A up \in BOOLEAN : Sensible(WithFormatMoved(c, item, up))
    BY <2>1, FormatMoved
  <2> QED BY <2>1, <2>2
<1> QED BY <1>2, <1>3, <1>4, <1>5, <1>6, <1>7, <1>8 DEF Changed

\* An option reset is within its limits.
LEMMA ResetIs ==
    ASSUME NEW c, Sensible(c), NEW item
    PROVE  Sensible(Reset(c, item))
<1>1. Sensible(Default)
  BY DefaultIs
<1>2. Default.margin \in Margins /\ Default.cap \in Caps /\ Default.spacing \in Spacings
      /\ Default.flow \in BOOLEAN /\ Default.column \in BOOLEAN /\ Default.theme \in {0, 1}
      /\ Default.order \in Seq(Range(Formats)) /\ Ranked(Default.order) /\ Default.order = Formats
  BY <1>1 DEF Sensible, Chosen, Default
<1>3. Sensible(WithMode(c, ReadingMode(Default)))
  BY ModeIs, ModeSet
<1>4. Sensible([c EXCEPT !.order = Formats])
  BY <1>2, FieldSet
<1>5. item \in OptionFields => Sensible([c EXCEPT ![item] = Default[item]])
  <2>1. item = "margin" => Sensible([c EXCEPT ![item] = Default[item]])
    BY <1>2, FieldSet
  <2>2. item = "cap" => Sensible([c EXCEPT ![item] = Default[item]])
    BY <1>2, FieldSet
  <2>3. item = "spacing" => Sensible([c EXCEPT ![item] = Default[item]])
    BY <1>2, FieldSet
  <2>4. item = "flow" => Sensible([c EXCEPT ![item] = Default[item]])
    BY <1>2, FieldSet
  <2>5. item = "theme" => Sensible([c EXCEPT ![item] = Default[item]])
    BY <1>2, FieldSet
  <2>6. item = "column" => Sensible([c EXCEPT ![item] = Default[item]])
    BY <1>2, FieldSet
  <2> QED BY <2>1, <2>2, <2>3, <2>4, <2>5, <2>6 DEF OptionFields
<1> QED BY <1>3, <1>4, <1>5 DEF Reset, OptionFields

\* So is the column stepped from the page.
LEMMA SteppedIs ==
    ASSUME NEW c, Sensible(c), NEW wider \in BOOLEAN
    PROVE  Sensible(Stepped(c, wider))
<1>1. c.margin \in Margins /\ c.cap \in Caps
  BY DEF Sensible, Chosen
<1>2. c.margin \in Int /\ c.cap \in Int
  BY <1>1, Limits
<1> DEFINE x == IF wider THEN c.cap + CapStep ELSE c.cap - CapStep
           y == IF wider THEN c.margin - 1 ELSE c.margin + 1
<1>3. x \in Int /\ y \in Int
  BY <1>2 DEF CapStep
<1>4. Sensible([c EXCEPT !.cap = Bounded(x, MinCap, MaxCap)])
      /\ Sensible([c EXCEPT !.margin = Bounded(y, 0, MaxMargin)])
  BY <1>3, BoundedIs, FieldSet
<1>5. \/ Stepped(c, wider) = [c EXCEPT !.cap = Bounded(x, MinCap, MaxCap)]
      \/ Stepped(c, wider) = [c EXCEPT !.margin = Bounded(y, 0, MaxMargin)]
  BY DEF Stepped
<1> QED BY <1>4, <1>5

\* Whatever a hand wrote, what is loaded is within the limits.
LEMMA LoadedIs ==
    ASSUME NEW f, f.is = "good" => f.of \in ByHand
    PROVE  Sensible(Loaded(f))
<1>1. CASE f.is # "good"
  BY <1>1, DefaultIs DEF Loaded
<1>2. CASE f.is = "good"
  <2> DEFINE h == f.of
             m == Bounded(h.margin, 0, MaxMargin)
             s == Bounded(h.spacing, 0, MaxSpacing)
             k == IF h.cap = 0 THEN 0 ELSE Bounded(h.cap, MinCap, MaxCap)
             o == NormalOrder(h.order)
             c == [h EXCEPT !.margin = m, !.spacing = s, !.cap = k, !.order = o, !.focus = FALSE]
             orders == Seq(Range(Formats))
             lists == Seq(Typeable)
             texts == Seq(Listable)
  <2>1. h \in ByHand
    BY <1>2
  <2>2. h.margin \in Int /\ h.spacing \in Int /\ h.cap \in Int /\ h.order \in texts
    BY <2>1 DEF ByHand
  <2>3. m \in Margins /\ s \in Spacings /\ k \in Caps
    BY <2>2, BoundedIs, Limits
  <2>4. o \in orders /\ Ranked(o)
    BY <2>2, NormalOrderIs DEF Ranked
  <2>5. Loaded(f) = c
    BY <1>2 DEF Loaded
  <2>6. ByHand = [margin : Int, cap : Int, spacing : Int, flow : BOOLEAN, focus : BOOLEAN,
           theme : {0, 1}, column : BOOLEAN, order : texts, paths : lists]
    BY DEF ByHand
  <2>7. Chosen = [margin : Margins, cap : Caps, spacing : Spacings, flow : BOOLEAN, focus : BOOLEAN,
           theme : {0, 1}, column : BOOLEAN, order : orders, paths : lists]
    BY DEF Chosen
  <2>8. c = [h EXCEPT !.margin = m, !.spacing = s, !.cap = k, !.order = o, !.focus = FALSE]
    OBVIOUS
  <2> HIDE DEF h, m, s, k, o, c, orders, lists, texts
  <2>9. c \in Chosen /\ c.order = o
    BY <2>1, <2>3, <2>4, <2>6, <2>7, <2>8
  <2> QED BY <2>4, <2>5, <2>9 DEF Sensible
<1> QED BY <1>1, <1>2

\* The options and the rows of the popup.
OptionRecord == [tab : Nat, section : STRING, item : Named \cup Range(Formats)]
RowRecord == [item : RowItems, n : Nat]
PopupRecord == [scope : Scopes, tab : Nat, row : Nat, adding : {NoText, NoQuery},
                filter : {NoText, NoQuery} \cup DOMAIN Finds, query : {NoQuery} \cup DOMAIN Finds]
PopupPlaced(p) == p \in PopupRecord /\ p.tab \in TabsOf(p.scope)
OnRow(p, c) == LET items == ItemRows(VisibleRows(p, c)) IN items = {} \/ p.row \in items

\* The options of a scope, as the assumption has them.
LEMMA OptionsAre ==
    ASSUME NEW s \in Scopes
    PROVE  Options[s] \in Seq(OptionRecord) /\ Len(Options[s]) \in Nat
<1>1. Options[s] \in Seq(OptionRecord)
  BY SettingsAssumption DEF OptionRecord
<1> QED BY <1>1

\* No format is named like another option, nor any option like a heading.
LEMMA NamesApart ==
    /\ \A x \in Range(Formats) : x \notin Named /\ x # "folder" /\ x # "heading"
    /\ \A x \in Named : x # "folder" /\ x # "heading"
<1>1. Range(Formats) \cap (Named \cup {"folder", "heading"}) = {}
  BY SettingsAssumption
<1> QED BY <1>1 DEF Named, OptionFields

\* The rows of one option: none is a heading, and only the folders' may be none.
LEMMA OwnRowsAre ==
    ASSUME NEW opt \in OptionRecord, NEW c, c.paths \in Seq(Typeable)
    PROVE  /\ OwnRows(opt, c) \in Seq(RowRecord)
           /\ \A k \in 1 .. Len(OwnRows(opt, c)) : IsItem(OwnRows(opt, c)[k])
           /\ (opt.item # "folders" \/ c.paths # <<>>) => Len(OwnRows(opt, c)) >= 1
<1> DEFINE m == Len(c.paths)
<1>1. m \in Nat /\ (c.paths # <<>> => m >= 1)
  OBVIOUS
<1>2. CASE opt.item = "folders"
  <2> DEFINE q == [k \in 1 .. m |-> [item |-> "folder", n |-> k]]
  <2>1. OwnRows(opt, c) = q
    BY <1>2 DEF OwnRows
  <2>2. \A k \in 1 .. m : [item |-> "folder", n |-> k] \in RowRecord
    <3>1. \A k \in 1 .. m : k \in Nat
      BY <1>1
    <3> QED BY <3>1 DEF RowRecord, RowItems
  <2> HIDE DEF m
  <2>3. q \in [1 .. m -> RowRecord]
    BY <2>2
  <2>4. \A k \in 1 .. m : q[k].item = "folder"
    OBVIOUS
  <2> HIDE DEF q
  <2>5. q \in Seq(RowRecord) /\ Len(q) = m
    BY <1>1, <2>3
  <2> QED BY <1>1, <1>2, <2>1, <2>4, <2>5 DEF IsItem, m
<1>3. CASE opt.item # "folders"
  <2> DEFINE r == [item |-> opt.item, n |-> 0]
  <2>1. OwnRows(opt, c) = <<r>>
    BY <1>3 DEF OwnRows
  <2>2. opt.item \in Named \cup Range(Formats)
    BY DEF OptionRecord
  <2>3. opt.item \in RowItems
    BY <1>3, <2>2 DEF RowItems, Named
  <2>4. r \in RowRecord /\ r.item # "heading"
    BY <2>2, <2>3, NamesApart DEF RowRecord
  <2> HIDE DEF r
  <2>5. <<r>> \in Seq(RowRecord) /\ Len(<<r>>) = 1 /\ <<r>>[1] = r
    BY <2>4
  <2> QED BY <2>1, <2>4, <2>5 DEF IsItem
<1> QED BY <1>2, <1>3

\* The parts the rows are joined of.
PartsOf(opts, shown, c) ==
    [i \in 1..Len(opts) |->
        IF i \notin shown THEN <<>>
        ELSE IF \E j \in shown : j < i /\ Crumb(opts[j]) = Crumb(opts[i]) THEN OwnRows(opts[i], c)
        ELSE <<Heading>> \o OwnRows(opts[i], c)]

\* The rows are those parts joined.
LEMMA PartsAre ==
    ASSUME NEW opts \in Seq(OptionRecord), NEW shown, NEW c, c.paths \in Seq(Typeable)
    PROVE  /\ PartsOf(opts, shown, c) \in Seq(Seq(RowRecord))
           /\ Len(PartsOf(opts, shown, c)) = Len(opts)
           /\ RowsOf(opts, shown, c) = FlattenSeq(PartsOf(opts, shown, c))
<1> DEFINE n == Len(opts)
           p == PartsOf(opts, shown, c)
           rows == Seq(RowRecord)
           none == <<>>
           head == <<Heading>>
<1>1. n \in Nat /\ \A i \in 1 .. n : opts[i] \in OptionRecord
  OBVIOUS
<1>2. \A i \in 1 .. n : OwnRows(opts[i], c) \in rows
  BY <1>1, OwnRowsAre
<1>3. none \in rows /\ head \in rows
  <2>1. Heading \in RowRecord
    BY DEF Heading, RowRecord, RowItems
  <2> QED BY <2>1
<1>4. \A r \in rows : head \o r \in rows
  BY <1>3
<1>5. \A i \in 1 .. n : p[i] \in {none, OwnRows(opts[i], c), head \o OwnRows(opts[i], c)}
  BY DEF PartsOf
<1>6. p = [i \in 1 .. n |-> p[i]]
  BY DEF PartsOf
<1> HIDE DEF p, rows, none, head
<1>7. \A i \in 1 .. n : p[i] \in rows
  BY <1>2, <1>3, <1>4, <1>5
<1>8. p \in [1 .. n -> rows]
  BY <1>6, <1>7
<1>9. p \in Seq(rows) /\ Len(p) = n
  BY <1>1, <1>8
<1> QED BY <1>9 DEF p, rows, RowsOf, PartsOf

\* Hence they are rows.
LEMMA OptionRowsAre ==
    ASSUME NEW opts \in Seq(OptionRecord), NEW shown, NEW c, c.paths \in Seq(Typeable)
    PROVE  RowsOf(opts, shown, c) \in Seq(RowRecord)
BY PartsAre, FlattenedIs

\* Rows depend on nothing of the configuration but the number of its folders.
LEMMA RowsFollowPaths ==
    ASSUME NEW c, NEW d, c.paths = d.paths, NEW opts, NEW shown
    PROVE  RowsOf(opts, shown, c) = RowsOf(opts, shown, d)
<1>1. \A opt : OwnRows(opt, c) = OwnRows(opt, d)
  BY DEF OwnRows
<1> QED BY <1>1 DEF RowsOf

\* So with those on view, and with the cursor among them.
LEMMA VisibleFollowsPaths ==
    ASSUME NEW c, NEW d, c.paths = d.paths, NEW p
    PROVE  VisibleRows(p, c) = VisibleRows(p, d) /\ (OnRow(p, c) <=> OnRow(p, d))
<1>1. \A opts, shown : RowsOf(opts, shown, c) = RowsOf(opts, shown, d)
  BY RowsFollowPaths
<1>2. VisibleRows(p, c) = VisibleRows(p, d)
  BY <1>1 DEF VisibleRows, TabRows, FilteredRows
<1> QED BY <1>2 DEF OnRow

\* The first two rows are a heading and an option under it.
LEMMA RowsBegin ==
    ASSUME NEW opts \in Seq(OptionRecord), NEW shown \in SUBSET (1 .. Len(opts)),
           NEW c, c.paths \in Seq(Typeable), NEW i \in shown, \A j \in shown : i <= j,
           opts[i].item # "folders" \/ c.paths # <<>>
    PROVE  /\ 2 \in ItemRows(RowsOf(opts, shown, c))
           /\ 1 \notin ItemRows(RowsOf(opts, shown, c))
<1> DEFINE p == PartsOf(opts, shown, c)
           own == OwnRows(opts[i], c)
           rows == RowsOf(opts, shown, c)
<1>1. Len(opts) \in Nat /\ i \in 1 .. Len(opts) /\ i \in Nat /\ opts[i] \in OptionRecord
  OBVIOUS
<1>2. p \in Seq(Seq(RowRecord)) /\ Len(p) = Len(opts) /\ rows = FlattenSeq(p)
  BY PartsAre
<1>3. rows \in Seq(RowRecord)
  BY OptionRowsAre
<1>4. own \in Seq(RowRecord) /\ Len(own) >= 1 /\ \A k \in 1 .. Len(own) : IsItem(own[k])
  BY <1>1, OwnRowsAre
<1>5. p[i] = <<Heading>> \o own
  <2>1. ~ \E j \in shown : j < i /\ Crumb(opts[j]) = Crumb(opts[i])
    BY <1>1
  <2> QED BY <1>1, <2>1 DEF PartsOf
<1>6. \A j \in 1 .. (i - 1) : p[j] = <<>>
  <2> TAKE j \in 1 .. (i - 1)
  <2>1. j \in 1 .. Len(opts) /\ ~(i <= j)
    BY <1>1
  <2>2. j \notin shown
    BY <2>1
  <2> QED BY <2>1, <2>2 DEF PartsOf
<1> HIDE DEF p, rows, own
<1>7. Len(p[i]) = 1 + Len(own) /\ p[i][1] = Heading /\ p[i][2] = own[1]
  <2> DEFINE h == Heading
  <2>1. Len(own) \in Nat /\ 1 <= Len(own) /\ <<h>> \o own \in Seq(RowRecord \cup {h})
    BY <1>4
  <2> QED BY <1>5, <2>1
<1>8. Len(p[i]) <= Len(rows) /\ \A k \in 1 .. Len(p[i]) : rows[k] = p[i][k]
  BY <1>1, <1>2, <1>6, FlattenedBegins
<1>9. Len(own) \in Nat /\ Len(rows) \in Nat
  BY <1>3, <1>4
<1>10. 1 \in 1 .. Len(own) /\ 1 \in 1 .. Len(p[i]) /\ 2 \in 1 .. Len(p[i]) /\ 2 \in 1 .. Len(rows)
  BY <1>4, <1>7, <1>8, <1>9
<1>11. rows[1] = Heading /\ IsItem(rows[2])
  BY <1>4, <1>7, <1>8, <1>10
<1> QED BY <1>10, <1>11 DEF rows, ItemRows, IsItem, Heading

\* A nonempty set of positions has a first.
LEMMA FirstShown ==
    ASSUME NEW opts \in Seq(OptionRecord), NEW shown \in SUBSET (1 .. Len(opts)), shown # {}
    PROVE  \E i \in shown : \A j \in shown : i <= j
<1>1. shown \in SUBSET Nat
  OBVIOUS
<1> QED BY <1>1, LeastElement

\* The cursor of a tab just chosen.
LEMMA FirstRowIs ==
    ASSUME NEW s \in Scopes, NEW tab \in TabsOf(s), NEW c, c.paths \in Seq(Typeable)
    PROVE  FirstRow(s, tab, c) = 2 /\ 2 \in ItemRows(TabRows(s, tab, c))
<1> DEFINE opts == Options[s]
           shown == InTab[s][tab]
           items == ItemRows(TabRows(s, tab, c))
<1>1. opts \in Seq(OptionRecord) /\ Len(opts) \in Nat
  BY OptionsAre
<1>2. shown = {i \in 1 .. Len(opts) : opts[i].tab = tab}
  BY DEF InTab
<1>3. shown \in SUBSET (1 .. Len(opts)) /\ shown # {}
  BY <1>2 DEF TabsOf
<1> HIDE DEF opts, shown
<1>4. PICK i \in shown : \A j \in shown : i <= j
  BY <1>1, <1>3, FirstShown
<1>5. items = ItemRows(RowsOf(opts, shown, c))
  BY DEF TabRows, opts, shown
<1>6. CASE opts[i].item # "folders" \/ c.paths # <<>>
  <2>1. 2 \in items /\ 1 \notin items
    BY <1>1, <1>3, <1>4, <1>5, <1>6, RowsBegin
  <2>2. \A j \in items : j \in Nat /\ 1 <= j
    <3>1. TabRows(s, tab, c) \in Seq(RowRecord)
      BY <1>1, OptionRowsAre DEF TabRows, opts, shown
    <3> QED BY <3>1 DEF ItemRows
  <2> HIDE DEF items
  <2>3. \A j \in items : 2 <= j
    <3> TAKE j \in items
    <3>1. j # 1 /\ j \in Nat /\ 1 <= j
      BY <2>1, <2>2
    <3> QED BY <3>1
  <2>4. (CHOOSE k \in items : \A j \in items : k <= j) = 2
    <3> DEFINE k == CHOOSE k \in items : \A j \in items : k <= j
    <3>1. k \in items /\ \A j \in items : k <= j
      BY <2>1, <2>3
    <3> HIDE DEF k
    <3>2. k <= 2 /\ 2 <= k /\ k \in Nat
      BY <2>1, <2>2, <2>3, <3>1
    <3>3. k = 2
      BY <3>2
    <3> QED BY <3>3 DEF k
  <2> QED BY <2>1, <2>4 DEF FirstRow, items
<1>7. CASE c.paths = <<>>
  <2>1. c.paths = Default.paths
    BY <1>7, DefaultIs
  <2>2. TabRows(s, tab, c) = TabRows(s, tab, Default)
    BY <2>1, RowsFollowPaths DEF TabRows
  <2>3. FirstRow(s, tab, Default) = 2
    BY TabsAssumption
  <2>4. FirstRow(s, tab, c) = 2
    BY <2>2, <2>3 DEF FirstRow
  <2>5. items # {}
    BY <2>4 DEF FirstRow
  <2>6. items \in SUBSET Nat
    <3>1. TabRows(s, tab, c) \in Seq(RowRecord)
      BY <1>1, OptionRowsAre DEF TabRows, opts, shown
    <3> QED BY <3>1 DEF ItemRows
  <2>7. (CHOOSE k \in items : \A j \in items : k <= j) \in items
    <3> HIDE DEF items
    <3>1. \E k \in items : \A j \in items : k <= j
      BY <2>5, <2>6, LeastElement
    <3> QED BY <3>1
  <2> QED BY <2>4, <2>5, <2>7 DEF FirstRow
<1> QED BY <1>6, <1>7

\* What is on view is a sequence of rows.
LEMMA VisibleRowsAre ==
    ASSUME NEW p, p.scope \in Scopes, NEW c, c.paths \in Seq(Typeable)
    PROVE  VisibleRows(p, c) \in Seq(RowRecord)
<1>1. \A shown : RowsOf(Options[p.scope], shown, c) \in Seq(RowRecord)
  BY OptionsAre, OptionRowsAre
<1> QED BY <1>1 DEF VisibleRows, TabRows, FilteredRows

\* A move, and whatever puts the cursor back, ends on an option if one is shown.
LEMMA MovedToIs ==
    ASSUME NEW p, PopupPlaced(p), NEW c, c.paths \in Seq(Typeable), NEW d \in Int
    PROVE  PopupPlaced(MovedTo(p, c, d)) /\ OnRow(MovedTo(p, c, d), c)
<1> DEFINE rows == VisibleRows(p, c)
           items == ItemRows(rows)
           order == [j \in items |-> j]
           rank(i) == Cardinality(Earlier(items, order, i))
           n == Cardinality(items)
           x == (IF p.row \in items THEN rank(p.row) ELSE 0) + d
           target == Bounded(x, 0, n - 1)
           at == CHOOSE i \in items : rank(i) = target
           q == MovedTo(p, c, d)
<1>1. p \in PopupRecord /\ p.tab \in TabsOf(p.scope) /\ p.scope \in Scopes
  BY DEF PopupPlaced, PopupRecord
<1>2. rows \in Seq(RowRecord)
  BY <1>1, VisibleRowsAre
<1>3. items \in SUBSET (1 .. Len(rows)) /\ Len(rows) \in Nat
  <2> HIDE DEF rows
  <2> QED BY <1>2 DEF ItemRows
<1>4. q = IF items = {} THEN p ELSE [p EXCEPT !.row = at]
  BY DEF MovedTo
<1>5. CASE items = {}
  <2>1. q = p
    BY <1>4, <1>5
  <2> HIDE DEF q
  <2> QED BY <1>5, <2>1 DEF OnRow, q
<1>6. CASE items # {}
  <2> HIDE DEF rows, items
  <2>1. IsFiniteSet(items) /\ n \in Nat /\ n # 0
    <3>1. IsFiniteSet(1 .. Len(rows))
      BY <1>3, FS_Interval
    <3>2. IsFiniteSet(items)
      BY <1>3, <3>1, FS_Subset
    <3> QED BY <1>6, <3>2, FS_CardinalityType, FS_EmptySet
  <2>2. order \in [items -> Nat] /\ \A i, j \in items : order[i] = order[j] => i = j
    BY <1>3
  <2> HIDE DEF order
  <2>3. /\ \A i \in items : rank(i) \in 0 .. (n - 1)
        /\ \A k \in 0 .. (n - 1) : \E i \in items : rank(i) = k
    BY <2>1, <2>2, RanksAreDense
  <2> HIDE DEF rank, n
  <2>4. x \in Int
    BY <2>3
  <2> HIDE DEF x
  <2>5. target \in 0 .. (n - 1)
    BY <2>1, <2>4 DEF Bounded
  <2> HIDE DEF target
  <2>6. at \in items
    BY <2>3, <2>5
  <2> HIDE DEF at
  <2>7. at \in Nat
    BY <1>3, <2>6
  <2>8. q = [p EXCEPT !.row = at]
    BY <1>4, <1>6
  <2> HIDE DEF q
  <2>9. /\ q \in PopupRecord /\ q.row = at /\ q.scope = p.scope /\ q.tab = p.tab
        /\ q.filter = p.filter /\ q.query = p.query
    <3> DEFINE filters == {NoText, NoQuery} \cup DOMAIN Finds
               queries == {NoQuery} \cup DOMAIN Finds
               texts == {NoText, NoQuery}
    <3>1. PopupRecord = [scope : Scopes, tab : Nat, row : Nat, adding : texts,
                         filter : filters, query : queries]
      BY DEF PopupRecord
    <3> HIDE DEF filters, queries, texts
    <3> QED BY <1>1, <2>7, <2>8, <3>1
  <2>10. VisibleRows(q, c) = rows
    BY <2>9 DEF VisibleRows, ActiveQuery, rows
  <2>11. OnRow(q, c)
    BY <2>6, <2>9, <2>10 DEF OnRow, items
  <2>12. PopupPlaced(q)
    BY <1>1, <2>9 DEF PopupPlaced
  <2> QED BY <2>11, <2>12 DEF q
<1> QED BY <1>5, <1>6

\* A tab chosen, with a filter or without, ends on an option too.
LEMMA TabChosen ==
    ASSUME NEW p, PopupPlaced(p), NEW c, c.paths \in Seq(Typeable), NEW tab \in TabsOf(p.scope)
    PROVE  LET q == [p EXCEPT !.tab = tab, !.row = FirstRow(p.scope, tab, c)]
           IN  PopupPlaced(q) /\ OnRow(q, c)
<1> DEFINE r == FirstRow(p.scope, tab, c)
           q == [p EXCEPT !.tab = tab, !.row = r]
           filters == {NoText, NoQuery} \cup DOMAIN Finds
           queries == {NoQuery} \cup DOMAIN Finds
           texts == {NoText, NoQuery}
           asked == ActiveQuery(p)
           opts == Options[p.scope]
<1>1. p \in PopupRecord /\ p.scope \in Scopes
  BY DEF PopupPlaced, PopupRecord
<1>2. r = 2 /\ 2 \in ItemRows(TabRows(p.scope, tab, c))
  BY <1>1, FirstRowIs
<1>3. opts \in Seq(OptionRecord) /\ Len(opts) \in Nat
  BY <1>1, OptionsAre
<1>4. tab \in Nat
  <2> HIDE DEF opts
  <2>1. TabsOf(p.scope) = {opts[i].tab : i \in 1 .. Len(opts)}
    BY DEF TabsOf, opts
  <2>2. \A i \in 1 .. Len(opts) : opts[i] \in OptionRecord
    BY <1>3
  <2> QED BY <2>1, <2>2 DEF OptionRecord
<1>5. PopupRecord = [scope : Scopes, tab : Nat, row : Nat, adding : texts,
                     filter : filters, query : queries]
  BY DEF PopupRecord
<1> HIDE DEF filters, queries, texts, r
<1>6. /\ q \in PopupRecord /\ q.row = 2 /\ q.scope = p.scope /\ q.tab = tab
      /\ q.filter = p.filter /\ q.query = p.query
  BY <1>1, <1>2, <1>4, <1>5
<1> HIDE DEF q
<1>7. PopupPlaced(q)
  BY <1>6 DEF PopupPlaced
<1>8. ActiveQuery(q) = asked
  BY <1>6 DEF ActiveQuery
<1>9. CASE asked = NoQuery
  <2>1. VisibleRows(q, c) = TabRows(p.scope, tab, c)
    BY <1>6, <1>8, <1>9 DEF VisibleRows
  <2> QED BY <1>2, <1>6, <1>7, <2>1 DEF OnRow, q, r
<1>10. CASE asked # NoQuery
  <2>1. asked \in DOMAIN Finds
    <3>1. p.filter \in filters /\ p.query \in queries
      BY <1>1, <1>5
    <3> QED BY <1>10, <3>1 DEF ActiveQuery, filters, queries
  <2> DEFINE shown == Found[p.scope][asked]
  <2>2. shown = {i \in 1 .. Len(opts) : LET item == opts[i].item IN
                 ~IsAction(item) /\ item # "folders" /\ item \in Finds[asked]}
    BY <1>1, <2>1 DEF Found
  <2>3. shown \in SUBSET (1 .. Len(opts)) /\ \A i \in shown : opts[i].item # "folders"
    BY <2>2
  <2> HIDE DEF shown
  <2>4. VisibleRows(q, c) = RowsOf(opts, shown, c)
    BY <1>6, <1>8, <1>10 DEF VisibleRows, FilteredRows, shown
  <2> HIDE DEF opts
  <2>5. CASE shown # {}
    <3>1. PICK i \in shown : \A j \in shown : i <= j
      BY <1>3, <2>3, <2>5, FirstShown
    <3>2. 2 \in ItemRows(RowsOf(opts, shown, c))
      BY <1>3, <2>3, <3>1, RowsBegin
    <3> QED BY <1>6, <1>7, <2>4, <3>2 DEF OnRow, q, r
  <2>6. CASE shown = {}
    <3> DEFINE parts == PartsOf(opts, shown, c)
               rows == RowsOf(opts, shown, c)
    <3>1. parts \in Seq(Seq(RowRecord)) /\ Len(parts) = Len(opts) /\ rows = FlattenSeq(parts)
      BY <1>3, PartsAre
    <3>2. \A i \in 1 .. Len(opts) : parts[i] = <<>>
      BY <2>6 DEF PartsOf
    <3>3. Range(rows) = UNION {Range(parts[i]) : i \in 1 .. Len(parts)}
      BY <3>1, FlattenedHas
    <3> HIDE DEF parts
    <3>4. \A i \in 1 .. Len(parts) : Range(parts[i]) = {}
      BY <3>1, <3>2 DEF Range
    <3>5. Range(rows) = {}
      BY <3>3, <3>4
    <3>6. rows \in Seq(RowRecord)
      BY <1>3, OptionRowsAre
    <3> HIDE DEF rows
    <3>7. ItemRows(rows) = {}
      BY <3>5, <3>6 DEF ItemRows, Range
    <3> QED BY <1>7, <2>4, <3>7 DEF OnRow, q, r, rows
  <2> QED BY <2>5, <2>6
<1> QED BY <1>9, <1>10

\* The column in a pane, before the cap: a wider margin never widens it.
Pane(c) == IF c.focus THEN PaneWidth ELSE PaneWidth - SidebarWidth
Inset(pane, margin) ==
    LET share == (pane * margin) \div 100 IN 2 * (IF share < Gutter THEN Gutter ELSE share)
LeastText(pane) == IF pane < MinText THEN pane ELSE MinText
Padded(pane, margin) ==
    IF margin = 0 THEN pane
    ELSE IF pane - Inset(pane, margin) < LeastText(pane) THEN LeastText(pane) ELSE pane - Inset(pane, margin)

\* The column is the padded pane, or the cap where it is narrower.
LEMMA MeasureIs ==
    ASSUME NEW c
    PROVE  Measure(c) = IF c.cap # 0 /\ c.cap < Padded(Pane(c), c.margin) THEN c.cap
                        ELSE Padded(Pane(c), c.margin)
BY DEF Measure, Pane, Padded, Inset, LeastText

\* A wider margin takes no less of the pane.
LEMMA InsetGrows ==
    ASSUME NEW pane \in Nat, NEW a \in Nat, NEW b \in Nat, a <= b
    PROVE  Inset(pane, a) \in Nat /\ Inset(pane, b) \in Nat /\ Inset(pane, a) <= Inset(pane, b)
<1> DEFINE x == pane * a
           y == pane * b
<1>1. x \in Nat /\ y \in Nat /\ x <= y
  <2> DEFINE k == b - a
             z == pane * k
  <2>1. k \in Nat /\ b = a + k
    OBVIOUS
  <2>2. z \in Nat /\ x \in Nat
    BY <2>1
  <2>3. y = x + z
    BY <2>1
  <2> HIDE DEF x, y, z
  <2> QED BY <2>2, <2>3
<1> HIDE DEF x, y
<1>2. x \div 100 \in Nat /\ y \div 100 \in Nat /\ x \div 100 <= y \div 100
  BY <1>1
<1> DEFINE s == x \div 100
           t == y \div 100
<1>3. Inset(pane, a) = 2 * (IF s < Gutter THEN Gutter ELSE s)
      /\ Inset(pane, b) = 2 * (IF t < Gutter THEN Gutter ELSE t)
  BY DEF Inset, x, y
<1>4. s \in Nat /\ t \in Nat /\ s <= t
  BY <1>2
<1> HIDE DEF s, t
<1> QED BY <1>3, <1>4 DEF Gutter

\* Hence it never leaves a wider column, down to the least.
LEMMA PaddedShrinks ==
    ASSUME NEW pane \in Nat, NEW a \in Nat, NEW b \in Nat, a <= b
    PROVE  Padded(pane, a) \in Int /\ Padded(pane, b) \in Int /\ Padded(pane, b) <= Padded(pane, a)
<1> DEFINE s == Inset(pane, a)
           t == Inset(pane, b)
           l == LeastText(pane)
<1>1. s \in Nat /\ t \in Nat /\ s <= t
  BY InsetGrows
<1>2. l \in Nat /\ l <= pane
  BY DEF LeastText, MinText
<1>3. /\ Padded(pane, a) = IF a = 0 THEN pane ELSE IF pane - s < l THEN l ELSE pane - s
      /\ Padded(pane, b) = IF b = 0 THEN pane ELSE IF pane - t < l THEN l ELSE pane - t
  BY DEF Padded
<1> HIDE DEF s, t, l
<1>4. a = 0 => Padded(pane, a) = pane
  BY <1>3
<1>5. b = 0 => a = 0
  OBVIOUS
<1> QED BY <1>1, <1>2, <1>3, <1>4, <1>5

\* The keys' steps: wider is never narrower, narrower never wider.
LEMMA StepsHold ==
    ASSUME NEW c, Sensible(c), NEW wider \in BOOLEAN
    PROVE  IF wider THEN Measure(Stepped(c, wider)) >= Measure(c)
           ELSE Measure(Stepped(c, wider)) <= Measure(c)
<1> DEFINE orders == Seq(Range(Formats))
           lists == Seq(Typeable)
           x == IF wider THEN c.cap + CapStep ELSE c.cap - CapStep
           y == IF wider THEN c.margin - 1 ELSE c.margin + 1
           cap == Bounded(x, MinCap, MaxCap)
           margin == Bounded(y, 0, MaxMargin)
           a == [c EXCEPT !.cap = cap]
           b == [c EXCEPT !.margin = margin]
           room == IF wider THEN c.cap < MaxCap ELSE c.cap > MinCap
           pane == Pane(c)
           q == Stepped(c, wider)
           p == Padded(pane, c.margin)
<1>1. c.margin \in Int /\ 0 <= c.margin /\ c.margin <= MaxMargin /\ c.cap \in Int
      /\ (c.cap = 0 \/ (MinCap <= c.cap /\ c.cap <= MaxCap))
  BY Limits DEF Sensible, Chosen
<1>2. pane \in Nat
  BY Limits DEF Pane, Sensible, Chosen
<1>3. p \in Int
  BY <1>1, <1>2, PaddedShrinks
<1>4. \/ q = a /\ c.cap > 0 /\ room
      \/ q = b
  BY DEF Stepped
<1>5. Chosen = [margin : Margins, cap : Caps, spacing : Spacings, flow : BOOLEAN, focus : BOOLEAN,
           theme : {0, 1}, column : BOOLEAN, order : orders, paths : lists]
  BY DEF Chosen
<1>6. c \in Chosen
  BY DEF Sensible
<1>7. Measure(c) = IF c.cap # 0 /\ c.cap < p THEN c.cap ELSE p
  BY MeasureIs
<1> HIDE DEF orders, lists
<1>8. CASE q = a /\ c.cap > 0 /\ room
  <2>1. IF wider THEN cap >= c.cap ELSE cap <= c.cap
    BY <1>1, <1>8, Limits DEF Bounded, CapStep
  <2>2. cap \in Int /\ cap # 0
    BY <1>1, Limits DEF Bounded, CapStep
  <2>3. q.cap = cap /\ q.margin = c.margin /\ Pane(q) = pane
    <3> HIDE DEF cap
    <3> QED BY <1>5, <1>6, <1>8 DEF Pane
  <2>4. Measure(q) = IF q.cap # 0 /\ q.cap < Padded(Pane(q), q.margin) THEN q.cap
                     ELSE Padded(Pane(q), q.margin)
    BY MeasureIs
  <2>5. Measure(q) = IF cap < p THEN cap ELSE p
    BY <2>2, <2>3, <2>4
  <2>6. Measure(c) = IF c.cap < p THEN c.cap ELSE p
    BY <1>1, <1>7, <1>8
  <2> HIDE DEF cap, p, q
  <2>7. IF wider THEN Measure(q) >= Measure(c) ELSE Measure(q) <= Measure(c)
    BY <1>1, <1>3, <2>1, <2>2, <2>5, <2>6
  <2> QED BY <2>7 DEF q
<1>9. CASE q = b
  <2>1. margin \in Int /\ 0 <= margin /\ IF wider THEN margin <= c.margin ELSE c.margin <= margin
    BY <1>1, Limits DEF Bounded
  <2>2. q.cap = c.cap /\ q.margin = margin /\ Pane(q) = pane
    <3> HIDE DEF margin
    <3> QED BY <1>5, <1>6, <1>9 DEF Pane
  <2> DEFINE r == Padded(pane, margin)
  <2>3. Measure(q) = IF q.cap # 0 /\ q.cap < Padded(Pane(q), q.margin) THEN q.cap
                     ELSE Padded(Pane(q), q.margin)
    BY MeasureIs
  <2>4. Measure(q) = IF c.cap # 0 /\ c.cap < r THEN c.cap ELSE r
    BY <2>2, <2>3
  <2>5. r \in Int /\ IF wider THEN r >= p ELSE r <= p
    <3>1. margin \in Nat /\ c.margin \in Nat
      BY <1>1, <2>1
    <3> HIDE DEF margin, pane
    <3>2. CASE wider
      <4>1. margin <= c.margin
        BY <2>1, <3>2
      <4>2. p <= r /\ r \in Int
        BY <1>2, <3>1, <4>1, PaddedShrinks
      <4> QED BY <1>3, <3>2, <4>2
    <3>3. CASE ~wider
      <4>1. c.margin <= margin
        BY <2>1, <3>3
      <4>2. r <= p /\ r \in Int
        BY <1>2, <3>1, <4>1, PaddedShrinks
      <4> QED BY <1>3, <3>3, <4>2
    <3> QED BY <3>2, <3>3
  <2> HIDE DEF margin, p, q, r
  <2>6. IF wider THEN Measure(q) >= Measure(c) ELSE Measure(q) <= Measure(c)
    BY <1>1, <1>3, <1>7, <2>4, <2>5
  <2> QED BY <2>6 DEF q
<1> QED BY <1>4, <1>8, <1>9

\* What a reset puts back, and what it leaves where it was.
Resets == OptionFields \cup {"mode"} \cup Range(Formats)
AtDefault(c, item) ==
    IF item = "mode" THEN Profile(c) = Profile(Default)
    ELSE IF item \in Range(Formats) THEN KeepRank(c, item) = KeepRank(Default, item)
    ELSE c[item] = Default[item]

\* The default mode is the mode of the default profile only.
LEMMA DefaultModes ==
    ASSUME NEW c
    PROVE  ReadingMode(c) = ReadingMode(Default) <=> Profile(c) = Profile(Default)
<1>1. \E m \in 1 .. Len(Presets) : Presets[m] = Profile(Default)
  <2>1. Presets \in Seq([margin : Margins, cap : Caps, spacing : Spacings, flow : BOOLEAN])
        /\ Len(Presets) > 1
    BY SettingsAssumption
  <2>2. 1 \in 1 .. Len(Presets)
    BY <2>1
  <2> QED BY <2>2, DefaultIs
<1>2. ReadingMode(Default) # Custom /\ Presets[ReadingMode(Default)] = Profile(Default)
  BY <1>1, ModeIs
<1>3. ASSUME ReadingMode(c) = ReadingMode(Default) PROVE Profile(c) = Profile(Default)
  BY <1>2, <1>3, ModeIs
<1>4. ASSUME Profile(c) = Profile(Default) PROVE ReadingMode(c) = ReadingMode(Default)
  BY <1>4 DEF ReadingMode
<1> QED BY <1>3, <1>4

\* An option is told to be at its default exactly when its fields are.
LEMMA DefaultIsAt ==
    ASSUME NEW c, NEW item \in Resets
    PROVE  IsDefault(c, item) <=> AtDefault(c, item)
<1>1. ~IsAction(item)
  BY NamesApart DEF Resets, IsAction, OptionFields, Named
<1>2. item \in Range(Formats) => item # "mode" /\ item \notin OptionFields
  BY NamesApart DEF Named
<1>3. IsFormat(item) <=> item \in Range(Formats)
  BY FormatIs
<1> QED BY <1>1, <1>2, <1>3, DefaultModes DEF IsDefault, AtDefault, Value

\* One option back at its default moves nothing else away from its own.
LEMMA ResetKeeps ==
    ASSUME NEW c, Sensible(c), NEW item \in Resets
    PROVE  /\ AtDefault(Reset(c, item), item)
           /\ \A other \in Resets : AtDefault(c, other) => AtDefault(Reset(c, item), other)
<1> DEFINE q == Reset(c, item)
           m == ReadingMode(Default)
           orders == Seq(Range(Formats))
           lists == Seq(Typeable)
<1>1. c \in [margin : Margins, cap : Caps, spacing : Spacings, flow : BOOLEAN, focus : BOOLEAN,
           theme : {0, 1}, column : BOOLEAN, order : orders, paths : lists]
  BY DEF Sensible, Chosen
<1>2. Default \in [margin : Margins, cap : Caps, spacing : Spacings, flow : BOOLEAN, focus : BOOLEAN,
           theme : {0, 1}, column : BOOLEAN, order : orders, paths : lists]
  BY DefaultIs DEF Sensible, Chosen
<1>3. Default.order = Formats
  BY DEF Default
<1> DEFINE same(d, e) == d.margin = e.margin /\ d.cap = e.cap /\ d.spacing = e.spacing /\ d.flow = e.flow
<1>4. \A d, e : Profile(d) = Profile(e) <=> same(d, e)
  BY DEF Profile
<1>5. \A d, e, f : d.order = e.order => KeepRank(d, f) = KeepRank(e, f)
  BY DEF KeepRank
<1>6. m # Custom /\ Presets[m] = Profile(Default)
  <2>1. \E k \in 1 .. Len(Presets) : Presets[k] = Profile(Default)
    <3>1. Presets \in Seq([margin : Margins, cap : Caps, spacing : Spacings, flow : BOOLEAN])
          /\ Len(Presets) > 1
      BY SettingsAssumption
    <3>2. 1 \in 1 .. Len(Presets)
      BY <3>1
    <3> QED BY <3>2, DefaultIs
  <2> QED BY <2>1, ModeIs
<1>7. Presets[m].margin = Default.margin /\ Presets[m].cap = Default.cap
      /\ Presets[m].spacing = Default.spacing /\ Presets[m].flow = Default.flow
  BY <1>6 DEF Profile
<1>8. Resets = OptionFields \cup {"mode"} \cup Range(Formats)
  BY DEF Resets
<1>9. \A f \in Range(Formats) : f # "mode" /\ f \notin OptionFields
  BY NamesApart DEF Named
<1> HIDE DEF orders, lists, m
<1>10. CASE item = "mode"
  <2> DEFINE e == (m = Len(Presets))
             a == Presets[m].margin
             b == Presets[m].cap
             s == Presets[m].spacing
             w == Presets[m].flow
  <2>1. q = [c EXCEPT !.margin = a, !.cap = b, !.spacing = s, !.flow = w, !.focus = e]
    <3>1. q = WithMode(c, m)
      BY <1>9, <1>10, FormatIs DEF Reset, OptionFields, m
    <3>2. WithMode(c, m) = [c EXCEPT !.margin = a, !.cap = b, !.spacing = s, !.flow = w, !.focus = e]
      BY <1>6 DEF WithMode
    <3> QED BY <3>1, <3>2
  <2>2. a = Default.margin /\ b = Default.cap /\ s = Default.spacing /\ w = Default.flow
    BY <1>7
  <2> HIDE DEF e, q, a, b, s, w
  <2>3. q.margin = Default.margin /\ q.cap = Default.cap /\ q.spacing = Default.spacing
        /\ q.flow = Default.flow /\ q.theme = c.theme /\ q.column = c.column /\ q.order = c.order
    BY <1>1, <2>1, <2>2
  <2>4. Profile(q) = Profile(Default)
    BY <1>4, <2>3
  <2>5. \A f \in Range(Formats) : KeepRank(q, f) = KeepRank(c, f)
    BY <1>5, <2>3
  <2>6. \A x \in OptionFields : q[x] = Default[x] \/ q[x] = c[x]
    BY <2>3 DEF OptionFields
  <2>7. \A other \in Resets : AtDefault(c, other) => AtDefault(q, other)
    BY <1>8, <1>9, <2>4, <2>5, <2>6 DEF AtDefault
  <2>8. AtDefault(q, item)
    BY <1>10, <2>4 DEF AtDefault
  <2> QED BY <2>7, <2>8 DEF q
<1>11. CASE item \in Range(Formats)
  <2>1. q = [c EXCEPT !.order = Formats]
    BY <1>9, <1>11, FormatIs DEF Reset, OptionFields
  <2> HIDE DEF q
  <2>2. q.order = Default.order /\ q.margin = c.margin /\ q.cap = c.cap /\ q.spacing = c.spacing
        /\ q.flow = c.flow /\ q.theme = c.theme /\ q.column = c.column
    BY <1>1, <1>3, <2>1
  <2>3. \A f \in Range(Formats) : KeepRank(q, f) = KeepRank(Default, f)
    BY <1>5, <2>2
  <2>4. Profile(q) = Profile(c)
    BY <1>4, <2>2
  <2>5. \A x \in OptionFields : q[x] = c[x]
    BY <2>2 DEF OptionFields
  <2>6. \A other \in Resets : AtDefault(c, other) => AtDefault(q, other)
    BY <1>8, <1>9, <2>3, <2>4, <2>5 DEF AtDefault
  <2>7. AtDefault(q, item)
    BY <1>9, <1>11, <2>3 DEF AtDefault
  <2> QED BY <2>6, <2>7 DEF q
<1>12. CASE item \in OptionFields
  <2>1. item \notin Range(Formats) /\ item # "mode"
    BY <1>9, <1>12 DEF OptionFields
  <2>2. q = [c EXCEPT ![item] = Default[item]]
    BY <1>12, <2>1, FormatIs DEF Reset, OptionFields
  <2> HIDE DEF q
  <2>3. item \in DOMAIN c
    BY <1>1, <1>12 DEF OptionFields
  <2>4. \A x \in DOMAIN c : q[x] = IF x = item THEN Default[item] ELSE c[x]
    BY <2>2, <2>3
  <2>5. OptionFields \cup {"order"} \subseteq DOMAIN c /\ "order" \notin OptionFields
    BY <1>1 DEF OptionFields
  <2>6. q[item] = Default[item] /\ \A x \in OptionFields : q[x] = Default[x] \/ q[x] = c[x]
    BY <1>12, <2>4, <2>5
  <2>7. q.order = c.order
    BY <1>12, <2>4, <2>5
  <2>8. \A f \in Range(Formats) : KeepRank(q, f) = KeepRank(c, f)
    BY <1>5, <2>7
  <2>9. same(c, Default) => same(q, Default)
    BY <2>6 DEF OptionFields
  <2>10. Profile(c) = Profile(Default) => Profile(q) = Profile(Default)
    BY <1>4, <2>9
  <2>11. \A other \in Resets : AtDefault(c, other) => AtDefault(q, other)
    BY <1>8, <1>9, <2>6, <2>8, <2>10 DEF AtDefault
  <2>12. AtDefault(q, item)
    BY <2>1, <2>6 DEF AtDefault
  <2> QED BY <2>11, <2>12 DEF q
<1> QED BY <1>8, <1>10, <1>11, <1>12

\* The configurations of a tab reset row by row are there, whatever the rows.
ResetRow(c, stale, rows, i) == IF i \in stale THEN Reset(c, rows[i].item) ELSE c
RowByRow(f, c, stale, rows, n) ==
    f = [i \in 0 .. n |-> IF i = 0 THEN c ELSE ResetRow(f[i - 1], stale, rows, i)]
\* They are there by induction on the rows.
LEMMA ResetsExist ==
    ASSUME NEW rows, NEW stale, NEW n \in Nat
    PROVE  \E f : RowByRow(f, config, stale, rows, n)
<1> DEFINE Upto(f, k) == f = [i \in 0 .. k |->
                         IF i = 0 THEN config ELSE ResetRow(f[i - 1], stale, rows, i)]
           Bad == {k \in Nat : ~ \E f : Upto(f, k)}
<1> SUFFICES ASSUME Bad # {} PROVE FALSE
  BY DEF RowByRow
<1>1. PICK k \in Bad : \A j \in Bad : k <= j
  <2>1. Bad \in SUBSET Nat
    OBVIOUS
  <2> QED BY <2>1, LeastElement
<1>2. k # 0
  <2> DEFINE one == [i \in 0 .. 0 |-> config]
  <2>1. 0 .. 0 = {0}
    OBVIOUS
  <2>2. one = [i \in 0 .. 0 |-> IF i = 0 THEN config ELSE ResetRow(one[i - 1], stale, rows, i)]
    BY <2>1
  <2>3. Upto(one, 0)
    BY <2>2
  <2> QED BY <1>1, <2>3
<1>3. k - 1 \in Nat /\ k - 1 \notin Bad
  <2>1. k \in Nat /\ k - 1 \in Nat
    BY <1>1, <1>2
  <2> QED BY <1>1, <2>1
<1>4. PICK g : Upto(g, k - 1)
  BY <1>3
<1>5. k \in Nat /\ DOMAIN g = 0 .. (k - 1)
  BY <1>1, <1>4
<1>6. \A i \in 0 .. (k - 1) : g[i] = IF i = 0 THEN config ELSE ResetRow(g[i - 1], stale, rows, i)
  BY <1>4
<1> DEFINE h == [i \in 0 .. k |-> IF i = k THEN ResetRow(g[k - 1], stale, rows, k) ELSE g[i]]
<1>7. \A i \in 0 .. k : h[i] = IF i = 0 THEN config ELSE ResetRow(h[i - 1], stale, rows, i)
  <2> TAKE i \in 0 .. k
  <2>1. CASE i = k
    <3>1. k - 1 \in 0 .. k /\ k - 1 # k /\ k \in 0 .. k
      BY <1>3, <1>5
    <3>2. h[k - 1] = g[k - 1] /\ h[k] = ResetRow(g[k - 1], stale, rows, k)
      BY <3>1
    <3> QED BY <1>2, <2>1, <3>2
  <2>2. CASE i # k
    <3>1. i \in 0 .. (k - 1) /\ h[i] = g[i]
      BY <1>5, <2>2
    <3>2. i # 0 => i - 1 \in 0 .. k /\ i - 1 # k
      BY <1>5, <2>2
    <3>3. i # 0 => h[i - 1] = g[i - 1]
      BY <3>2
    <3> QED BY <1>6, <3>1, <3>3
  <2> QED BY <2>1, <2>2
<1>8. h = [i \in 0 .. k |-> h[i]]
  OBVIOUS
<1>9. Upto(h, k)
  BY <1>7, <1>8
<1> QED BY <1>1, <1>9

\* What the reset of a tab computes, row by row.
LEMMA TabResets ==
    ASSUME ResetTab, NEW T, VisibleRows(popup, config) \in Seq(T)
    PROVE  LET rows == VisibleRows(popup, config)
               stale == {i \in ItemRows(rows) : ~IsDefault(config, rows[i].item)}
           IN  \E f : /\ f[0] = config /\ config' = f[Len(rows)]
                      /\ \A i \in 1 .. Len(rows) : f[i] = ResetRow(f[i - 1], stale, rows, i)
<1> DEFINE rows == VisibleRows(popup, config)
           n == Len(rows)
           stale == {i \in ItemRows(rows) : ~IsDefault(config, rows[i].item)}
           Solves(f) == RowByRow(f, config, stale, rows, n)
           resets == CHOOSE f : Solves(f)
<1>1. config' = resets[n]
  BY DEF ResetTab, Edits, ResetRow, RowByRow
<1>2. n \in Nat
  <2> HIDE DEF rows
  <2> QED OBVIOUS
<1>3. Solves(resets)
  <2>1. \E f : Solves(f)
    <3> HIDE DEF resets, rows, stale, n
    <3> QED BY <1>2, ResetsExist
  <2> QED BY <2>1
<1> HIDE DEF resets, rows, stale, n
<1>4. \A i \in 0 .. n : resets[i] = IF i = 0 THEN config ELSE ResetRow(resets[i - 1], stale, rows, i)
  BY <1>3 DEF RowByRow
<1>5. resets[0] = config /\ \A i \in 1 .. n : resets[i] = ResetRow(resets[i - 1], stale, rows, i)
  BY <1>2, <1>4
<1> QED BY <1>1, <1>5 DEF rows, stale, n

\* A configuration within its limits lists folders.
LEMMA SensiblePaths ==
    ASSUME NEW c, Sensible(c)
    PROVE  c.paths \in Seq(Typeable) /\ HasPaths(c)
BY DEF Sensible, Chosen, HasPaths

\* A row that shows an option shows an action or something that can be reset.
LEMMA RowOptions ==
    ASSUME NEW rows \in Seq(RowRecord), NEW i \in ItemRows(rows), ~IsAction(rows[i].item)
    PROVE  i \in 1 .. Len(rows) /\ rows[i].item \in Resets
<1>1. i \in 1 .. Len(rows) /\ rows[i].item # "heading"
  BY DEF ItemRows, IsItem
<1>2. rows[i].item \in RowItems
  <2>1. rows[i] \in RowRecord
    BY <1>1
  <2> QED BY <2>1 DEF RowRecord
<1>3. rows[i].item \notin {"folder", "add", "find", "rescan"}
  BY DEF IsAction
<1> DEFINE item == rows[i].item
<1>4. item \in Resets
  <2> HIDE DEF item
  <2>1. item # "heading" /\ item \in RowItems /\ item \notin {"folder", "add", "find", "rescan"}
    BY <1>1, <1>2, <1>3 DEF item
  <2> QED BY <2>1 DEF RowItems, Resets
<1> QED BY <1>1, <1>4

\* One row of the tab reset: what is at its default stays there.
LEMMA ResetRowIs ==
    ASSUME NEW c, Sensible(c), NEW stale, NEW rows, NEW i,
           i \in stale => rows[i].item \in Resets
    PROVE  /\ Sensible(ResetRow(c, stale, rows, i))
           /\ ResetRow(c, stale, rows, i).paths = c.paths
           /\ i \in stale => AtDefault(ResetRow(c, stale, rows, i), rows[i].item)
           /\ \A other \in Resets :
                 AtDefault(c, other) => AtDefault(ResetRow(c, stale, rows, i), other)
<1>1. CASE i \in stale
  <2>1. ResetRow(c, stale, rows, i) = Reset(c, rows[i].item)
    BY <1>1 DEF ResetRow
  <2>2. Reset(c, rows[i].item).paths = c.paths
    BY SensiblePaths, ResetPaths DEF SamePaths
  <2>3. rows[i].item \in Resets
    BY <1>1
  <2> DEFINE item == rows[i].item
  <2> HIDE DEF item
  <2>4. Sensible(Reset(c, item))
    BY ResetIs
  <2>5. /\ AtDefault(Reset(c, item), item)
        /\ \A other \in Resets : AtDefault(c, other) => AtDefault(Reset(c, item), other)
    BY <2>3, ResetKeeps DEF item
  <2> QED BY <2>1, <2>2, <2>4, <2>5 DEF item
<1>2. CASE i \notin stale
  BY <1>2 DEF ResetRow
<1> QED BY <1>1, <1>2

\* The reset of a tab leaves every option of it at its default.
LEMMA ResetTabIs ==
    ASSUME Sensible(config), popup.scope \in Scopes, ResetTab
    PROVE  /\ Sensible(config') /\ config'.paths = config.paths
           /\ \A i \in ItemRows(VisibleRows(popup, config)) :
                 IsDefault(config', VisibleRows(popup, config)[i].item)
<1> DEFINE rows == VisibleRows(popup, config)
           n == Len(rows)
           stale == {i \in ItemRows(rows) : ~IsDefault(config, rows[i].item)}
<1>1. rows \in Seq(RowRecord) /\ n \in Nat
  <2>1. rows \in Seq(RowRecord)
    BY SensiblePaths, VisibleRowsAre
  <2> HIDE DEF rows
  <2> QED BY <2>1
<1>2. PICK f : /\ f[0] = config /\ config' = f[n]
               /\ \A i \in 1 .. n : f[i] = ResetRow(f[i - 1], stale, rows, i)
  BY <1>1, TabResets
<1>3. \A i \in stale : i \in 1 .. n /\ rows[i].item \in Resets /\ ~IsDefault(config, rows[i].item)
  <2> SUFFICES ASSUME NEW i \in stale
               PROVE  i \in 1 .. n /\ rows[i].item \in Resets /\ ~IsDefault(config, rows[i].item)
    OBVIOUS
  <2>1. i \in ItemRows(rows) /\ ~IsDefault(config, rows[i].item)
    OBVIOUS
  <2>2. ~IsAction(rows[i].item)
    BY <2>1 DEF IsDefault
  <2> HIDE DEF rows
  <2> QED BY <1>1, <2>1, <2>2, RowOptions
<1>4. \A i \in ItemRows(rows) :
        i \in stale \/ IsAction(rows[i].item)
          \/ (rows[i].item \in Resets /\ IsDefault(config, rows[i].item))
  <2> SUFFICES ASSUME NEW i \in ItemRows(rows), i \notin stale, ~IsAction(rows[i].item)
               PROVE  rows[i].item \in Resets /\ IsDefault(config, rows[i].item)
    OBVIOUS
  <2>1. IsDefault(config, rows[i].item)
    OBVIOUS
  <2> HIDE DEF rows
  <2> QED BY <1>1, <2>1, RowOptions
<1> HIDE DEF rows, n, stale
<1> DEFINE Good(k) == /\ Sensible(f[k]) /\ f[k].paths = config.paths
                      /\ \A other \in Resets : AtDefault(config, other) => AtDefault(f[k], other)
                      /\ \A i \in stale : i <= k => AtDefault(f[k], rows[i].item)
           Bad == {k \in 0 .. n : ~Good(k)}
<1>5. Bad = {}
  <2> SUFFICES ASSUME Bad # {} PROVE FALSE
    OBVIOUS
  <2>1. PICK k \in Bad : \A j \in Bad : k <= j
    <3>1. Bad \in SUBSET Nat
      BY <1>1
    <3> HIDE DEF Bad
    <3> QED BY <3>1, LeastElement
  <2>2. k \in 0 .. n /\ ~Good(k)
    OBVIOUS
  <2>3. Good(0)
    BY <1>1, <1>2, <1>3
  <2>4. k \in 1 .. n /\ k - 1 \in 0 .. n /\ k - 1 < k
    <3>1. k # 0
      BY <2>2, <2>3
    <3> HIDE DEF Good
    <3> QED BY <1>1, <2>2, <3>1
  <2>5. Good(k - 1)
    <3>1. k - 1 \notin Bad
      <4> HIDE DEF Bad
      <4>1. k \in Int
        BY <2>4, <1>1
      <4> QED BY <2>1, <2>4, <4>1
    <3> QED BY <2>4, <3>1
  <2> DEFINE old == f[k - 1]
             new == f[k]
  <2>6. new = ResetRow(old, stale, rows, k)
    BY <1>2, <2>4
  <2>7. /\ Sensible(old) /\ old.paths = config.paths
        /\ \A other \in Resets : AtDefault(config, other) => AtDefault(old, other)
        /\ \A i \in stale : i <= k - 1 => AtDefault(old, rows[i].item)
    BY <2>5
  <2>8. k \in stale => rows[k].item \in Resets
    BY <1>3
  <2> HIDE DEF old
  <2>9. /\ Sensible(new) /\ new.paths = old.paths
        /\ k \in stale => AtDefault(new, rows[k].item)
        /\ \A other \in Resets : AtDefault(old, other) => AtDefault(new, other)
    BY <2>6, <2>7, <2>8, ResetRowIs
  <2> HIDE DEF new
  <2>10. \A i \in stale : i <= k => AtDefault(new, rows[i].item)
    <3> TAKE i \in stale
    <3> HAVE i <= k
    <3>1. i \in Int /\ k \in Int /\ rows[i].item \in Resets
      BY <1>1, <1>3, <2>4
    <3>2. i = k \/ i <= k - 1
      BY <3>1
    <3>3. i <= k - 1 => AtDefault(old, rows[i].item)
      BY <2>7
    <3> QED BY <2>9, <3>1, <3>2, <3>3
  <2>11. \A other \in Resets : AtDefault(config, other) => AtDefault(new, other)
    BY <2>7, <2>9
  <2>12. new = f[k]
    BY DEF new
  <2>13. Good(k)
    BY <2>7, <2>9, <2>10, <2>11, <2>12
  <2> QED BY <2>2, <2>13
<1>6. Good(n)
  BY <1>1, <1>5
<1>7. \A i \in ItemRows(rows) : IsDefault(config', rows[i].item)
  <2> TAKE i \in ItemRows(rows)
  <2>1. CASE i \in stale
    <3>1. i <= n /\ rows[i].item \in Resets
      BY <1>1, <1>3, <2>1
    <3>2. AtDefault(config', rows[i].item)
      BY <1>2, <1>6, <2>1, <3>1
    <3> QED BY <3>1, <3>2, DefaultIsAt
  <2>2. CASE IsAction(rows[i].item)
    BY <2>2 DEF IsDefault
  <2>3. CASE rows[i].item \in Resets /\ IsDefault(config, rows[i].item)
    <3>1. AtDefault(config, rows[i].item)
      BY <2>3, DefaultIsAt
    <3>2. AtDefault(config', rows[i].item)
      BY <1>2, <1>6, <2>3, <3>1
    <3> QED BY <2>3, <3>2, DefaultIsAt
  <2> QED BY <1>4, <2>1, <2>2, <2>3
<1> QED BY <1>2, <1>6, <1>7 DEF rows

\* What a file may hold; the popup's cursor is on an option; a column the lines
\* are not wrapped for is one whose position is held.
Files == [is : {"good", "missing", "garbled", "unreadable"}, of : ByHand]
CursorSound == popup = NoSettings \/ (PopupPlaced(popup) /\ OnRow(popup, config))
PositionHeld == held \in BOOLEAN /\ (held \/ WrapInput(config) = wrappedFor)
SettingsInv == Sensible(config) /\ file \in Files /\ CursorSound /\ PositionHeld

\* What is saved can be read back.
LEMMA SavedIs ==
    ASSUME NEW c, Sensible(c)
    PROVE  c \in ByHand /\ [is |-> "good", of |-> [c EXCEPT !.focus = FALSE]] \in Files
<1>1. Range(Formats) \subseteq Listable
  BY DEF Listable
<1>2. \A o \in Seq(Range(Formats)) : o \in Seq(Listable)
  <2> TAKE o \in Seq(Range(Formats))
  <2> DEFINE T == Range(Formats)
  <2> HIDE DEF T
  <2>1. o \in Seq(T) /\ T \subseteq Listable
    BY <1>1 DEF T
  <2>2. Len(o) \in Nat /\ o = [i \in 1 .. Len(o) |-> o[i]] /\ \A i \in 1 .. Len(o) : o[i] \in T
    BY <2>1
  <2>3. o \in [1 .. Len(o) -> Listable]
    BY <2>1, <2>2
  <2> QED BY <2>2, <2>3
<1>3. Margins \subseteq Int /\ Caps \subseteq Int /\ Spacings \subseteq Int
  BY Limits
<1>4. ASSUME NEW d, Sensible(d) PROVE d \in ByHand
  <2> DEFINE O == Seq(Range(Formats))
             P == Seq(Typeable)
             S == Seq(Listable)
  <2>1. \A o \in O : o \in S
    BY <1>2
  <2>2. d \in [margin : Margins, cap : Caps, spacing : Spacings, flow : BOOLEAN, focus : BOOLEAN,
               theme : {0, 1}, column : BOOLEAN, order : O, paths : P]
    BY <1>4 DEF Sensible, Chosen
  <2> HIDE DEF O, P, S
  <2>3. d \in [margin : Int, cap : Int, spacing : Int, flow : BOOLEAN, focus : BOOLEAN,
               theme : {0, 1}, column : BOOLEAN, order : S, paths : P]
    BY <1>3, <2>1, <2>2
  <2> QED BY <2>3 DEF ByHand, P, S
<1>5. Sensible([c EXCEPT !.focus = FALSE])
  BY FieldSet
<1>6. c \in ByHand /\ [c EXCEPT !.focus = FALSE] \in ByHand
  BY <1>4, <1>5
<1> QED BY <1>6 DEF Files

\* The lines are wrapped for what the layout's key says.
LEMMA WrapFollowsKey ==
    ASSUME NEW c, NEW d, LayoutKey(c) = LayoutKey(d)
    PROVE  WrapInput(c) = WrapInput(d)
<1>1. c.margin = d.margin /\ c.cap = d.cap /\ c.spacing = d.spacing /\ c.focus = d.focus
  BY DEF LayoutKey
<1>2. Pane(c) = Pane(d)
  BY <1>1 DEF Pane
<1>3. Measure(c) = Measure(d)
  BY <1>1, <1>2, MeasureIs
<1> QED BY <1>1, <1>3 DEF WrapInput

\* Steps of the popup alone.
LEMMA DisplaysHold ==
    ASSUME SettingsInv, NEW q, Displays(q), q = NoSettings \/ (PopupPlaced(q) /\ OnRow(q, config))
    PROVE  SettingsInv'
<1>1. popup' = q /\ config' = config /\ file' = file /\ held' = held /\ wrappedFor' = wrappedFor
  BY DEF Displays, disk, page
<1>2. Sensible(config)' /\ (file \in Files)'
  BY <1>1 DEF SettingsInv
<1>3. CursorSound'
  BY <1>1 DEF CursorSound
<1>4. PositionHeld'
  BY <1>1 DEF SettingsInv, PositionHeld
<1> QED BY <1>2, <1>3, <1>4 DEF SettingsInv

\* Edits of the options in memory, saved or not.
LEMMA EditsHold ==
    ASSUME SettingsInv, NEW c, Edits(c), Sensible(c), c.paths = config.paths,
           UNCHANGED disk \/ SaveAs(config')
    PROVE  SettingsInv'
<1>1. config' = c /\ HoldIfLaidOut(c) /\ popup' = popup /\ wrappedFor' = wrappedFor
  BY DEF Edits
<1>2. Sensible(config)'
  BY <1>1
<1>3. (file \in Files)'
  <2>1. CASE UNCHANGED disk
    BY <2>1 DEF disk, SettingsInv
  <2>2. CASE SaveAs(config')
    BY <1>1, <2>2, SavedIs DEF SaveAs
  <2> QED BY <2>1, <2>2
<1>4. CursorSound'
  <2>1. OnRow(popup, config) <=> OnRow(popup, c)
    BY VisibleFollowsPaths
  <2> QED BY <1>1, <2>1 DEF SettingsInv, CursorSound
<1>5. PositionHeld'
  <2>1. held' \in BOOLEAN /\ (held' <=> (held \/ LayoutKey(c) # LayoutKey(config)))
    BY <1>1 DEF HoldIfLaidOut, SettingsInv, PositionHeld
  <2>2. LayoutKey(c) = LayoutKey(config) => WrapInput(c) = WrapInput(config)
    BY WrapFollowsKey
  <2> QED BY <1>1, <2>1, <2>2 DEF SettingsInv, PositionHeld
<1> QED BY <1>2, <1>3, <1>4, <1>5 DEF SettingsInv

\* Edits of the folders: the cursor is put back on a row, the layout is left alone.
LEMMA FoldersHold ==
    ASSUME SettingsInv, NEW ps \in Seq(Typeable),
           config' = [config EXCEPT !.paths = ps], SaveAs(config') \/ UNCHANGED disk,
           CursorSound', UNCHANGED page
    PROVE  SettingsInv'
<1>1. Sensible(config)'
  BY FieldSet DEF SettingsInv
<1>2. (file \in Files)'
  <2>1. CASE UNCHANGED disk
    BY <2>1 DEF disk, SettingsInv
  <2>2. CASE SaveAs(config')
    BY <1>1, <2>2, SavedIs DEF SaveAs
  <2> QED BY <2>1, <2>2
<1>3. PositionHeld'
  <2>1. LayoutKey(config') = LayoutKey(config)
    <3> DEFINE O == Seq(Range(Formats))
               P == Seq(Typeable)
    <3>1. config \in [margin : Margins, cap : Caps, spacing : Spacings, flow : BOOLEAN,
                      focus : BOOLEAN, theme : {0, 1}, column : BOOLEAN, order : O, paths : P]
      BY DEF SettingsInv, Sensible, Chosen
    <3> HIDE DEF O, P
    <3>2. /\ config'.margin = config.margin /\ config'.cap = config.cap
          /\ config'.spacing = config.spacing /\ config'.focus = config.focus
      BY <3>1
    <3> QED BY <3>2 DEF LayoutKey
  <2>2. WrapInput(config') = WrapInput(config)
    BY <2>1, WrapFollowsKey
  <2> QED BY <2>2 DEF page, SettingsInv, PositionHeld
<1> QED BY <1>1, <1>2, <1>3 DEF SettingsInv

\* The fields of the popup set, one or two at a time.
LEMMA PopupSet ==
    ASSUME NEW p, PopupPlaced(p)
    PROVE  /\ \A x \in {NoText, NoQuery} : PopupPlaced([p EXCEPT !.adding = x])
           /\ \A x \in {NoQuery} \cup DOMAIN Finds : PopupPlaced([p EXCEPT !.filter = x])
           /\ \A x \in {NoQuery} \cup DOMAIN Finds : PopupPlaced([p EXCEPT !.query = x, !.filter = NoText])
           /\ \A x \in {NoText, NoQuery} : \A c : OnRow([p EXCEPT !.adding = x], c) <=> OnRow(p, c)
<1>1. p \in PopupRecord /\ p.tab \in TabsOf(p.scope)
  BY DEF PopupPlaced
<1>2. ASSUME NEW q \in PopupRecord, q.tab = p.tab, q.scope = p.scope PROVE PopupPlaced(q)
  BY <1>1, <1>2 DEF PopupPlaced
<1>3. \A x \in {NoText, NoQuery} : PopupPlaced([p EXCEPT !.adding = x])
  <2> TAKE x \in {NoText, NoQuery}
  <2> DEFINE q == [p EXCEPT !.adding = x]
  <2>1. q \in PopupRecord /\ q.tab = p.tab /\ q.scope = p.scope
    BY <1>1 DEF PopupRecord
  <2> QED BY <1>2, <2>1
<1>4. \A x \in {NoQuery} \cup DOMAIN Finds : PopupPlaced([p EXCEPT !.filter = x])
  <2> TAKE x \in {NoQuery} \cup DOMAIN Finds
  <2> DEFINE q == [p EXCEPT !.filter = x]
  <2>1. q \in PopupRecord /\ q.tab = p.tab /\ q.scope = p.scope
    BY <1>1 DEF PopupRecord
  <2> QED BY <1>2, <2>1
<1>5. \A x \in {NoQuery} \cup DOMAIN Finds : PopupPlaced([p EXCEPT !.query = x, !.filter = NoText])
  <2> TAKE x \in {NoQuery} \cup DOMAIN Finds
  <2> DEFINE q == [p EXCEPT !.query = x, !.filter = NoText]
  <2>1. q \in PopupRecord /\ q.tab = p.tab /\ q.scope = p.scope
    BY <1>1 DEF PopupRecord
  <2> QED BY <1>2, <2>1
<1>6. \A x \in {NoText, NoQuery} : \A c : OnRow([p EXCEPT !.adding = x], c) <=> OnRow(p, c)
  <2> TAKE x \in {NoText, NoQuery}
  <2> TAKE c
  <2> DEFINE q == [p EXCEPT !.adding = x]
  <2>1. /\ q.tab = p.tab /\ q.scope = p.scope /\ q.row = p.row
        /\ q.filter = p.filter /\ q.query = p.query
    BY <1>1 DEF PopupRecord
  <2> HIDE DEF q
  <2>2. VisibleRows(q, c) = VisibleRows(p, c)
    BY <2>1 DEF VisibleRows, ActiveQuery
  <2>3. OnRow(q, c) <=> OnRow(p, c)
    BY <2>1, <2>2 DEF OnRow
  <2> QED BY <2>3 DEF q
<1> QED BY <1>3, <1>4, <1>5, <1>6

\* What the invariant says of the folders and of an open popup.
LEMMA PopupIs ==
    ASSUME SettingsInv
    PROVE  /\ config.paths \in Seq(Typeable)
           /\ popup # NoSettings => PopupPlaced(popup) /\ popup \in PopupRecord /\ OnRow(popup, config)
BY SensiblePaths DEF SettingsInv, CursorSound, PopupPlaced

\* Whatever changes the filter puts the cursor back.
LEMMA RefilteredHold ==
    ASSUME SettingsInv, NEW p, PopupPlaced(p), NEW d \in Int, Displays(MovedTo(p, config, d))
    PROVE  SettingsInv'
BY PopupIs, MovedToIs, DisplaysHold

\* The steps that move the cursor, one by one.
LEMMA CursorSteps ==
    ASSUME SettingsInv,
           \/ \E s \in Scopes : Open(s)
           \/ BeginFilter \/ CommitFilter \/ DropFilter
           \/ \E d \in {-5, -1, 1, 5} : Move(d)
           \/ \E t \in TabsOf("reader") \cup TabsOf("library") : GotoTab(t)
           \/ \E q \in DOMAIN Finds \cup {NoQuery} : TypeFilter(q)
           \/ BeginAdd \/ CancelAdd \/ FindFolders
    PROVE  SettingsInv'
<1>1. ASSUME NEW s \in Scopes, Open(s) PROVE SettingsInv'
  <2> DEFINE p == [NoSettings EXCEPT !.scope = s]
             q == [NoSettings EXCEPT !.scope = s, !.row = FirstRow(s, 1, config)]
             r == [p EXCEPT !.tab = 1, !.row = FirstRow(p.scope, 1, config)]
  <2>1. p \in PopupRecord /\ p.scope = s /\ p.tab = 1
    BY DEF NoSettings, PopupRecord
  <2>2. 1 \in TabsOf(s)
    BY TabsAssumption
  <2>3. PopupPlaced(p)
    BY <2>1, <2>2 DEF PopupPlaced
  <2>4. q = r
    <3> DEFINE row == FirstRow(s, 1, config)
    <3>1. FirstRow(p.scope, 1, config) = row
      BY <2>1
    <3> HIDE DEF row
    <3>2. p = [scope |-> s, tab |-> 1, row |-> 1, adding |-> NoText,
               filter |-> NoText, query |-> NoQuery]
      BY DEF NoSettings
    <3>3. [NoSettings EXCEPT !.scope = s, !.row = row] = [p EXCEPT !.row = row]
      OBVIOUS
    <3> HIDE DEF p
    <3>4. [p EXCEPT !.tab = 1, !.row = row] = [[p EXCEPT !.tab = 1] EXCEPT !.row = row]
      OBVIOUS
    <3>5. [p EXCEPT !.tab = 1] = p
      BY <3>2
    <3> QED BY <3>1, <3>3, <3>4, <3>5 DEF row
  <2>5. Displays(q)
    BY <1>1 DEF Open
  <2> HIDE DEF p
  <2>6. PopupPlaced(r) /\ OnRow(r, config)
    BY <2>1, <2>2, <2>3, PopupIs, TabChosen
  <2> HIDE DEF q, r
  <2> QED BY <2>4, <2>5, <2>6, DisplaysHold
<1>2. CASE BeginFilter
  <2> DEFINE p == [popup EXCEPT !.filter = popup.query]
  <2>1. popup # NoSettings /\ Displays(MovedTo(p, config, 0))
    BY <1>2 DEF BeginFilter, AtList, InPopup, Refiltered
  <2>2. PopupPlaced(popup) /\ popup.query \in {NoQuery} \cup DOMAIN Finds
    BY <2>1, PopupIs DEF PopupRecord
  <2>3. PopupPlaced(p)
    BY <2>2, PopupSet
  <2> HIDE DEF p
  <2> QED BY <2>1, <2>3, RefilteredHold
<1>3. CASE CommitFilter
  <2> DEFINE p == [popup EXCEPT !.query = popup.filter, !.filter = NoText]
  <2>1. popup # NoSettings /\ popup.filter # NoText /\ Displays(MovedTo(p, config, 0))
    BY <1>3 DEF CommitFilter, InPopup, Refiltered
  <2>2. PopupPlaced(popup) /\ popup.filter \in {NoQuery} \cup DOMAIN Finds
    BY <2>1, PopupIs DEF PopupRecord
  <2>3. PopupPlaced(p)
    BY <2>2, PopupSet
  <2> HIDE DEF p
  <2> QED BY <2>1, <2>3, RefilteredHold
<1>4. CASE DropFilter
  <2> DEFINE p == [popup EXCEPT !.query = NoQuery, !.filter = NoText]
  <2>1. popup # NoSettings /\ Displays(MovedTo(p, config, 0))
    BY <1>4 DEF DropFilter, InPopup, Refiltered
  <2>2. PopupPlaced(p)
    BY <2>1, PopupIs, PopupSet
  <2> HIDE DEF p
  <2> QED BY <2>1, <2>2, RefilteredHold
<1>5. ASSUME NEW d \in {-5, -1, 1, 5}, Move(d) PROVE SettingsInv'
  <2>1. popup # NoSettings /\ Displays(MovedTo(popup, config, d)) /\ d \in Int
    BY <1>5 DEF Move, InPopup
  <2> QED BY <2>1, PopupIs, RefilteredHold
<1>6. ASSUME NEW t, GotoTab(t) PROVE SettingsInv'
  <2> DEFINE q == [popup EXCEPT !.tab = t, !.row = FirstRow(popup.scope, t, config)]
  <2>1. popup # NoSettings /\ t \in TabsOf(popup.scope) /\ Displays(q)
    BY <1>6 DEF GotoTab, InPopup
  <2>2. PopupPlaced(q) /\ OnRow(q, config)
    BY <2>1, PopupIs, TabChosen
  <2> HIDE DEF q
  <2> QED BY <2>1, <2>2, DisplaysHold
<1>7. ASSUME NEW x \in DOMAIN Finds \cup {NoQuery}, TypeFilter(x) PROVE SettingsInv'
  <2> DEFINE p == [popup EXCEPT !.filter = x]
  <2>1. popup # NoSettings /\ Displays(MovedTo(p, config, 0))
    BY <1>7 DEF TypeFilter, InPopup, Refiltered
  <2>2. PopupPlaced(p)
    BY <2>1, PopupIs, PopupSet
  <2> HIDE DEF p
  <2> QED BY <2>1, <2>2, RefilteredHold
<1>8. CASE BeginAdd
  <2> DEFINE p == [popup EXCEPT !.adding = NoQuery]
  <2>1. popup # NoSettings /\ Displays(p)
    BY <1>8 DEF BeginAdd, AtList, InPopup
  <2>2. PopupPlaced(p) /\ OnRow(p, config)
    BY <2>1, PopupIs, PopupSet
  <2> HIDE DEF p
  <2> QED BY <2>1, <2>2, DisplaysHold
<1>9. CASE CancelAdd
  <2> DEFINE p == [popup EXCEPT !.adding = NoText]
  <2>1. popup # NoSettings /\ Displays(p)
    BY <1>9 DEF CancelAdd, InPopup
  <2>2. PopupPlaced(p) /\ OnRow(p, config)
    BY <2>1, PopupIs, PopupSet
  <2> HIDE DEF p
  <2> QED BY <2>1, <2>2, DisplaysHold
<1>10. CASE FindFolders
  BY <1>10, DisplaysHold DEF FindFolders
<1> QED BY <1>1, <1>2, <1>3, <1>4, <1>5, <1>6, <1>7, <1>8, <1>9, <1>10

\* The steps that edit the options.
LEMMA EditSteps ==
    ASSUME SettingsInv,
           \/ \E d \in {-1, 1} : Change(d)
           \/ ResetFocused \/ ResetTab
           \/ \E wider \in BOOLEAN : StepMeasure(wider)
           \/ CycleReadingMode \/ ToggleFocus \/ CycleTheme
    PROVE  SettingsInv'
<1>1. Sensible(config) /\ HasPaths(config)
  BY SensiblePaths DEF SettingsInv
<1>2. ASSUME NEW d \in {-1, 1}, Change(d) PROVE SettingsInv'
  <2> DEFINE item == RowUnder(popup, config).item
             c == Changed(config, item, d)
  <2>1. Edits(c) /\ UNCHANGED disk
    BY <1>2 DEF Change
  <2> HIDE DEF item
  <2>2. Sensible(c) /\ c.paths = config.paths
    BY <1>1, ChangedIs, ChangedPaths DEF SamePaths
  <2> HIDE DEF c
  <2> QED BY <2>1, <2>2, EditsHold
<1>3. CASE ResetFocused
  <2> DEFINE item == RowUnder(popup, config).item
             c == Reset(config, item)
  <2>1. Edits(c) /\ SaveAs(config')
    BY <1>3 DEF ResetFocused
  <2> HIDE DEF item
  <2>2. Sensible(c) /\ c.paths = config.paths
    BY <1>1, ResetIs, ResetPaths DEF SamePaths
  <2> HIDE DEF c
  <2> QED BY <2>1, <2>2, EditsHold
<1>4. CASE ResetTab
  <2>1. SaveAs(config') /\ popup # NoSettings
    BY <1>4 DEF ResetTab, AtList, InPopup
  <2>2. Edits(config')
    BY <1>4 DEF ResetTab, Edits
  <2>3. popup.scope \in Scopes
    BY <2>1, PopupIs DEF PopupRecord
  <2>4. Sensible(config') /\ config'.paths = config.paths
    BY <1>1, <1>4, <2>3, ResetTabIs
  <2> QED BY <2>1, <2>2, <2>4, EditsHold
<1>5. ASSUME NEW wider \in BOOLEAN, StepMeasure(wider) PROVE SettingsInv'
  <2> DEFINE c == Stepped(config, wider)
  <2>1. Edits(c) /\ UNCHANGED disk
    BY <1>5 DEF StepMeasure
  <2>2. Sensible(c) /\ c.paths = config.paths
    BY <1>1, SteppedIs, SteppedPaths DEF SamePaths
  <2> HIDE DEF c
  <2> QED BY <2>1, <2>2, EditsHold
<1>6. CASE CycleReadingMode
  <2> DEFINE m == NextMode(ReadingMode(config))
             c == WithMode(config, m)
  <2>1. Edits(c) /\ UNCHANGED disk
    BY <1>6 DEF CycleReadingMode
  <2>2. m \in {Custom} \cup 1 .. Len(Presets)
    BY ModeIs, ModesCycle
  <2> HIDE DEF m
  <2>3. Sensible(c)
    BY <1>1, <2>2, ModeSet
  <2>4. c.paths = config.paths
    BY <1>1 DEF HasPaths, WithMode
  <2> HIDE DEF c
  <2> QED BY <2>1, <2>3, <2>4, EditsHold
<1>7. CASE ToggleFocus
  <2> DEFINE c == [config EXCEPT !.focus = ~@]
  <2>1. Edits(c) /\ UNCHANGED disk
    BY <1>7 DEF ToggleFocus
  <2>2. Sensible(c)
    BY <1>1, FieldSet
  <2>3. c.paths = config.paths
    BY <1>1 DEF HasPaths
  <2> HIDE DEF c
  <2> QED BY <2>1, <2>2, <2>3, EditsHold
<1>8. CASE CycleTheme
  <2> DEFINE c == [config EXCEPT !.theme = (@ + 1) % 2]
  <2>1. Edits(c) /\ SaveAs(config')
    BY <1>8 DEF CycleTheme
  <2>2. config.theme \in {0, 1}
    BY <1>1 DEF Sensible, Chosen
  <2>3. (config.theme + 1) % 2 \in {0, 1}
    BY <2>2
  <2>4. Sensible(c)
    BY <1>1, <2>3, FieldSet
  <2>5. c.paths = config.paths
    BY <1>1 DEF HasPaths
  <2> HIDE DEF c
  <2> QED BY <2>1, <2>4, <2>5, EditsHold
<1> QED BY <1>2, <1>3, <1>4, <1>5, <1>6, <1>7, <1>8

\* A folder typed in or deleted.
LEMMA FolderSteps ==
    ASSUME SettingsInv,
           (\E dir \in Typeable \cup {Nowhere} : CommitAdd(dir)) \/ DeleteFolder
    PROVE  SettingsInv'
<1>1. Sensible(config) /\ config.paths \in Seq(Typeable)
  BY PopupIs DEF SettingsInv
<1>2. config = [config EXCEPT !.paths = config.paths]
  <2> DEFINE O == Seq(Range(Formats))
             P == Seq(Typeable)
  <2>1. config \in [margin : Margins, cap : Caps, spacing : Spacings, flow : BOOLEAN,
                    focus : BOOLEAN, theme : {0, 1}, column : BOOLEAN, order : O, paths : P]
    BY <1>1 DEF Sensible, Chosen
  <2> HIDE DEF O, P
  <2> QED BY <2>1
<1>3. ASSUME NEW dir \in Typeable \cup {Nowhere}, CommitAdd(dir) PROVE SettingsInv'
  <2> DEFINE p == [popup EXCEPT !.adding = NoText]
             known == \E i \in 1..Len(config.paths) : config.paths[i] = dir
             ps == IF dir = Nowhere \/ known THEN config.paths ELSE Append(config.paths, dir)
             c == IF dir = Nowhere \/ known THEN config
                  ELSE [config EXCEPT !.paths = Append(@, dir)]
  <2>1. ps \in Seq(Typeable)
    <3>1. CASE dir = Nowhere \/ known
      BY <1>1, <3>1
    <3>2. CASE ~(dir = Nowhere \/ known)
      <4>1. dir \in Typeable /\ ps = Append(config.paths, dir)
        BY <3>2
      <4> QED BY <1>1, <4>1
    <3> QED BY <3>1, <3>2
  <2>2. c = [config EXCEPT !.paths = ps]
    <3> HIDE DEF known
    <3> QED BY <1>2
  <2>3. /\ popup # NoSettings /\ config' = c /\ UNCHANGED page
        /\ IF c = config THEN UNCHANGED disk ELSE SaveAs(c)
        /\ popup' = IF dir = Nowhere THEN p ELSE MovedTo(p, c, 0)
    BY <1>3 DEF CommitAdd, InPopup
  <2>4. PopupPlaced(p) /\ OnRow(p, config)
    BY <2>3, PopupIs, PopupSet
  <2>5. c.paths \in Seq(Typeable) /\ (dir = Nowhere => c = config)
    <3>1. c.paths = ps
      <4> HIDE DEF c, ps
      <4> QED BY <1>1, <2>2 DEF Sensible, Chosen
    <3> QED BY <2>1, <3>1
  <2>6. SaveAs(config') \/ UNCHANGED disk
    BY <2>3
  <2> HIDE DEF p, c, ps, known
  <2>7. CursorSound'
    <3>1. dir # Nowhere => PopupPlaced(MovedTo(p, c, 0)) /\ OnRow(MovedTo(p, c, 0), c)
      BY <2>4, <2>5, MovedToIs
    <3>2. PopupPlaced(popup') /\ OnRow(popup', config')
      BY <2>3, <2>4, <2>5, <3>1
    <3> QED BY <3>2 DEF CursorSound
  <2> QED BY <2>1, <2>2, <2>3, <2>6, <2>7, FoldersHold
<1>4. CASE DeleteFolder
  <2> DEFINE n == RowUnder(popup, config).n
             ps == [i \in 1..(Len(config.paths) - 1) |->
                       IF i < n THEN config.paths[i] ELSE config.paths[i + 1]]
             c == [config EXCEPT !.paths = ps]
  <2>1. /\ popup # NoSettings /\ config' = c /\ UNCHANGED page /\ SaveAs(c)
        /\ popup' = MovedTo(popup, c, 0) /\ n \in 1..Len(config.paths)
    <3>1. config.paths = config.paths
      OBVIOUS
    <3> QED BY <1>4, <1>2 DEF DeleteFolder, AtList, InPopup
  <2> HIDE DEF n
  <2>2. ps \in Seq(Typeable)
    <3> DEFINE m == Len(config.paths)
    <3>1. m \in Nat /\ m - 1 \in Nat /\ \A i \in 1 .. m : config.paths[i] \in Typeable
      BY <1>1, <2>1
    <3>2. \A i \in 1 .. (m - 1) : i \in 1 .. m /\ i + 1 \in 1 .. m
      <4> HIDE DEF m
      <4> QED BY <3>1
    <3>3. \A i \in 1 .. (m - 1) : (IF i < n THEN config.paths[i] ELSE config.paths[i + 1]) \in Typeable
      BY <3>1, <3>2
    <3>4. ps = [i \in 1 .. (m - 1) |-> IF i < n THEN config.paths[i] ELSE config.paths[i + 1]]
      OBVIOUS
    <3> HIDE DEF m, ps
    <3>5. ps \in [1 .. (m - 1) -> Typeable]
      BY <3>3, <3>4
    <3> QED BY <3>1, <3>5
  <2> HIDE DEF ps
  <2>3. c.paths = ps
    BY <1>1 DEF Sensible, Chosen
  <2>4. PopupPlaced(popup)
    BY <2>1, PopupIs
  <2>5. PopupPlaced(MovedTo(popup, c, 0)) /\ OnRow(MovedTo(popup, c, 0), c)
    <3> HIDE DEF c
    <3> QED BY <2>2, <2>3, <2>4, MovedToIs
  <2>6. CursorSound'
    BY <2>1, <2>5 DEF CursorSound
  <2> QED BY <2>1, <2>2, <2>6, FoldersHold
<1> QED BY <1>3, <1>4

\* The program left and started again, or the file tampered with.
LEMMA FileSteps ==
    ASSUME SettingsInv, Restart \/ \E fault \in Faults : Suffers(fault)
    PROVE  SettingsInv'
<1>1. file \in Files /\ file.of \in ByHand /\ Default \in ByHand /\ Missing \in Files
  <2>1. Default \in ByHand
    BY DefaultIs, SavedIs
  <2> QED BY <2>1 DEF SettingsInv, Files, Missing
<1>2. CASE Restart
  <2>1. /\ popup = NoSettings /\ popup' = NoSettings /\ config' = Loaded(file)
        /\ wrappedFor' = WrapInput(config') /\ held' = FALSE
        /\ file' = Missing \/ file' = file
    BY <1>2 DEF Restart, AtPage, MovedAside
  <2>2. Sensible(config)'
    BY <1>1, <2>1, LoadedIs
  <2> QED BY <1>1, <2>1, <2>2 DEF SettingsInv, CursorSound, PositionHeld
<1>3. ASSUME NEW fault \in Faults, Suffers(fault) PROVE SettingsInv'
  <2>1. UNCHANGED <<config, popup, page>>
    BY <1>3 DEF Suffers
  <2>2. file' \in Files
    <3>1. CASE fault = "edited"
      <4> DEFINE o == <<Formats[2], "unknown", Formats[2]>>
                 S == Seq(Listable)
                 P == Seq(Typeable)
                 of == file.of
                 edited == [of EXCEPT !.margin = MaxMargin + 1, !.cap = MinCap - 1, !.order = o]
      <4>1. o \in S
        <5>1. Formats[2] \in Listable /\ "unknown" \in Listable
          <6>1. 2 \in DOMAIN Formats
            BY SettingsAssumption
          <6> QED BY <6>1 DEF Listable, Range
        <5>2. \A x \in Listable, y \in Listable : <<x, y, x>> \in Seq(Listable)
          OBVIOUS
        <5> QED BY <5>1, <5>2
      <4>2. of \in [margin : Int, cap : Int, spacing : Int, flow : BOOLEAN, focus : BOOLEAN,
                    theme : {0, 1}, column : BOOLEAN, order : S, paths : P]
        BY <1>1 DEF ByHand
      <4>3. MaxMargin + 1 \in Int /\ MinCap - 1 \in Int
        BY Limits
      <4>4. file' = [file EXCEPT !.of = edited]
        BY <1>1, <1>3, <3>1 DEF Suffers, Files
      <4> HIDE DEF o, S, P, of
      <4>5. edited \in [margin : Int, cap : Int, spacing : Int, flow : BOOLEAN, focus : BOOLEAN,
                        theme : {0, 1}, column : BOOLEAN, order : S, paths : P]
        BY <4>1, <4>2, <4>3
      <4>6. edited \in ByHand
        BY <4>5 DEF ByHand, S, P
      <4> HIDE DEF edited
      <4> QED BY <1>1, <4>4, <4>6 DEF Files
    <3>2. CASE fault # "edited"
      <4>1. fault \in {"garbled", "unreadable"}
        BY <3>2, SettingsAssumption
      <4>2. file' = [file EXCEPT !.is = fault]
        BY <1>3, <3>2 DEF Suffers
      <4> QED BY <1>1, <4>1, <4>2 DEF Files
    <3> QED BY <3>1, <3>2
  <2> QED BY <2>1, <2>2 DEF SettingsInv, CursorSound, PositionHeld, page
<1> QED BY <1>2, <1>3

\* The first configuration is the defaults with one folder.
LEMMA SettingsStarts == ASSUME PrefInit PROVE SettingsInv
<1>1. PICK p \in Typeable : config = [Default EXCEPT !.paths = <<p>>]
  BY DEF PrefInit
<1>2. <<p>> \in Seq(Typeable)
  OBVIOUS
<1>3. Sensible(config)
  BY <1>1, <1>2, DefaultIs, FieldSet
<1>4. config \in ByHand
  BY <1>3, SavedIs
<1> QED BY <1>3, <1>4 DEF PrefInit, SettingsInv, Files, CursorSound, PositionHeld

\* Every step keeps the invariant.
LEMMA SettingsSteps ==
    ASSUME SettingsInv, [PrefNext]_prefVars
    PROVE  SettingsInv'
<1>1. CASE UNCHANGED prefVars
  BY <1>1 DEF prefVars, disk, page, SettingsInv, CursorSound, PositionHeld
<1>2. CASE CloseSettings
  <2>1. Sensible(config) /\ SaveAs(config) /\ popup' = NoSettings /\ UNCHANGED <<config, page>>
    BY <1>2 DEF CloseSettings, SettingsInv
  <2>2. file' \in Files
    BY <2>1, SavedIs DEF SaveAs
  <2> QED BY <2>1, <2>2 DEF SettingsInv, CursorSound, PositionHeld, page
<1>3. CASE DrawPage
  BY <1>3 DEF DrawPage, SettingsInv, CursorSound, PositionHeld, disk
<1> QED BY <1>1, <1>2, <1>3, CursorSteps, EditSteps, FolderSteps, FileSteps DEF PrefNext

\* Whatever is edited by hand, in the popup or from the page, the configuration
\* stays within its limits with every format in its order once, the cursor on an
\* option of the rows it is among, and a page that must be wrapped anew held at
\* its place (app/settings.rs, infra/config, app/dispatch/apply.rs).
THEOREM SettingsInvariance == PrefSpec => []SettingsInv
<1>1. PrefInit => SettingsInv
  BY SettingsStarts
<1>2. SettingsInv /\ [PrefNext]_prefVars => SettingsInv'
  BY SettingsSteps
<1> QED BY <1>1, <1>2, PTL DEF PrefSpec

\* Hence the cursor never rests beside the options, no frame loses the reader's
\* place, the reset of a tab leaves nothing of it off its default, the formats
\* keep a rank each, and the key that widens the column never narrows it.
THEOREM TheSettingsAreSound == PrefSpec => SettingsSound
<1> DEFINE Step ==
       /\ OnOption'
       /\ (DrawPage /\ WrapInput(config) # wrappedFor) => held
       /\ ResetTab => \A i \in ItemRows(VisibleRows(popup, config)) :
             IsDefault(config', VisibleRows(popup, config)[i].item)
       /\ Range(config'.order) = Range(Formats) /\ Len(config'.order) = Len(Formats)
       /\ StepMeasure(TRUE) => Measure(config') >= Measure(config)
       /\ StepMeasure(FALSE) => Measure(config') <= Measure(config)
<1>1. SettingsInv /\ SettingsInv' /\ [PrefNext]_prefVars => [Step]_prefVars
  <2> SUFFICES ASSUME SettingsInv, SettingsInv' PROVE Step
    OBVIOUS
  <2>1. OnOption'
    <3>1. CASE popup' = NoSettings
      BY <3>1 DEF OnOption
    <3>2. CASE popup' # NoSettings
      <4> DEFINE rows == VisibleRows(popup', config')
      <4>1. ItemRows(rows) = {} \/ popup'.row \in ItemRows(rows)
        BY <3>2 DEF SettingsInv, CursorSound, OnRow
      <4>2. popup'.row \in ItemRows(rows) =>
               popup'.row \in 1 .. Len(rows) /\ IsItem(rows[popup'.row])
        <5> HIDE DEF rows
        <5> QED BY DEF ItemRows
      <4>3. popup'.row \in 1 .. Len(rows) => RowUnder(popup', config') = rows[popup'.row]
        BY DEF RowUnder
      <4>4. ItemRows(rows) = {} \/ IsItem(RowUnder(popup', config'))
        <5> HIDE DEF rows
        <5> QED BY <4>1, <4>2, <4>3
      <4> QED BY <4>4 DEF OnOption
    <3> QED BY <3>1, <3>2
  <2>2. (DrawPage /\ WrapInput(config) # wrappedFor) => held
    BY DEF SettingsInv, PositionHeld
  <2>3. ASSUME ResetTab
        PROVE  \A i \in ItemRows(VisibleRows(popup, config)) :
                  IsDefault(config', VisibleRows(popup, config)[i].item)
    <3>1. popup # NoSettings
      BY <2>3 DEF ResetTab, AtList, InPopup
    <3>2. popup.scope \in Scopes
      BY <3>1, PopupIs DEF PopupRecord
    <3> QED BY <2>3, <3>2, ResetTabIs DEF SettingsInv
  <2>4. Range(config'.order) = Range(Formats) /\ Len(config'.order) = Len(Formats)
    BY DEF SettingsInv, Sensible, Ranked
  <2>5. \A wider \in BOOLEAN : StepMeasure(wider) => config' = Stepped(config, wider)
    BY DEF StepMeasure, Edits
  <2>6. StepMeasure(TRUE) => Measure(config') >= Measure(config)
    BY <2>5, StepsHold DEF SettingsInv
  <2>7. StepMeasure(FALSE) => Measure(config') <= Measure(config)
    BY <2>5, StepsHold DEF SettingsInv
  <2> QED BY <2>1, <2>2, <2>3, <2>4, <2>6, <2>7
<1>2. PrefSpec => [][Step]_prefVars
  BY <1>1, SettingsInvariance, PTL DEF PrefSpec
<1> QED BY <1>2 DEF SettingsSound

----------------------------------------------------------------------------
(* A folder the reader was told to keep is never lost, whatever damages    *)
(* the file between two runs and whatever is edited in the popup.          *)
(*                                                                         *)
(* The property compares the folders with the configuration and the backup *)
(* of a damaged file.  By itself it says nothing of the file the next run  *)
(* loads, so the invariant adds that the file holds the folders in use     *)
(* unless it is gone (and then there are none), and that while nothing has *)
(* garbled it, or since the garbling no run has moved it aside, the ones   *)
(* in use are all there is.                                                *)

\* A file holds a configuration, readable or not.
IsFile(f) == {"is", "of"} \subseteq DOMAIN f /\ HasPaths(f.of)

\* Every folder wanted is in use, and no run has met a garbled file.
AllInUse == \A dir \in wanted : Has(config, dir)
Undamaged == prefFaults = 0 \/ "garbled" \notin Faults

\* The file lists the folders in use, but for one that is gone: there are none then.
FileKeeps ==
    /\ HasPaths(config) /\ IsFile(file) /\ IsFile(backup)
    /\ file.of.paths = config.paths
    /\ file.is \in {"good", "missing", "garbled"}
    /\ file.is = "missing" => config.paths = <<>>
    /\ file.is = "garbled" => ~ Undamaged
    /\ prefFaults \in Nat
\* A folder wanted and no longer in use is in the backup, and there is none such
\* before a run moves a garbled file aside.
Remembered ==
    /\ wanted \subseteq Typeable
    /\ \A dir \in wanted : Has(config, dir) \/ Has(backup.of, dir)
    /\ Undamaged \/ file.is = "garbled" => AllInUse
FolderInv == FileKeeps /\ Remembered

\* A file that cannot be read is not moved aside (the run of Terminal_damage.cfg
\* shows what is lost), and there is one backup: garbled twice, the first is gone.
OneDamage == "unreadable" \notin Faults /\ (MaxFaults <= 1 \/ "garbled" \notin Faults)

\* The first run is told of one folder, and its file holds it.
LEMMA FoldersInit == PrefInit => FolderInv
<1> SUFFICES ASSUME PrefInit PROVE FolderInv
  OBVIOUS
<1>1. PICK p \in Typeable : config = [Default EXCEPT !.paths = <<p>>] /\ wanted = {p}
  BY DEF PrefInit
<1>2. HasPaths(config) /\ config.paths = <<p>> /\ HasPaths(Default)
  BY <1>1 DEF HasPaths, Default
<1>3. IsFile(file) /\ IsFile(backup) /\ file.of = config /\ file.is = "good"
  BY <1>2 DEF PrefInit, IsFile, Missing
<1>4. Has(config, p)
  BY <1>2 DEF Has
<1> QED BY <1>1, <1>2, <1>3, <1>4
        DEF PrefInit, FolderInv, FileKeeps, Remembered, AllInUse, Undamaged

\* A save writes the folders in use and leaves the backup alone.
LEMMA SavedFile ==
    ASSUME NEW c, HasPaths(c), SaveAs(c)
    PROVE  IsFile(file') /\ file'.of.paths = c.paths /\ file'.is = "good" /\ backup' = backup
BY DEF SaveAs, IsFile, HasPaths

\* An edit of the options, saved or not.
LEMMA EditInv ==
    ASSUME FolderInv, SamePaths(config, config'), UNCHANGED <<wanted, prefFaults>>,
           UNCHANGED disk \/ SaveAs(config')
    PROVE  FolderInv'
<1>1. HasPaths(config') /\ config'.paths = config.paths
  BY DEF FolderInv, FileKeeps, SamePaths, HasPaths
<1>2. \A dir : Has(config, dir)' <=> Has(config, dir)
  BY <1>1 DEF Has
<1>3. \A dir \in wanted : Has(config', dir) <=> Has(config, dir)
  BY <1>1 DEF Has
<1>4. CASE UNCHANGED disk
  BY <1>1, <1>3, <1>4 DEF FolderInv, FileKeeps, Remembered, AllInUse, Undamaged, disk, Has
<1>5. CASE SaveAs(config')
  <2>1. IsFile(file') /\ file'.of.paths = config'.paths /\ file'.is = "good" /\ backup' = backup
    BY <1>1, <1>5, SavedFile
  <2> QED BY <1>1, <1>3, <2>1 DEF FolderInv, FileKeeps, Remembered, AllInUse, Undamaged, Has
<1> QED BY <1>4, <1>5

\* A folder typed in: nowhere, known already, or appended.
LEMMA CommitAddInv ==
    ASSUME FolderInv, NEW dir \in Typeable \cup {Nowhere}, CommitAdd(dir)
    PROVE  FolderInv'
<1> DEFINE known == \E i \in 1 .. Len(config.paths) : config.paths[i] = dir
           c == IF dir = Nowhere \/ known THEN config
                ELSE [config EXCEPT !.paths = Append(@, dir)]
<1>1. config' = c /\ (c = config => UNCHANGED disk) /\ (c # config => SaveAs(c))
  BY DEF CommitAdd
<1>2. wanted' = (IF dir = Nowhere THEN wanted ELSE wanted \cup {dir}) /\ prefFaults' = prefFaults
  BY DEF CommitAdd, InPopup, Stroke
<1>3. HasPaths(config) /\ Len(config.paths) \in Nat
  BY DEF FolderInv, FileKeeps, HasPaths
<1>4. CASE dir = Nowhere
  BY <1>1, <1>2, <1>3, <1>4, EditInv DEF SamePaths, HasPaths
<1>5. CASE dir # Nowhere /\ known
  <2>1. config' = config /\ UNCHANGED disk /\ Has(config, dir) /\ dir \in Typeable
    BY <1>1, <1>5 DEF Has
  <2> QED BY <1>2, <1>5, <2>1 DEF FolderInv, FileKeeps, Remembered, AllInUse, Undamaged, disk, Has
<1>6. CASE dir # Nowhere /\ ~ known
  <2>1. dir \in Typeable
    BY <1>6
  <2>2. c = [config EXCEPT !.paths = Append(config.paths, dir)]
    BY <1>6
  <2>3. c.paths = Append(config.paths, dir) /\ "paths" \in DOMAIN c
    BY <1>3, <2>2 DEF HasPaths
  <2>4. c.paths \in Seq(Typeable) /\ Len(c.paths) = Len(config.paths) + 1
        /\ (\A i \in 1 .. Len(config.paths) : c.paths[i] = config.paths[i])
        /\ c.paths[Len(config.paths) + 1] = dir
    BY <1>3, <2>1, <2>3 DEF HasPaths
  <2>5. Len(c.paths) # Len(config.paths)
    BY <1>3, <2>4
  <2>6. c # config
    BY <2>5
  <2> HIDE DEF c
  <2>7. HasPaths(c) /\ SaveAs(c) /\ config' = c
    BY <1>1, <2>3, <2>4, <2>6 DEF HasPaths
  <2>8. IsFile(file') /\ file'.of.paths = c.paths /\ file'.is = "good" /\ backup' = backup
    BY <2>7, SavedFile
  <2>9. Has(c, dir) /\ \A q : Has(config, q) => Has(c, q)
    BY <1>3, <2>4 DEF Has
  <2>10. FileKeeps'
    BY <1>2, <2>7, <2>8 DEF FolderInv, FileKeeps, Undamaged
  <2>11. Remembered'
    BY <1>2, <2>1, <2>7, <2>8, <2>9 DEF FolderInv, Remembered, AllInUse, Undamaged, Has
  <2> QED BY <2>10, <2>11 DEF FolderInv
<1> QED BY <1>4, <1>5, <1>6

\* A folder removed: the ones before and after it stay.
LEMMA DeleteFolderInv ==
    ASSUME FolderInv, DeleteFolder
    PROVE  FolderInv'
<1> DEFINE n == RowUnder(popup, config).n
           ps == config.paths
           qs == [i \in 1 .. (Len(ps) - 1) |-> IF i < n THEN ps[i] ELSE ps[i + 1]]
           c == [config EXCEPT !.paths = qs]
<1>1. n \in 1 .. Len(ps) /\ config' = c /\ SaveAs(c)
  BY DEF DeleteFolder
<1>2. wanted' = wanted \ {ps[n]} /\ prefFaults' = prefFaults
  BY DEF DeleteFolder, AtList, InPopup, Stroke
<1> HIDE DEF n
<1>3. ps \in Seq(Typeable) /\ Len(ps) \in Nat /\ "paths" \in DOMAIN config
  BY DEF FolderInv, FileKeeps, HasPaths
<1>4. c.paths = qs /\ "paths" \in DOMAIN c
  BY <1>3
<1>5. Len(ps) - 1 \in Nat
  BY <1>1, <1>3
<1>6. \A i \in 1 .. (Len(ps) - 1) : qs[i] \in Typeable
  <2> TAKE i \in 1 .. (Len(ps) - 1)
  <2>1. i \in 1 .. Len(ps) /\ i + 1 \in 1 .. Len(ps)
    BY <1>3
  <2> QED BY <1>3, <2>1
<1>7. qs \in Seq(Typeable) /\ Len(qs) = Len(ps) - 1
  <2> DEFINE k == Len(ps) - 1
  <2>1. qs \in [1 .. k -> Typeable] /\ k \in Nat
    BY <1>5, <1>6
  <2> HIDE DEF k, qs
  <2>2. qs \in Seq(Typeable) /\ Len(qs) = k
    BY <2>1
  <2> QED BY <2>2 DEF k
<1>8. \A q : Has(config, q) /\ q # ps[n] => Has(c, q)
  <2> SUFFICES ASSUME NEW q, Has(config, q), q # ps[n] PROVE Has(c, q)
    OBVIOUS
  <2>1. PICK i \in 1 .. Len(ps) : ps[i] = q
    BY DEF Has
  <2>2. i # n /\ i \in Nat /\ n \in Nat
    BY <1>1, <2>1
  <2>3. CASE i < n
    <3>1. i \in 1 .. (Len(ps) - 1)
      BY <1>1, <1>3, <2>1, <2>3
    <3> QED BY <1>4, <1>7, <2>1, <2>3, <3>1 DEF Has
  <2>4. CASE n < i
    <3>1. i - 1 \in 1 .. (Len(ps) - 1) /\ ~ (i - 1 < n) /\ (i - 1) + 1 = i
      BY <1>1, <1>3, <2>1, <2>4
    <3>2. qs[i - 1] = q
      BY <2>1, <3>1
    <3> QED BY <1>4, <1>7, <3>1, <3>2 DEF Has
  <2> QED BY <2>2, <2>3, <2>4
<1> HIDE DEF c, qs
<1>9. HasPaths(c)
  BY <1>4, <1>7 DEF HasPaths
<1>10. IsFile(file') /\ file'.of.paths = c.paths /\ file'.is = "good" /\ backup' = backup
  BY <1>1, <1>9, SavedFile
<1>11. FileKeeps'
  BY <1>1, <1>2, <1>9, <1>10 DEF FolderInv, FileKeeps, Undamaged
<1>12. Remembered'
  BY <1>1, <1>2, <1>8, <1>10 DEF FolderInv, Remembered, AllInUse, Undamaged, Has
<1> QED BY <1>11, <1>12 DEF FolderInv

\* The next run loads the file; one that does not parse becomes the backup first.
LEMMA RestartInv ==
    ASSUME FolderInv, OneDamage, Restart
    PROVE  FolderInv'
<1>1. config' = Loaded(file) /\ MovedAside /\ UNCHANGED <<wanted, prefFaults>>
  BY DEF Restart, AtPage, Stroke
<1>2. HasPaths(Default) /\ Default.paths = <<>>
  BY DEF HasPaths, Default
<1>3. CASE file.is = "good"
  <2>1. SamePaths(file.of, config')
    BY <1>1, <1>3 DEF Loaded, SamePaths, HasPaths, FolderInv, FileKeeps, IsFile
  <2>2. SamePaths(config, config') /\ UNCHANGED disk
    BY <1>1, <1>3, <2>1 DEF SamePaths, MovedAside, disk, FolderInv, FileKeeps
  <2> QED BY <1>1, <2>2, EditInv
<1>4. CASE file.is = "missing"
  <2>1. SamePaths(config, config') /\ UNCHANGED disk
    BY <1>1, <1>2, <1>4 DEF Loaded, SamePaths, HasPaths, MovedAside, disk, FolderInv, FileKeeps
  <2> QED BY <1>1, <2>1, EditInv
<1>5. CASE file.is = "garbled"
  <2>1. config' = Default /\ file' = Missing /\ backup' = file
    BY <1>1, <1>5 DEF Loaded, MovedAside
  <2>2. IsFile(file') /\ file'.of = Default /\ file'.is = "missing"
    BY <1>2, <2>1 DEF IsFile, Missing
  <2>3. FileKeeps'
    BY <1>1, <1>2, <2>1, <2>2 DEF FolderInv, FileKeeps, Undamaged
  <2>4. \A dir \in wanted : Has(config, dir) /\ file.of.paths = config.paths
    BY <1>5 DEF FolderInv, FileKeeps, Remembered, AllInUse
  <2>5. \A dir \in wanted : Has(backup'.of, dir)
    BY <2>1, <2>4 DEF Has
  <2>6. ~ Undamaged' /\ file'.is # "garbled"
    BY <1>1, <1>5, <2>2 DEF FolderInv, FileKeeps, Undamaged
  <2>7. Remembered'
    BY <1>1, <2>5, <2>6 DEF FolderInv, Remembered
  <2> QED BY <2>3, <2>7 DEF FolderInv
<1> QED BY <1>3, <1>4, <1>5 DEF FolderInv, FileKeeps

\* What befalls the file between two runs.
LEMMA SuffersInv ==
    ASSUME FolderInv, OneDamage, NEW fault \in Faults, Suffers(fault)
    PROVE  FolderInv'
<1>1. UNCHANGED <<config, backup, wanted>> /\ prefFaults' = prefFaults + 1 /\ prefFaults < MaxFaults
      /\ file.is = "good"
  BY DEF Suffers
<1>2. prefFaults \in Nat /\ MaxFaults \in Nat /\ prefFaults' \in Nat /\ prefFaults' # 0
  BY <1>1, SettingsAssumption DEF FolderInv, FileKeeps
<1>3. fault \in {"edited", "garbled"}
  BY SettingsAssumption DEF OneDamage
<1>4. \/ "garbled" \notin Faults
      \/ prefFaults = 0
  BY <1>1, <1>2 DEF OneDamage
<1>5. Undamaged /\ AllInUse
  BY <1>4 DEF Undamaged, FolderInv, Remembered
<1>6. CASE fault = "edited"
  <2>1. file' = [file EXCEPT !.of.margin = MaxMargin + 1, !.of.cap = MinCap - 1,
                                 !.of.order = <<Formats[2], "unknown", Formats[2]>>]
    BY <1>6 DEF Suffers
  <2>2. IsFile(file) /\ HasPaths(file.of)
    BY DEF FolderInv, FileKeeps, IsFile
  <2>3. {"is", "of"} \subseteq DOMAIN file' /\ file'.is = "good"
    BY <1>1, <2>1, <2>2 DEF IsFile
  <2>4. file'.of.paths = file.of.paths /\ "paths" \in DOMAIN file'.of
    BY <2>1, <2>2 DEF IsFile, HasPaths
  <2>5. IsFile(file')
    BY <2>2, <2>3, <2>4 DEF IsFile, HasPaths
  <2> QED BY <1>1, <1>2, <1>5, <2>3, <2>4, <2>5
          DEF FolderInv, FileKeeps, Remembered, AllInUse, Undamaged
<1>7. CASE fault = "garbled"
  <2>1. file' = [file EXCEPT !.is = "garbled"]
    BY <1>7 DEF Suffers
  <2>2. IsFile(file') /\ file'.of = file.of /\ file'.is = "garbled"
    BY <2>1 DEF FolderInv, FileKeeps, IsFile
  <2>3. ~ Undamaged'
    BY <1>2, <1>7 DEF Undamaged
  <2>4. FileKeeps'
    BY <1>1, <1>2, <2>2, <2>3 DEF FolderInv, FileKeeps
  <2>5. Remembered'
    BY <1>1, <1>5 DEF FolderInv, Remembered, AllInUse
  <2> QED BY <2>4, <2>5 DEF FolderInv
<1> QED BY <1>3, <1>6, <1>7

\* What looks at the popup or the page and edits nothing.
LEMMA RestInv ==
    ASSUME FolderInv, UNCHANGED <<config, disk, wanted, prefFaults>>
    PROVE  FolderInv'
BY DEF FolderInv, FileKeeps, Remembered, AllInUse, Undamaged, disk

\* Every step of the configuration keeps the invariant.
LEMMA PrefStep ==
    ASSUME SettingsInv, FolderInv, OneDamage, [PrefNext]_prefVars
    PROVE  FolderInv'
<1> USE DEF AtPage, InPopup, AtList, Stroke
<1>1. HasPaths(config)
  BY DEF FolderInv, FileKeeps
<1>2. ASSUME NEW s \in Scopes, Open(s) PROVE FolderInv'
  BY <1>2, RestInv DEF Open, Displays
<1>3. CASE CloseSettings
  <2>1. SamePaths(config, config') /\ SaveAs(config') /\ UNCHANGED <<wanted, prefFaults>>
    BY <1>1, <1>3 DEF CloseSettings, SamePaths, HasPaths
  <2> QED BY <2>1, EditInv
<1>4. CASE BeginFilter \/ CommitFilter \/ DropFilter
  BY <1>4, RestInv DEF BeginFilter, CommitFilter, DropFilter, Refiltered, Displays
<1>5. ASSUME NEW d \in {-5, -1, 1, 5}, Move(d) PROVE FolderInv'
  BY <1>5, RestInv DEF Move, Displays
<1>6. ASSUME NEW t, GotoTab(t) PROVE FolderInv'
  BY <1>6, RestInv DEF GotoTab, Displays
<1>7. ASSUME NEW q, TypeFilter(q) PROVE FolderInv'
  BY <1>7, RestInv DEF TypeFilter, Refiltered, Displays
<1>8. ASSUME NEW d \in {-1, 1}, Change(d) PROVE FolderInv'
  <2>1. SamePaths(config, config')
    BY <1>1, <1>8, ChangedPaths DEF Change, Edits
  <2> QED BY <1>8, <2>1, EditInv DEF Change, Edits
<1>9. CASE BeginAdd \/ CancelAdd \/ FindFolders
  BY <1>9, RestInv DEF BeginAdd, CancelAdd, FindFolders, Displays
<1>10. CASE ResetFocused
  <2>1. SamePaths(config, config')
    BY <1>1, <1>10, ResetPaths DEF ResetFocused, Edits
  <2> QED BY <1>10, <2>1, EditInv DEF ResetFocused, Edits
<1>11. CASE ResetTab
  <2>3. popup.scope \in Scopes
    <3>1. popup # NoSettings
      BY <1>11 DEF ResetTab
    <3> QED BY <3>1, PopupIs DEF PopupRecord
  <2>1. SamePaths(config, config')
    BY <1>11, <2>3, ResetTabIs, SensiblePaths DEF SettingsInv, HasPaths, SamePaths
  <2>2. SaveAs(config') /\ UNCHANGED <<wanted, prefFaults>>
    BY <1>11 DEF ResetTab, Edits
  <2> QED BY <2>1, <2>2, EditInv
<1>12. ASSUME NEW wider \in BOOLEAN, StepMeasure(wider) PROVE FolderInv'
  <2>1. SamePaths(config, config')
    BY <1>1, <1>12, SteppedPaths DEF StepMeasure, Edits
  <2> QED BY <1>12, <2>1, EditInv DEF StepMeasure, Edits
<1>13. CASE CycleReadingMode
  <2>1. SamePaths(config, config')
    BY <1>1, <1>13 DEF CycleReadingMode, Edits, WithMode, SamePaths, HasPaths
  <2> QED BY <1>13, <2>1, EditInv DEF CycleReadingMode, Edits
<1>14. CASE ToggleFocus
  <2>1. SamePaths(config, config')
    BY <1>1, <1>14 DEF ToggleFocus, Edits, SamePaths, HasPaths
  <2> QED BY <1>14, <2>1, EditInv DEF ToggleFocus, Edits
<1>15. CASE CycleTheme
  <2>1. SamePaths(config, config')
    BY <1>1, <1>15 DEF CycleTheme, Edits, SamePaths, HasPaths
  <2> QED BY <1>15, <2>1, EditInv DEF CycleTheme, Edits
<1>16. CASE DrawPage
  BY <1>16, RestInv DEF DrawPage
<1>17. CASE UNCHANGED prefVars
  BY <1>17, RestInv DEF prefVars
<1> QED BY <1>2, <1>3, <1>4, <1>5, <1>6, <1>7, <1>8, <1>9, <1>10, <1>11, <1>12, <1>13, <1>14,
           <1>15, <1>16, <1>17, CommitAddInv, DeleteFolderInv, RestartInv, SuffersInv, Zenon DEF PrefNext

\* The configuration's file keeps the folders through every edit, damage and run.
THEOREM FoldersInvariance ==
    ASSUME OneDamage
    PROVE  PrefSpec => []FolderInv
<1>1. SettingsInv /\ FolderInv /\ [PrefNext]_prefVars => FolderInv'
  BY PrefStep
<1> QED BY FoldersInit, SettingsInvariance, <1>1, PTL DEF PrefSpec

\* FoldersSurvive: a folder added and not removed is in use, or in the backup that a
\* garbled file was moved to.
THEOREM NoFolderLost ==
    ASSUME OneDamage
    PROVE  PrefSpec => []FoldersSurvive
<1>1. FolderInv => FoldersSurvive
  BY DEF FolderInv, Remembered, FoldersSurvive
<1> QED BY <1>1, FoldersInvariance, PTL
----------------------------------------------------------------------------
(* The contents pane goes where the reader sends it, over any outline, any *)
(* filter and any heights.                                                 *)
(*                                                                         *)
(* What a click opens depends on the frame before it: the invariant says   *)
(* that the rows that frame drew are still the rows of the window.  Every  *)
(* input that could change them forgets the drawing, so that a click must  *)
(* wait for the next frame, which draws them anew.                         *)

\* The rows are the entries of a set in their order: each once, and no others.
LEMMA RowsAre ==
    ASSUME NEW n \in Nat, NEW S \in SUBSET (1 .. n)
    PROVE  LET rows == RowsInOrder(S)
           IN  /\ Len(rows) \in 0 .. n
               /\ \A k \in 1 .. Len(rows) : rows[k] \in S
               /\ \A i \in S : \E k \in 1 .. Len(rows) : rows[k] = i
               /\ Len(rows) = 0 => rows = <<>>
<1> DEFINE s == [i \in 1 .. n |-> i]
           rows == RowsInOrder(S)
           m == Cardinality(S)
           rank(i) == Cardinality({j \in S : j <= i})
<1>1. s \in Seq(Nat) /\ Len(s) = n
  OBVIOUS
<1>2. PositionsIn(s, S) = S
  BY <1>1 DEF PositionsIn
<1>3. \A i : RankIn(s, S, i) = rank(i)
  BY <1>2 DEF RankIn
<1>4. /\ m \in Nat /\ m <= n
      /\ \A i \in S : rank(i) \in 1 .. m
      /\ \A k \in 1 .. m : \E i \in S : rank(i) = k
      /\ \A i, j \in S : rank(i) = rank(j) => i = j
  <2>1. LET at == PositionsIn(s, S)
            k == Cardinality(at)
        IN  /\ k \in Nat /\ k <= Len(s) /\ IsFiniteSet(at)
            /\ \A i \in at : RankIn(s, S, i) \in 1 .. k
            /\ \A i, j \in at : RankIn(s, S, i) = RankIn(s, S, j) => i = j
            /\ \A r \in 1 .. k : \E i \in at : RankIn(s, S, i) = r
    BY <1>1, RanksArePositions
  <2>2. Cardinality(PositionsIn(s, S)) = m
    BY <1>2
  <2> HIDE DEF s, rank, m
  <2>3. m \in Nat /\ m <= n /\ \A i \in S : rank(i) \in 1 .. m
    BY <1>1, <1>2, <1>3, <2>1, <2>2
  <2>4. \A k \in 1 .. m : \E i \in S : rank(i) = k
    BY <1>2, <1>3, <2>1, <2>2
  <2>5. \A i, j \in S : rank(i) = rank(j) => i = j
    BY <1>2, <1>3, <2>1
  <2> QED BY <2>3, <2>4, <2>5
<1>5. rows = [k \in 1 .. m |-> CHOOSE i \in S : rank(i) = k]
  BY DEF RowsInOrder
<1> HIDE DEF rank
<1>6. Len(rows) = m
  BY <1>4, <1>5
<1>7. \A k \in 1 .. m : rows[k] \in S /\ rank(rows[k]) = k
  BY <1>4, <1>5
<1>8. \A i \in S : \E k \in 1 .. m : rows[k] = i
  <2> TAKE i \in S
  <2>1. rank(i) \in 1 .. m
    BY <1>4
  <2>2. rows[rank(i)] = i
    BY <1>4, <1>7, <2>1
  <2> QED BY <2>1, <2>2
<1>9. m \in 0 .. n
  BY <1>4
<1>10. Len(rows) = 0 => rows = <<>>
  BY <1>5, <1>6
<1> HIDE DEF rows, m
<1> QED BY <1>6, <1>7, <1>8, <1>9, <1>10 DEF rows

\* Whatever the filter and the folds, the rows are entries.
LEMMA VisibleAre ==
    ASSUME NEW filter, NEW folds
    PROVE  LET rows == VisibleUnder(filter, folds)
           IN  /\ Len(rows) \in 0 .. Len(Outline)
               /\ \A k \in 1 .. Len(rows) : rows[k] \in Entries
               /\ filter \in {NoFilter, Empty} =>
                      \A e \in Unfolded(folds) : \E k \in 1 .. Len(rows) : rows[k] = e
               /\ Len(rows) = 0 => rows = <<>>
<1> DEFINE S == IF filter \in {NoFilter, Empty} THEN Unfolded(folds) ELSE Matching(filter)
<1>1. S \in SUBSET (1 .. Len(Outline)) /\ Entries = 1 .. Len(Outline) /\ Len(Outline) \in Nat
  BY ContentsAssumption DEF Entries, Unfolded, Matching
<1>2. VisibleUnder(filter, folds) = RowsInOrder(S)
  BY DEF VisibleUnder
<1>3. LET rows == RowsInOrder(S)
      IN  /\ Len(rows) \in 0 .. Len(Outline)
          /\ \A k \in 1 .. Len(rows) : rows[k] \in S
          /\ \A i \in S : \E k \in 1 .. Len(rows) : rows[k] = i
          /\ Len(rows) = 0 => rows = <<>>
  BY <1>1, RowsAre
<1> QED BY <1>1, <1>2, <1>3

\* The row of an entry, where there is one.
LEMMA RowOfIs ==
    ASSUME NEW entry, NEW rows, Len(rows) \in Nat
    PROVE  /\ RowOf(entry, rows) \in 0 .. Len(rows)
           /\ RowOf(entry, rows) # NoRow => rows[RowOf(entry, rows)] = entry
           /\ (\E k \in 1 .. Len(rows) : rows[k] = entry) => RowOf(entry, rows) # NoRow
BY DEF RowOf, NoRow

\* Centred, a row is in the window, which stays on the rows.
LEMMA CentredIs ==
    ASSUME NEW rows, Len(rows) \in Nat, NEW row \in Nat \ {0}, sidebarH \in Nat \ {0}
    PROVE  /\ CenteredOn(row, rows) \in 0 .. Len(rows)
           /\ row <= Len(rows) => InWindow(row, CenteredOn(row, rows), sidebarH)
<1> DEFINE half == sidebarH \div 2
           n == Len(rows)
<1>1. half \in Nat /\ half + 1 <= sidebarH
  OBVIOUS
<1>2. CenteredOn(row, rows) = Least(Most(row - 1 - half, 0), Most(n - sidebarH, 0))
  BY DEF CenteredOn
<1> HIDE DEF half, n
<1>3. n \in Nat
  BY DEF n
<1>4. CenteredOn(row, rows) \in 0 .. n
  BY <1>1, <1>2, <1>3 DEF Least, Most
<1>5. row <= n => CenteredOn(row, rows) + 1 <= row /\ row <= CenteredOn(row, rows) + sidebarH
  BY <1>1, <1>2, <1>3 DEF Least, Most
<1> QED BY <1>3, <1>4, <1>5 DEF InWindow, n

\* What the last frame drew is still what is there, row by row.
DrawnStays ==
    \A i \in 1 .. Len(drawnRows) :
        sidebarOffset + i <= Len(Visible) /\ drawnRows[i] = Visible[sidebarOffset + i]

\* The invariant of the pane.
TocInv ==
    /\ TocTypeOK
    /\ paneH \in Heights
    /\ Len(drawnRows) \in Nat
    /\ DrawnStays

\* The outline is not empty, and a window has at least a row.
LEMMA Bounds ==
    /\ Len(Outline) \in Nat \ {0} /\ Entries = 1 .. Len(Outline) /\ 1 \in Entries
    /\ \A h \in Heights : h \in Nat \ {0}
BY ContentsAssumption DEF Entries

\* Nothing is drawn at first, and the pane starts on an entry.
LEMMA TocInitInv == TocInit => TocInv
<1> SUFFICES ASSUME TocInit PROVE TocInv
  OBVIOUS
<1>1. TocTypeOK
  BY Bounds DEF TocInit, TocTypeOK
<1> QED BY <1>1 DEF TocInit, TocInv, DrawnStays

\* An input leaves no rows drawn to speak of.
LEMMA Redraw ==
    ASSUME drawnRows' = <<>>, TocTypeOK', paneH' \in Heights
    PROVE  TocInv'
BY DEF TocInv, DrawnStays

\* The cursor and the window after a step of `MoveTo`, over any rows.
LEMMA MovedIs ==
    ASSUME TocInv, NEW row \in Int, NEW filter, NEW folds, MoveTo(row, VisibleUnder(filter, folds))
    PROVE  /\ sidebarSel' \in Entries /\ sidebarOffset' \in 0 .. Len(Outline)
           /\ VisibleUnder(filter, folds) # <<>> => InWindow(sidebarSel', sidebarOffset', sidebarH)
<1> DEFINE rows == VisibleUnder(filter, folds)
<1>1. Len(rows) \in 0 .. Len(Outline) /\ Len(Outline) \in Nat /\ (Len(rows) = 0 => rows = <<>>)
  BY VisibleAre, Bounds
<1>2. sidebarH \in Nat \ {0} /\ sidebarSel \in Entries /\ sidebarOffset \in 0 .. Len(Outline)
  BY Bounds DEF TocInv, TocTypeOK
<1> HIDE DEF rows
<1>3. CASE rows = <<>>
  BY <1>2, <1>3 DEF MoveTo, rows
<1>4. CASE rows # <<>>
  <2>1. sidebarSel' = Between(row, 1, Len(rows)) /\ sidebarOffset' = CenteredOn(sidebarSel', rows)
    BY <1>4 DEF MoveTo, rows
  <2>2. sidebarSel' \in 1 .. Len(rows)
    BY <1>1, <1>4, <2>1 DEF Between, Most, Least
  <2>3. sidebarSel' \in Nat \ {0} /\ Len(rows) \in Nat /\ sidebarSel' <= Len(rows)
    BY <1>1, <2>2
  <2>4. sidebarOffset' \in 0 .. Len(rows) /\ InWindow(sidebarSel', sidebarOffset', sidebarH)
    BY <1>2, <2>1, <2>3, CentredIs
  <2> QED BY <1>1, <2>2, <2>4, Bounds DEF rows
<1> QED BY <1>3, <1>4

\* What the invariant says of the pane, and of the rows of any filter.
LEMMA Here ==
    ASSUME TocInv
    PROVE  /\ sidebarSel \in Entries /\ sidebarOffset \in 0 .. Len(Outline) /\ collapsed \subseteq Entries
           /\ sidebarFilter \in Typed \cup {NoFilter, Empty} /\ sidebarH \in Heights /\ paneH \in Heights
           /\ sidebarH \in Nat \ {0} /\ paneH \in Nat \ {0}
           /\ Len(Visible) \in 0 .. Len(Outline) /\ Len(Visible) \in Nat
           /\ \A k \in 1 .. Len(Visible) : Visible[k] \in Entries
<1>1. Len(Visible) \in 0 .. Len(Outline) /\ \A k \in 1 .. Len(Visible) : Visible[k] \in Entries
  BY VisibleAre DEF Visible
<1> QED BY <1>1, Bounds DEF TocInv, TocTypeOK

\* Moves of the cursor by a key or the filter.
LEMMA StepsInv ==
    ASSUME TocInv, NEW d \in Int, Steps(d)
    PROVE  TocInv'
<1>1. sidebarSel' \in Entries /\ sidebarOffset' \in 0 .. Len(Outline)
  <2>1. sidebarSel + d \in Int /\ MoveTo(sidebarSel + d, VisibleUnder(sidebarFilter, collapsed))
    BY Here, Bounds DEF Steps, Visible
  <2> QED BY <2>1, MovedIs
<1>2. TocTypeOK' /\ paneH' \in Heights /\ drawnRows' = <<>>
  BY <1>1, Here DEF Steps, Input, TocTypeOK
<1> QED BY <1>2, Redraw

\* A letter typed in the filter puts the cursor back on one of its rows.
LEMMA TypeInv ==
    ASSUME TocInv, NEW q \in Typed \cup {Empty}, Type(q)
    PROVE  TocInv'
<1>1. sidebarSel' \in Entries /\ sidebarOffset' \in 0 .. Len(Outline)
  <2>1. sidebarSel \in Int /\ MoveTo(sidebarSel, VisibleUnder(q, collapsed))
    BY Here, Bounds DEF Type
  <2> QED BY <2>1, MovedIs
<1>2. TocTypeOK' /\ paneH' \in Heights /\ drawnRows' = <<>>
  BY <1>1, Here DEF Type, Key, Input, TocTypeOK
<1> QED BY <1>2, Redraw

\* Taking the focus puts the cursor on what is read, giving it up leaves the pane alone.
LEMMA FocusInv ==
    ASSUME TocInv, FocusToggle
    PROVE  TocInv'
<1>1. sidebarSel' \in Entries /\ sidebarOffset' \in 0 .. Len(Outline)
  <2>1. CASE inSidebar
    BY <2>1, Here DEF FocusToggle
  <2>2. CASE ~ inSidebar
    <3>1. ActiveRow(reading, Visible) \in 0 .. Len(Visible)
      BY Here, RowOfIs DEF ActiveRow
    <3>2. sidebarSel' = Most(ActiveRow(reading, Visible), 1)
          /\ sidebarOffset' = CenteredOn(sidebarSel', Visible)
      BY <2>2 DEF FocusToggle
    <3>3. sidebarSel' \in Nat \ {0} /\ sidebarSel' <= Len(Outline)
      BY <3>1, <3>2, Here, Bounds DEF Most
    <3>4. sidebarOffset' \in 0 .. Len(Visible)
      BY <3>2, <3>3, Here, CentredIs
    <3> QED BY <3>3, <3>4, Here, Bounds
  <2> QED BY <2>1, <2>2
<1>2. TocTypeOK' /\ paneH' \in Heights /\ drawnRows' = <<>>
  BY <1>1, Here DEF FocusToggle, Key, Input, TocTypeOK
<1> QED BY <1>2, Redraw

\* The keys that fold and unfold, or go to the parent.
LEMMA FoldInv ==
    ASSUME TocInv, Expand \/ Collapse
    PROVE  TocInv'
<1>1. Selected # NoRow => Selected \in Entries
  BY Here DEF Selected, SelectedIn
<1>2. CASE Expand
  <2>1. TocTypeOK' /\ paneH' \in Heights /\ drawnRows' = <<>>
    BY <1>1, <1>2, Here DEF Expand, Key, Input, TocTypeOK, tocPane
  <2> QED BY <2>1, Redraw
<1>3. CASE Collapse
  <2>1. RowOf(ParentOf(Selected), Visible) \in 0 .. Len(Visible)
    BY Here, RowOfIs
  <2>2. sidebarSel' \in Entries /\ collapsed' \subseteq Entries
    <3>1. \/ sidebarSel' = sidebarSel
          \/ sidebarSel' = RowOf(ParentOf(Selected), Visible) /\ sidebarSel' # NoRow
      BY <1>3 DEF Collapse
    <3>2. sidebarSel' \in Entries
      BY <2>1, <3>1, Here, Bounds DEF NoRow
    <3> QED BY <1>1, <1>3, <3>2, Here DEF Collapse
  <2>3. TocTypeOK' /\ paneH' \in Heights /\ drawnRows' = <<>>
    BY <1>3, <2>2, Here DEF Collapse, Key, Input, TocTypeOK
  <2> QED BY <2>3, Redraw
<1> QED BY <1>2, <1>3

\* Where leaving the filter puts the cursor and the window.
LEMMA ClearInv ==
    ASSUME TocInv, ClearFilter, Input
    PROVE  TocInv'
<1> DEFINE rows == VisibleUnder(NoFilter, collapsed)
<1>1. Len(rows) \in 0 .. Len(Outline) /\ Len(rows) \in Nat
  BY VisibleAre, Bounds
<1>2. sidebarSel' = LandedRow(Selected, rows) /\ sidebarOffset' = CenteredOn(sidebarSel', rows)
  BY DEF ClearFilter
<1> HIDE DEF rows
<1>3. RowOf(Selected, rows) \in 0 .. Len(rows)
  BY <1>1, RowOfIs
<1>4. sidebarSel' \in Entries
  BY <1>1, <1>2, <1>3, Here, Bounds DEF LandedRow, NoRow
<1>5. sidebarSel' \in Nat \ {0}
  BY <1>4, Bounds
<1>6. sidebarOffset' \in 0 .. Len(Outline)
  BY <1>1, <1>2, <1>5, Here, Bounds, CentredIs
<1>7. TocTypeOK' /\ paneH' \in Heights /\ drawnRows' = <<>>
  BY <1>4, <1>6, Here DEF ClearFilter, Input, TocTypeOK
<1> QED BY <1>7, Redraw

\* The mouse, and what only moves the window or the page.
LEMMA WheelInv ==
    ASSUME TocInv, NEW d \in Int, Wheel(d)
    PROVE  TocInv'
<1>1. sidebarOffset' \in 0 .. Len(Outline)
  BY Here, Bounds DEF Wheel, Between, Most, Least
<1>2. TocTypeOK' /\ paneH' \in Heights /\ drawnRows' = <<>>
  BY <1>1, Here DEF Wheel, Input, TocTypeOK
<1> QED BY <1>2, Redraw

\* A click puts the cursor on the row under it.
LEMMA ClickInv ==
    ASSUME TocInv, NEW line \in Entries, Click(line)
    PROVE  TocInv'
<1>1. sidebarSel' \in Entries
  BY Here, Bounds DEF Click
<1>2. TocTypeOK' /\ paneH' \in Heights /\ drawnRows' = <<>>
  BY <1>1, Here DEF Click, Input, TocTypeOK
<1> QED BY <1>2, Redraw

\* What moves no row: the ends, opening an entry or the filter, a resize, reading on.
LEMMA QuietInv ==
    ASSUME TocInv,
           \/ \E row \in Entries : Ends(row)
           \/ Activate \/ StartFilter
           \/ \E h \in Heights : ResizePane(h)
           \/ \E e \in Entries : ReadOn(Outline[e].section)
    PROVE  TocInv'
<1>1. TocTypeOK' /\ paneH' \in Heights /\ drawnRows' = <<>>
  BY Here, Bounds
  DEF Ends, Activate, StartFilter, ResizePane, ReadOn, Key, Input, TocTypeOK, tocPane
<1> QED BY <1>1, Redraw

\* A frame: the window follows what is read, stays on the rows, and is drawn.
LEMMA DrawPaneInv ==
    ASSUME TocInv, DrawPane
    PROVE  /\ TocInv'
           /\ LET a == ActiveRow(reading, Visible)
              IN  (~ inSidebar /\ a \notin {lastActive, NoRow}) =>
                      InWindow(a, sidebarOffset', sidebarH')
<1> DEFINE a == ActiveRow(reading, Visible)
           follows == ~ inSidebar /\ a # lastActive
           top == IF follows /\ a # NoRow THEN Followed(a) ELSE sidebarOffset
<1>0. PICK n \in Nat : n = Len(Visible)
  BY Here
<1> DEFINE shown == Least(paneH, n - sidebarOffset')
<1>1. /\ sidebarH' = paneH /\ sidebarOffset' = Least(top, Most(n - paneH, 0))
      /\ drawnRows' = [i \in 1 .. shown |-> Visible[sidebarOffset' + i]]
      /\ UNCHANGED <<sidebarSel, paneH, collapsed, sidebarFilter>>
  BY <1>0 DEF DrawPane
<1>2. a \in 0 .. n
  BY <1>0, Here, RowOfIs DEF ActiveRow
<1>3. n \in Nat /\ n <= Len(Outline) /\ sidebarOffset \in Nat /\ paneH \in Nat \ {0}
      /\ Len(Outline) \in Nat
  BY <1>0, Here, Bounds
<1> HIDE DEF a
<1>4. top \in Nat /\ (~ inSidebar /\ a \notin {lastActive, NoRow} => top + 1 <= a /\ a <= top + paneH)
  BY <1>2, <1>3 DEF Followed, NoRow
<1> HIDE DEF top
<1>5. sidebarOffset' \in 0 .. n
  BY <1>1, <1>3, <1>4 DEF Least, Most
<1>6. ~ inSidebar /\ a \notin {lastActive, NoRow} => InWindow(a, sidebarOffset', sidebarH')
  BY <1>1, <1>2, <1>3, <1>4 DEF Least, Most, InWindow
<1>7. shown \in Nat /\ sidebarOffset' + shown <= n
  <2>1. PICK m \in 0 .. n : m = sidebarOffset'
    BY <1>5
  <2>2. shown = Least(paneH, n - m)
    BY <2>1, Zenon
  <2>3. n - m \in Nat
    OBVIOUS
  <2>4. shown \in Nat /\ m + shown <= n
    BY <1>3, <2>2, <2>3 DEF Least
  <2> QED BY <2>1, <2>4
<1> HIDE DEF shown
<1>8. Visible' = Visible
  BY <1>1 DEF Visible, VisibleUnder, Unfolded, Matching
<1>9. Len(drawnRows') = shown
  BY <1>1, <1>7
<1>10. DrawnStays'
  <2> SUFFICES ASSUME NEW i \in 1 .. shown
               PROVE  sidebarOffset' + i <= n /\ drawnRows'[i] = Visible[sidebarOffset' + i]
    BY <1>0, <1>8, <1>9 DEF DrawnStays
  <2> QED BY <1>1, <1>3, <1>5, <1>7
<1>11. TocTypeOK'
  BY <1>1, <1>3, <1>5, Here DEF TocTypeOK
<1> QED BY <1>1, <1>6, <1>7, <1>9, <1>10, <1>11, Here DEF TocInv, a

\* Every step of the pane keeps the invariant.
LEMMA TocStep ==
    ASSUME TocInv, [TocNext]_tocVars
    PROVE  TocInv'
<1>1. \A d \in {-2, -1, 1, 2, -3, 3} : d \in Int
  OBVIOUS
<1>2. LeaveFilter \/ TabFromFilter \/ EnterFromFilter => ClearFilter /\ Input
  BY DEF LeaveFilter, TabFromFilter, EnterFromFilter, Key
<1>3. CASE UNCHANGED tocVars
  BY <1>3 DEF tocVars, tocPane, TocInv, TocTypeOK, DrawnStays, Visible, VisibleUnder, Unfolded, Matching
<1>4. CASE TocNext
  BY <1>1, <1>2, <1>4, StepsInv, TypeInv, FocusInv, FoldInv, ClearInv, WheelInv, ClickInv, QuietInv,
     DrawPaneInv DEF TocNext
<1> QED BY <1>3, <1>4

\* The cursor is on an entry, the window on the rows of the pane, and the last
\* frame drew the rows of that window: whatever is folded, filtered or resized.
THEOREM PaneInvariance == TocSpec => []TocInv
BY TocInitInv, TocStep, PTL DEF TocSpec

\* A click lands on the entry the reader saw under the pointer.
LEMMA ClickGoesWhereDrawn ==
    ASSUME TocInv, NEW line \in 1 .. Len(drawnRows), Click(line)
    PROVE  Visible'[sidebarSel'] = drawnRows[line]
<1>1. Visible' = Visible /\ sidebarSel' = sidebarOffset + line
  BY DEF Click, Visible, VisibleUnder, Unfolded, Matching
<1> QED BY <1>1 DEF TocInv, DrawnStays

\* Leaving the filter keeps the entry that was selected, where no fold hides it.
LEMMA FilterLeavesOnEntry ==
    ASSUME TocInv, LeaveFilter, Selected \in Unfolded(collapsed)
    PROVE  Visible'[sidebarSel'] = Selected
<1> DEFINE rows == VisibleUnder(NoFilter, collapsed)
<1>1. Visible' = rows /\ sidebarSel' = LandedRow(Selected, rows)
  BY DEF LeaveFilter, ClearFilter, Visible, VisibleUnder, Unfolded, Matching
<1>2. Len(rows) \in Nat /\ \E k \in 1 .. Len(rows) : rows[k] = Selected
  BY VisibleAre, Bounds
<1>3. Selected # NoRow
  BY Bounds DEF Unfolded, NoRow
<1> HIDE DEF rows
<1>4. RowOf(Selected, rows) # NoRow /\ rows[RowOf(Selected, rows)] = Selected
  BY <1>2, RowOfIs
<1> QED BY <1>1, <1>3, <1>4 DEF LandedRow

\* A row up or down keeps the cursor in the window.
LEMMA StepStaysInWindow ==
    ASSUME TocInv, NEW d \in {-1, 1}, Steps(d), Visible # <<>>
    PROVE  InWindow(sidebarSel', sidebarOffset', sidebarH)
<1>1. sidebarSel + d \in Int /\ MoveTo(sidebarSel + d, VisibleUnder(sidebarFilter, collapsed))
  BY Here, Bounds DEF Steps, Visible
<1> QED BY <1>1, MovedIs DEF Visible

\* The pane goes where it is sent: a click opens what was drawn under it, the filter
\* leaves the cursor on its entry, a step keeps it in sight, and a frame shows what
\* is read while the text has the focus.
THEOREM ThePaneFollows == TocSpec => PaneFollows
<1>1. TocInv /\ [TocNext]_tocVars =>
        [/\ \A line \in 1..Len(drawnRows) : Click(line) =>
             Visible'[sidebarSel'] = drawnRows[line]
         /\ (LeaveFilter /\ Selected \in Unfolded(collapsed)) => Visible'[sidebarSel'] = Selected
         /\ \A d \in {-1, 1} : (Steps(d) /\ Visible # <<>>) =>
             InWindow(sidebarSel', sidebarOffset', sidebarH)
         /\ LET a == ActiveRow(reading, Visible) IN
             (DrawPane /\ ~inSidebar /\ a \notin {lastActive, NoRow}) =>
                InWindow(a, sidebarOffset', sidebarH')]_tocVars
  BY ClickGoesWhereDrawn, FilterLeavesOnEntry, StepStaysInWindow, DrawPaneInv
<1> QED BY <1>1, PaneInvariance, PTL DEF PaneFollows, TocSpec

----------------------------------------------------------------------------
(* The popups give back what they took: a prompt ends on the mark it was   *)
(* about, the resolver parked under a preview comes back when the reader   *)
(* is left, and a text being typed is never taken for commands.            *)
(*                                                                         *)
(* `Popped` is the inductive invariant: each key handler is shown to keep  *)
(* it, one lemma each, by the helpers that open, close and ask.  The list  *)
(* of marks is the hard part of it: its cursor must be on a row of a list  *)
(* that the handlers, the filter and the tabs shrink.                      *)

\* The popups that are a field of text: they have no other state than their text.
Fields == {"prompt", "rename", "shelf", "tags", "palette"}

\* The parts of a popup, and no others.
Whole(p) ==
    p = [is |-> p.is, typing |-> p.typing, draft |-> p.draft, sel |-> p.sel, tab |-> p.tab, id |-> p.id,
         word |-> p.word, got |-> p.got, ticked |-> p.ticked]

\* A popup that may be open: it types only in a field it has, and is bare when closed.
GoodPopup(p) ==
    /\ Whole(p)
    /\ p.is \in Windows \cup Fields \cup {"none"}
    /\ p.is = "none" => p = NoPopup
    /\ p.typing \in {"no", "field", "filter"} /\ p.draft \in Nat
    /\ p.typing = "field" => p.is \in Fields \cup {"picker", "editor", "settings"}
    /\ p.typing = "filter" => p.is \in {"marks", "settings"}
    /\ p.is \in Fields => p.typing = "field"

\* The marks there ever are, by their number.
Marks == DOMAIN PopEntries

\* Every mark is of a tab, none has the number of a new note.
LEMMA MarksAre ==
    /\ Len(PopEntries) \in Nat /\ Marks = 1 .. Len(PopEntries)
    /\ \A id \in Marks : PopEntries[id] \in Range(Tabs) /\ id # NewNote
    /\ PopHeld \subseteq Marks
    /\ Len(PopFolders) \in Nat
<1>1. PopEntries \in Seq(Range(Tabs)) /\ PopHeld \subseteq Marks /\ Len(PopFolders) \in Nat
  BY PopAssumption DEF Marks
<1>3. \A id \in Marks : PopEntries[id] \in Range(Tabs)
  BY <1>1 DEF Marks
<1> QED BY <1>1, <1>3 DEF Marks, NewNote

\* A set of marks by number: each of them, once.
LEMMA InOrder ==
    ASSUME NEW S \in SUBSET Marks
    PROVE  /\ Cardinality(S) \in Nat /\ IsFiniteSet(S)
           /\ ById(S) \in Seq(S) /\ Len(ById(S)) = Cardinality(S)
           /\ \A i \in S : \E k \in 1 .. Cardinality(S) : ById(S)[k] = i
<1> DEFINE n == Len(PopEntries)
           s == [i \in 1 .. n |-> i]
           m == Cardinality(S)
           rank(i) == Cardinality({j \in S : j <= i})
<1>0. n \in Nat /\ S \in SUBSET (1 .. n)
  BY MarksAre
<1>1. s \in Seq(Nat) /\ Len(s) = n
  BY <1>0
<1>2. PositionsIn(s, S) = S
  BY <1>0, <1>1 DEF PositionsIn
<1>3. \A i : RankIn(s, S, i) = rank(i)
  BY <1>2 DEF RankIn
<1>4. /\ m \in Nat /\ IsFiniteSet(S)
      /\ \A i \in S : rank(i) \in 1 .. m
      /\ \A k \in 1 .. m : \E i \in S : rank(i) = k
      /\ \A i, j \in S : rank(i) = rank(j) => i = j
  <2>1. LET at == PositionsIn(s, S)
            k == Cardinality(at)
        IN  /\ k \in Nat /\ k <= Len(s) /\ IsFiniteSet(at)
            /\ \A i \in at : RankIn(s, S, i) \in 1 .. k
            /\ \A i, j \in at : RankIn(s, S, i) = RankIn(s, S, j) => i = j
            /\ \A r \in 1 .. k : \E i \in at : RankIn(s, S, i) = r
    BY <1>1, RanksArePositions
  <2>2. Cardinality(PositionsIn(s, S)) = m
    BY <1>2
  <2> HIDE DEF s, rank, m
  <2>3. m \in Nat /\ IsFiniteSet(S) /\ \A i \in S : rank(i) \in 1 .. m
    BY <1>2, <1>3, <2>1, <2>2
  <2>4. \A k \in 1 .. m : \E i \in S : rank(i) = k
    BY <1>2, <1>3, <2>1, <2>2
  <2>5. \A i, j \in S : rank(i) = rank(j) => i = j
    BY <1>2, <1>3, <2>1
  <2> QED BY <2>3, <2>4, <2>5
<1>5. ById(S) = [k \in 1 .. m |-> CHOOSE i \in S : rank(i) = k]
  BY DEF ById
<1> HIDE DEF rank
<1>6. \A k \in 1 .. m : ById(S)[k] \in S /\ rank(ById(S)[k]) = k
  BY <1>4, <1>5
<1>7. ById(S) \in Seq(S) /\ Len(ById(S)) = m
  BY <1>4, <1>5, <1>6
<1>8. \A i \in S : \E k \in 1 .. m : ById(S)[k] = i
  <2> TAKE i \in S
  <2>1. rank(i) \in 1 .. m
    BY <1>4
  <2>2. ById(S)[rank(i)] = i
    BY <1>4, <1>6, <2>1
  <2> QED BY <2>1, <2>2
<1> QED BY <1>4, <1>7, <1>8

\* A set of marks as the list shows it, the filed ones first: each of them, once.
LEMMA ListIs ==
    ASSUME NEW w, NEW S \in SUBSET Marks
    PROVE  /\ InListOrder(w, S) \in Seq(S) /\ Len(InListOrder(w, S)) = Cardinality(S)
           /\ \A i \in S : \E k \in DOMAIN InListOrder(w, S) : InListOrder(w, S)[k] = i
<1> DEFINE A == S \cap w.filed
           B == S \ w.filed
           s == ById(A)
           t == ById(B)
           m == Cardinality(A)
           n == Cardinality(B)
<1>1. A \in SUBSET Marks /\ B \in SUBSET Marks /\ A \cup B = S /\ A \cap B = {}
  OBVIOUS
<1>2. /\ m \in Nat /\ IsFiniteSet(A) /\ s \in Seq(A) /\ Len(s) = m
      /\ \A i \in A : \E k \in 1 .. m : s[k] = i
  BY <1>1, InOrder
<1>3. /\ n \in Nat /\ IsFiniteSet(B) /\ t \in Seq(B) /\ Len(t) = n
      /\ \A i \in B : \E k \in 1 .. n : t[k] = i
  BY <1>1, InOrder
<1>4. Cardinality(S) = m + n
  <2>1. Cardinality(A \cup B) = m + n - Cardinality(A \cap B)
    BY <1>2, <1>3, FS_Union
  <2>2. Cardinality(A \cap B) = 0
    BY <1>1, FS_EmptySet
  <2>3. m + n - 0 = m + n
    BY <1>2, <1>3
  <2> HIDE DEF m, n
  <2> QED BY <1>1, <2>1, <2>2, <2>3
<1>5. InListOrder(w, S) = s \o t
  BY DEF InListOrder
<1>6. A \subseteq S /\ B \subseteq S
  OBVIOUS
<1> HIDE DEF A, B, s, t, m, n
<1>7. s \in Seq(S) /\ t \in Seq(S)
  BY <1>2, <1>3, <1>6
<1>8. s \o t \in Seq(S) /\ Len(s \o t) = m + n
  <2>1. s \o t \in Seq(S)
    BY <1>7
  <2>2. Len(s \o t) = Len(s) + Len(t)
    BY <1>7
  <2> QED BY <1>2, <1>3, <2>1, <2>2
<1>9. \A k \in 1 .. m : (s \o t)[k] = s[k] /\ k \in 1 .. (m + n)
  BY <1>2, <1>3, <1>7
<1>10. \A k \in 1 .. n : (s \o t)[m + k] = t[k] /\ m + k \in 1 .. (m + n)
  BY <1>2, <1>3, <1>7
<1>11. ASSUME NEW i \in S PROVE \E k \in 1 .. (m + n) : (s \o t)[k] = i
  <2>1. CASE i \in A
    BY <1>2, <1>9, <2>1
  <2>2. CASE i \in B
    BY <1>3, <1>10, <2>2
  <2> QED BY <1>1, <2>1, <2>2
<1>12. DOMAIN (s \o t) = 1 .. (m + n)
  BY <1>8
<1> QED BY <1>4, <1>5, <1>8, <1>11, <1>12

\* The popup fits the lists behind it: its cursor is on a row, if there is one, its word
\* is the one looked up, and a note under edit is of a mark that still is.
Fits(w, p) ==
    /\ GoodPopup(p) /\ p.sel \in Nat
    /\ Rows(w, p) > 0 => p.sel < Rows(w, p)
    /\ IF p.is = "lookup" THEN p.got \in {NoWord, p.word} /\ w.lookup.word \in {NoWord, p.word}
       ELSE p.got = NoWord
    /\ (p.is = "prompt" /\ p.id # NewNote) => p.id \in w.live

\* The only popup ever parked under the reader: the resolver, on one of its two books.
Parks(p) == GoodPopup(p) /\ p.is = "duplicates" /\ p.sel \in {0, 1} /\ p.got = NoWord

\* The invariant of the popups.  A parked resolver is kept under the reader and nowhere
\* else, and no question is asked over a note being written.
Popped(w) ==
    /\ w = [popup |-> w.popup, question |-> w.question, parked |-> w.parked, surface |-> w.surface,
            filtering |-> w.filtering, within |-> w.within, draft |-> w.draft, lookup |-> w.lookup,
            walk |-> w.walk, live |-> w.live, filed |-> w.filed, added |-> w.added, large |-> w.large]
    /\ w.draft \in Nat /\ w.live \subseteq Marks
    /\ Fits(w, w.popup)
    /\ w.parked # NoPopup => Parks(w.parked) /\ w.surface = "reader"
    /\ w.question # NoQuestion => w.popup.is # "prompt"

\* What most handlers do: everything stays in order, on the same surface or in the reader.
Stays(w, v) == Popped(v) /\ v.surface \in {w.surface, "reader"}

\* The rows of the list of marks are the marks of its tab that its filter lets through.
LEMMA RowsAreCounted ==
    ASSUME NEW w, w.live \subseteq Marks, NEW p
    PROVE  /\ Rows(w, p) \in Nat
           /\ p.is = "marks" =>
                /\ Rows(w, p) = Cardinality({id \in On(w, p.tab) : p.draft = 0 \/ id \in PopSays})
                /\ \A n \in 1 .. Rows(w, p) : Filtered(w, p)[n] \in On(w, p.tab)
           /\ p.is \in {"palette", "picker", "duplicates"} => Rows(w, p) = 2
           /\ p.is = "ignored" => Rows(w, p) = 1
<1> DEFINE S == {id \in On(w, p.tab) : p.draft = 0 \/ id \in PopSays}
<1>1. S \in SUBSET Marks
  BY DEF On
<1>2. Filtered(w, p) \in Seq(S) /\ Len(Filtered(w, p)) = Cardinality(S) /\ Cardinality(S) \in Nat
  BY <1>1, ListIs, InOrder DEF Filtered
<1>3. \A n \in 1 .. Len(Filtered(w, p)) : Filtered(w, p)[n] \in S
  BY <1>2
<1>4. \A id \in S : id \in On(w, p.tab)
  OBVIOUS
<1>5. CASE p.is = "marks"
  BY <1>2, <1>3, <1>4, <1>5 DEF Rows
<1>6. CASE p.is # "marks"
  BY <1>6, MarksAre DEF Rows
<1> QED BY <1>5, <1>6

\* Setting one part of a popup leaves it a popup.
LEMMA OneEdit == ASSUME NEW p, Whole(p), NEW a PROVE
  /\ Whole([p EXCEPT !.typing = a])
  /\ Whole([p EXCEPT !.draft = a])
  /\ Whole([p EXCEPT !.sel = a])
  /\ Whole([p EXCEPT !.tab = a])
  /\ Whole([p EXCEPT !.id = a])
  /\ Whole([p EXCEPT !.word = a])
  /\ Whole([p EXCEPT !.ticked = a])
BY DEF Whole

\* Setting two or three, one after the other: the same.
LEMMA TwoEdits == ASSUME NEW p, Whole(p), NEW a, NEW b, NEW c PROVE
  /\ Whole([p EXCEPT !.typing = a, !.draft = b])
  /\ Whole([p EXCEPT !.draft = a, !.sel = b])
  /\ Whole([p EXCEPT !.tab = a, !.sel = b])
  /\ Whole([p EXCEPT !.id = a, !.word = b])
  /\ Whole([p EXCEPT !.draft = a, !.typing = b, !.sel = c])
  /\ Whole([p EXCEPT !.tab = a, !.sel = b, !.draft = c])
<1>1. [p EXCEPT !.typing = a, !.draft = b] = [[p EXCEPT !.typing = a] EXCEPT !.draft = b]
  OBVIOUS
<1>2. [p EXCEPT !.draft = a, !.sel = b] = [[p EXCEPT !.draft = a] EXCEPT !.sel = b]
  OBVIOUS
<1>3. [p EXCEPT !.tab = a, !.sel = b] = [[p EXCEPT !.tab = a] EXCEPT !.sel = b]
  OBVIOUS
<1>4. [p EXCEPT !.id = a, !.word = b] = [[p EXCEPT !.id = a] EXCEPT !.word = b]
  OBVIOUS
<1>5. [p EXCEPT !.draft = a, !.typing = b, !.sel = c] = [[[p EXCEPT !.draft = a] EXCEPT !.typing = b] EXCEPT !.sel = c]
  OBVIOUS
<1>6. [p EXCEPT !.tab = a, !.sel = b, !.draft = c] = [[[p EXCEPT !.tab = a] EXCEPT !.sel = b] EXCEPT !.draft = c]
  OBVIOUS
<1>7. /\ Whole([p EXCEPT !.typing = a])
      /\ Whole([p EXCEPT !.draft = a])
      /\ Whole([p EXCEPT !.tab = a])
      /\ Whole([p EXCEPT !.id = a])
  BY OneEdit
<1>8. Whole([[p EXCEPT !.draft = a] EXCEPT !.typing = b]) /\ Whole([[p EXCEPT !.tab = a] EXCEPT !.sel = b])
  BY <1>7, OneEdit
<1> QED BY <1>1, <1>2, <1>3, <1>4, <1>5, <1>6, <1>7, <1>8, OneEdit, Zenon

\* A window fits as it opens.
LEMMA OpenedFits ==
    ASSUME NEW w, NEW is \in (Windows \ {"palette", "rename", "lookup"}) \cup {"none"}
    PROVE  Fits(w, Popup(is))
BY DEF Fits, GoodPopup, Whole, Popup, NoPopup, Windows, Fields

\* A field fits as it opens, over any text and any mark that is.
LEMMA FieldFits ==
    ASSUME NEW w, NEW is \in Fields, NEW n \in Nat
    PROVE  /\ Fits(w, Field(is, n))
           /\ \A word : Fits(w, [Field(is, n) EXCEPT !.word = word])
           /\ \A id \in w.live \cup {NewNote} : \A word :
                 Fits(w, [Field(is, n) EXCEPT !.id = id, !.word = word])
<1>1. ASSUME NEW r, Whole(r), r.is = is, r.typing = "field", r.draft = n, r.sel = 0, r.got = NoWord,
             r.id \in w.live \cup {NewNote}
      PROVE  Fits(w, r)
  <2>1. GoodPopup(r) /\ is \notin {"none", "lookup"}
    BY <1>1 DEF GoodPopup, Fields
  <2>2. Rows(w, r) \in {0, 2}
    BY <1>1 DEF Rows, Fields
  <2> QED BY <1>1, <2>1, <2>2 DEF Fits
<1> DEFINE f == Field(is, n)
<1>2. /\ Whole(f) /\ f.is = is /\ f.typing = "field" /\ f.draft = n /\ f.sel = 0 /\ f.id = NewNote
      /\ f.got = NoWord
  <2>1. Whole(Popup(is))
    BY DEF Whole, Popup
  <2> QED BY <2>1, TwoEdits DEF Field, Popup
<1> HIDE DEF f
<1>3. ASSUME NEW word PROVE Fits(w, [f EXCEPT !.word = word])
  <2>1. Whole([f EXCEPT !.word = word])
    BY <1>2, OneEdit
  <2> QED BY <1>1, <1>2, <2>1 DEF Whole
<1>4. ASSUME NEW id \in w.live \cup {NewNote}, NEW word PROVE Fits(w, [f EXCEPT !.id = id, !.word = word])
  <2>1. Whole([f EXCEPT !.id = id, !.word = word])
    BY <1>2, TwoEdits
  <2>2. f = [is |-> f.is, typing |-> f.typing, draft |-> f.draft, sel |-> f.sel, tab |-> f.tab, id |-> f.id,
             word |-> f.word, got |-> f.got, ticked |-> f.ticked]
    BY <1>2 DEF Whole
  <2> QED BY <1>1, <1>2, <2>1, <2>2
<1> QED BY <1>1, <1>2, <1>3, <1>4 DEF f

\* A popup still fits when only its text, its cursor or its typing change, and these rightly.
LEMMA Refits ==
    ASSUME NEW w, NEW p, Fits(w, p), p.is # "none", NEW q, Whole(q),
           q.is = p.is, q.id = p.id, q.word = p.word, q.got = p.got,
           q.draft \in Nat, q.sel \in Nat,
           \/ q.typing = p.typing
           \/ q.typing = "no" /\ p.is \notin Fields
           \/ q.typing = "field" /\ p.is \in Fields \cup {"picker", "editor", "settings"}
           \/ q.typing = "filter" /\ p.is \in {"marks", "settings"},
           Rows(w, q) > 0 => q.sel < Rows(w, q)
    PROVE  Fits(w, q)
BY DEF Fits, GoodPopup, Fields

\* Showing a popup that fits.
LEMMA ShowStays ==
    ASSUME NEW w, Popped(w), NEW p, Fits(w, p), w.question = NoQuestion \/ p.is # "prompt"
    PROVE  Stays(w, Show(w, p))
<1>1. Show(w, p).live = w.live /\ Show(w, p).filed = w.filed /\ Show(w, p).lookup = w.lookup
      /\ Show(w, p).popup = p
  BY DEF Popped, Show
<1>2. Rows(Show(w, p), p) = Rows(w, p)
  BY <1>1 DEF Rows, Filtered, InListOrder, On
<1>3. Fits(Show(w, p), p)
  BY <1>1, <1>2 DEF Fits
<1> QED BY <1>1, <1>3 DEF Stays, Popped, Show

\* Closing whatever is open.
LEMMA DismissStays ==
    ASSUME NEW w, Popped(w)
    PROVE  Stays(w, Dismiss(w))
<1>1. Fits(w, NoPopup) /\ NoPopup.is # "prompt"
  BY OpenedFits DEF NoPopup, Popup
<1> QED BY <1>1, ShowStays DEF Dismiss

\* Asking a question, or having it answered.
LEMMA AskStays ==
    ASSUME NEW w, Popped(w), NEW about, about = NoQuestion \/ w.popup.is # "prompt"
    PROVE  Stays(w, Ask(w, about)) /\ Ask(w, about).popup = w.popup /\ Ask(w, about).question = about
<1>1. /\ Ask(w, about).live = w.live /\ Ask(w, about).filed = w.filed /\ Ask(w, about).lookup = w.lookup
      /\ Ask(w, about).popup = w.popup
  BY DEF Popped, Ask
<1>2. Rows(Ask(w, about), w.popup) = Rows(w, w.popup)
  BY <1>1 DEF Rows, Filtered, InListOrder, On
<1>3. Fits(Ask(w, about), w.popup)
  BY <1>1, <1>2 DEF Fits, Popped
<1> QED BY <1>1, <1>3 DEF Stays, Popped, Ask

\* One step in order after the other.
LEMMA StaysAgain ==
    ASSUME NEW w, NEW u, NEW v, Stays(w, u), Stays(u, v)
    PROVE  Stays(w, v)
BY DEF Stays

\* No step at all.
LEMMA SameStays ==
    ASSUME NEW w, Popped(w)
    PROVE  Stays(w, w)
BY DEF Stays

\* What changes neither a popup nor the lists leaves everything in order.
LEMMA AsideStays ==
    ASSUME NEW w, Popped(w), NEW v,
           v = [popup |-> v.popup, question |-> v.question, parked |-> v.parked, surface |-> v.surface,
                filtering |-> v.filtering, within |-> v.within, draft |-> v.draft, lookup |-> v.lookup,
                walk |-> v.walk, live |-> v.live, filed |-> v.filed, added |-> v.added, large |-> v.large],
           v.popup = w.popup, v.question = w.question, v.parked = w.parked,
           v.surface \in {w.surface, "reader"}, v.draft \in Nat, v.lookup = w.lookup, v.live = w.live,
           v.filed = w.filed
    PROVE  Stays(w, v)
<1>1. Rows(v, w.popup) = Rows(w, w.popup)
  BY DEF Rows, Filtered, InListOrder, On
<1>2. Fits(v, w.popup)
  BY <1>1 DEF Fits, Popped
<1> QED BY <1>2 DEF Stays, Popped

\* Starting to look for books closes the popup it was asked from.
LEMMA DiscoverStays ==
    ASSUME NEW w, Popped(w)
    PROVE  Stays(w, StartDiscover(w))
<1> DEFINE u == Dismiss(w)
           v == [u EXCEPT !.walk = "walking"]
<1>1. Stays(w, u)
  BY DismissStays
<1>2. Popped(u)
  BY <1>1 DEF Stays
<1>3. Stays(u, v)
  <2> HIDE DEF u
  <2>1. u = [popup |-> u.popup, question |-> u.question, parked |-> u.parked, surface |-> u.surface,
             filtering |-> u.filtering, within |-> u.within, draft |-> u.draft, lookup |-> u.lookup,
             walk |-> u.walk, live |-> u.live, filed |-> u.filed, added |-> u.added, large |-> u.large]
        /\ u.draft \in Nat
    BY <1>2 DEF Popped
  <2> QED BY <1>2, <2>1, AsideStays
<1>4. Stays(w, v)
  BY <1>1, <1>3, StaysAgain
<1> QED BY <1>4, SameStays DEF StartDiscover


\* A text is never shorter than nothing.
LEMMA TypedIs ==
    ASSUME NEW n \in Nat, NEW k
    PROVE  Edited(n, k) \in Nat /\ Pushed(n, k) \in Nat
<1>1. Edited(n, k) \in Nat
  <2>1. "Ctrl-u" \notin Letters \cup {" "} /\ "Backspace" \notin Letters \cup {" "}
    BY DEF Letters
  <2>2. CASE k \in Letters \cup {" "}
    <3>1. k # "Ctrl-u" /\ k # "Backspace"
      BY <2>1, <2>2
    <3>2. Edited(n, k) = n + 1
      BY <2>2, <3>1, Zenon DEF Edited
    <3> QED BY <3>2
  <2>3. CASE k = "Ctrl-u"
    BY <2>1, <2>3 DEF Edited
  <2>4. CASE k = "Backspace"
    BY <2>1, <2>4 DEF Edited
  <2>5. CASE k \notin Letters \cup {" ", "Ctrl-u", "Backspace"}
    BY <2>5 DEF Edited
  <2> QED BY <2>2, <2>3, <2>4, <2>5
<1> QED BY <1>1 DEF Pushed

\* A move in a list that has rows ends on one of them.
LEMMA CursorMoves ==
    ASSUME NEW k, NEW len \in Nat, NEW sel \in Nat, len > 0, sel < len
    PROVE  /\ ListTyping(k, sel, len) \in Nat /\ ListTyping(k, sel, len) < len
           /\ ListNav(k, sel, len) \in Nat /\ ListNav(k, sel, len) < len
<1>1. ASSUME NEW j PROVE ListTyping(j, sel, len) \in Nat /\ ListTyping(j, sel, len) < len
  BY DEF ListTyping
<1> QED BY <1>1 DEF ListNav

\* What a key edits in a popup other than the list of marks fits.
LEMMA EditsFit ==
    ASSUME NEW w, NEW p, Fits(w, p), p.is \notin {"none", "marks"}
    PROVE  /\ \A n \in Nat : Fits(w, [p EXCEPT !.draft = n])
           /\ p.is \notin Fields => /\ Fits(w, [p EXCEPT !.typing = "no"])
                                    /\ Fits(w, [p EXCEPT !.typing = "no", !.draft = 0])
           /\ p.is \in {"picker", "editor", "settings"} =>
                /\ Fits(w, [p EXCEPT !.typing = "field"])
                /\ Fits(w, [p EXCEPT !.typing = "field", !.draft = 0])
           /\ p.is = "settings" => Fits(w, [p EXCEPT !.typing = "filter"])
           /\ \A s \in Nat : s < Rows(w, p) =>
                /\ Fits(w, [p EXCEPT !.sel = s])
                /\ \A n \in Nat : Fits(w, [p EXCEPT !.draft = n, !.sel = s])
           /\ \A set : Fits(w, [p EXCEPT !.ticked = set])
<1>1. p = [is |-> p.is, typing |-> p.typing, draft |-> p.draft, sel |-> p.sel, tab |-> p.tab, id |-> p.id,
           word |-> p.word, got |-> p.got, ticked |-> p.ticked]
  BY DEF Fits, GoodPopup, Whole
<1>2. Whole(p) /\ p.draft \in Nat /\ p.sel \in Nat /\ (Rows(w, p) > 0 => p.sel < Rows(w, p))
  BY DEF Fits, GoodPopup
<1>3. \A q : q.is = p.is => Rows(w, q) = Rows(w, p)
  BY DEF Rows
<1> DEFINE May(t) == \/ t = p.typing
                     \/ t = "no" /\ p.is \notin Fields
                     \/ t = "field" /\ p.is \in Fields \cup {"picker", "editor", "settings"}
                     \/ t = "filter" /\ p.is \in {"marks", "settings"}
<1>4. ASSUME NEW q, Whole(q), q.is = p.is, q.id = p.id, q.word = p.word, q.got = p.got, q.draft \in Nat,
             q.sel = p.sel \/ (q.sel \in Nat /\ q.sel < Rows(w, p)), May(q.typing)
      PROVE  Fits(w, q)
  BY <1>2, <1>3, <1>4, Refits
<1>5. ASSUME NEW n \in Nat PROVE Fits(w, [p EXCEPT !.draft = n])
  BY <1>1, <1>2, <1>4, OneEdit
<1>6. ASSUME NEW t, May(t) PROVE Fits(w, [p EXCEPT !.typing = t]) /\ Fits(w, [p EXCEPT !.typing = t, !.draft = 0])
  <2>1. Whole([p EXCEPT !.typing = t]) /\ Whole([p EXCEPT !.typing = t, !.draft = 0])
    BY <1>2, OneEdit, TwoEdits
  <2> HIDE DEF May
  <2> QED BY <1>1, <1>2, <1>4, <1>6, <2>1
<1>7. ASSUME NEW s \in Nat, s < Rows(w, p), NEW n \in Nat
      PROVE  Fits(w, [p EXCEPT !.sel = s]) /\ Fits(w, [p EXCEPT !.draft = n, !.sel = s])
  <2>1. Whole([p EXCEPT !.sel = s]) /\ Whole([p EXCEPT !.draft = n, !.sel = s])
    BY <1>2, OneEdit, TwoEdits
  <2> QED BY <1>1, <1>2, <1>4, <1>7, <2>1
<1>8. ASSUME NEW set PROVE Fits(w, [p EXCEPT !.ticked = set])
  BY <1>1, <1>2, <1>4, OneEdit
<1>9. 0 \in Nat
  OBVIOUS
<1> QED BY <1>5, <1>6, <1>7, <1>8, <1>9

\* The settings popup.
LEMMA SettingsKeyStays ==
    ASSUME NEW w, Popped(w), w.question = NoQuestion, w.popup.is = "settings", NEW k,
           NEW v \in SettingsKey(w, k)
    PROVE  Stays(w, v)
<1> DEFINE p == w.popup
           n == Edited(p.draft, k)
<1>1. Fits(w, p) /\ p.is \notin {"none", "marks"} /\ p.is \notin Fields /\ p.draft \in Nat
  BY DEF Popped, Fits, GoodPopup, Fields
<1>2. n \in Nat
  BY <1>1, TypedIs
<1>3. \A q : Fits(w, q) => Stays(w, Show(w, q))
  BY ShowStays
<1>4. Stays(w, Show(w, [p EXCEPT !.draft = n])) /\ Stays(w, Show(w, [p EXCEPT !.draft = 0]))
  BY <1>1, <1>2, <1>3, EditsFit
<1>5. /\ Stays(w, Show(w, [p EXCEPT !.typing = "no"]))
      /\ Stays(w, Show(w, [p EXCEPT !.typing = "no", !.draft = 0]))
  BY <1>1, <1>3, EditsFit
<1>6. /\ Stays(w, Show(w, [p EXCEPT !.typing = "filter"]))
      /\ Stays(w, Show(w, [p EXCEPT !.typing = "field", !.draft = 0]))
  BY <1>1, <1>3, EditsFit
<1>7. Stays(w, w) /\ Stays(w, Dismiss(w))
  BY SameStays, DismissStays
<1>8. Stays(w, StartDiscover(w))
  BY DiscoverStays
<1>9. v \in {Show(w, [p EXCEPT !.draft = n]), Show(w, [p EXCEPT !.draft = 0]),
             Show(w, [p EXCEPT !.typing = "no"]), Show(w, [p EXCEPT !.typing = "no", !.draft = 0]),
             Show(w, [p EXCEPT !.typing = "filter"]), Show(w, [p EXCEPT !.typing = "field", !.draft = 0]),
             w, Dismiss(w), StartDiscover(w)}
  BY DEF SettingsKey, FieldEdited
<1> QED BY <1>4, <1>5, <1>6, <1>7, <1>8, <1>9

\* The editor of a record.
LEMMA EditorKeyStays ==
    ASSUME NEW w, Popped(w), w.question = NoQuestion, w.popup.is = "editor", NEW k,
           NEW v \in EditorKey(w, k)
    PROVE  Stays(w, v)
<1> DEFINE p == w.popup
           n == Edited(p.draft, k)
<1>1. Fits(w, p) /\ p.is \notin {"none", "marks"} /\ p.is \notin Fields /\ p.draft \in Nat
  BY DEF Popped, Fits, GoodPopup, Fields
<1>2. n \in Nat
  BY <1>1, TypedIs
<1>3. \A q : Fits(w, q) => Stays(w, Show(w, q))
  BY ShowStays
<1>4. Stays(w, Show(w, [p EXCEPT !.draft = n])) /\ Stays(w, Show(w, [p EXCEPT !.typing = "no", !.draft = 0]))
  BY <1>1, <1>2, <1>3, EditsFit
<1>5. Stays(w, Show(w, [p EXCEPT !.typing = "field"]))
  BY <1>1, <1>3, EditsFit
<1>6. Stays(w, Show(w, Popup("editor")))
  BY <1>3, OpenedFits DEF Windows
<1>7. Stays(w, w) /\ Stays(w, Dismiss(w)) /\ Stays(w, Ask(w, "save"))
  BY SameStays, DismissStays, AskStays
<1>8. v \in {Show(w, [p EXCEPT !.draft = n]), Show(w, [p EXCEPT !.typing = "no", !.draft = 0]),
             Show(w, [p EXCEPT !.typing = "field"]), Show(w, Popup("editor")), w, Dismiss(w), Ask(w, "save")}
  BY DEF EditorKey, FieldEdited
<1> QED BY <1>4, <1>5, <1>6, <1>7, <1>8

\* The fields that name something: of files, of a shelf, of tags.
LEMMA NameKeysStay ==
    ASSUME NEW w, Popped(w), w.question = NoQuestion, NEW k, NEW v,
           \/ w.popup.is = "rename" /\ v \in BulkRenameKey(w, k)
           \/ w.popup.is = "shelf" /\ v \in CollEditKey(w, k)
           \/ w.popup.is = "tags" /\ v \in TagEditKey(w, k)
    PROVE  Stays(w, v)
<1> DEFINE p == w.popup
           n == Edited(p.draft, k)
<1>1. Fits(w, p) /\ p.is \notin {"none", "marks", "prompt"} /\ p.draft \in Nat
  BY DEF Popped, Fits, GoodPopup, Fields
<1>2. n \in Nat
  BY <1>1, TypedIs
<1>3. Fits(w, [p EXCEPT !.draft = n])
  BY <1>1, <1>2, EditsFit
<1>4. Stays(w, Show(w, [p EXCEPT !.draft = n]))
  BY <1>3, ShowStays
<1>5. Stays(w, Dismiss(w)) /\ \A about : Stays(w, Ask(w, about))
  BY <1>1, DismissStays, AskStays
<1>6. v \in {Show(w, [p EXCEPT !.draft = n]), Dismiss(w)} \/ \E about : v = Ask(w, about)
  BY DEF BulkRenameKey, CollEditKey, TagEditKey
<1> QED BY <1>4, <1>5, <1>6

\* The shelf picker.
LEMMA PickerKeyStays ==
    ASSUME NEW w, Popped(w), w.question = NoQuestion, w.popup.is = "picker", NEW k,
           NEW v \in ShelfPickerKey(w, k)
    PROVE  Stays(w, v)
<1> DEFINE p == w.popup
           n == Pushed(p.draft, k)
           s == ListNav(k, p.sel, 2)
<1>1. Fits(w, p) /\ p.is \notin {"none", "marks"} /\ p.is \notin Fields /\ p.draft \in Nat /\ p.sel \in Nat
  BY DEF Popped, Fits, GoodPopup, Fields
<1>2. Rows(w, p) = 2 /\ p.sel < 2
  BY <1>1 DEF Rows, Fits
<1>3. n \in Nat /\ s \in Nat /\ s < 2
  BY <1>1, <1>2, TypedIs, CursorMoves
<1>4. \A q : Fits(w, q) => Stays(w, Show(w, q))
  BY ShowStays
<1>5. Stays(w, Show(w, [p EXCEPT !.draft = n])) /\ Stays(w, Show(w, [p EXCEPT !.typing = "no", !.draft = 0]))
  BY <1>1, <1>3, <1>4, EditsFit
<1>6. Stays(w, Show(w, [p EXCEPT !.typing = "field"])) /\ Stays(w, Show(w, [p EXCEPT !.sel = s]))
  BY <1>1, <1>2, <1>3, <1>4, EditsFit
<1>7. Stays(w, w) /\ Stays(w, Dismiss(w))
  BY SameStays, DismissStays
<1>8. v \in {Show(w, [p EXCEPT !.draft = n]), Show(w, [p EXCEPT !.typing = "no", !.draft = 0]),
             Show(w, [p EXCEPT !.typing = "field"]), Show(w, [p EXCEPT !.sel = s]), w, Dismiss(w)}
  <2>1. CASE p.typing = "field"
    BY <2>1 DEF ShelfPickerKey
  <2>2. CASE p.typing # "field"
    BY <2>2 DEF ShelfPickerKey
  <2> QED BY <2>1, <2>2
<1> QED BY <1>5, <1>6, <1>7, <1>8

\* Opening the resolver of duplicates, which may find none.
LEMMA ResolverOpens ==
    ASSUME NEW w, Popped(w), NEW v \in OpenDupResolve(w)
    PROVE  Stays(w, v)
<1>1. Fits(w, Popup("duplicates")) /\ Popup("duplicates").is # "prompt"
  BY OpenedFits DEF Windows, Popup
<1>2. Stays(w, Show(w, Popup("duplicates"))) /\ Stays(w, w)
  BY <1>1, ShowStays, SameStays
<1> QED BY <1>2 DEF OpenDupResolve

\* The resolver: a preview parks it and leads to the reader.
LEMMA DupResolveKeyStays ==
    ASSUME NEW w, Popped(w), w.question = NoQuestion, w.popup.is = "duplicates", NEW k,
           NEW v \in DupResolveKey(w, k)
    PROVE  Stays(w, v)
<1> DEFINE p == w.popup
           s == ListNav(k, p.sel, 2)
           previewed == [Dismiss(w) EXCEPT !.surface = "reader", !.parked = p]
<1>1. Fits(w, p) /\ p.is \notin {"none", "marks"} /\ p.is \notin Fields /\ p.sel \in Nat
  BY DEF Popped, Fits, GoodPopup, Fields
<1>2. Rows(w, p) = 2 /\ p.sel < 2
  BY <1>1 DEF Rows, Fits
<1>3. s \in Nat /\ s < 2
  BY <1>1, <1>2, CursorMoves
<1>4. \A q : Fits(w, q) => Stays(w, Show(w, q))
  BY ShowStays
<1>5. Stays(w, Show(w, [p EXCEPT !.sel = s]))
  BY <1>1, <1>2, <1>3, <1>4, EditsFit
<1>6. Stays(w, Show(w, Popup("settings"))) /\ Stays(w, Show(w, Popup("ignored")))
  BY <1>4, OpenedFits DEF Windows
<1>7. Stays(w, w) /\ Stays(w, Dismiss(w)) /\ Stays(w, Ask(w, "duplicates"))
  BY SameStays, DismissStays, AskStays
<1>8. \A u \in OpenDupResolve(Dismiss(w)) : Stays(w, u)
  <2>1. Popped(Dismiss(w))
    BY <1>7 DEF Stays
  <2> QED BY <1>7, <2>1, ResolverOpens, StaysAgain
<1>9. Stays(w, previewed)
  <2> DEFINE u == Dismiss(w)
             u1 == [u EXCEPT !.surface = "reader"]
  <2>1. Popped(u) /\ u.popup = NoPopup
    BY <1>7 DEF Stays, Dismiss, Show, Popped
  <2>2. Parks(p)
    BY <1>1, <1>2 DEF Parks, Fits
  <2> HIDE DEF u
  <2>3. previewed = [u1 EXCEPT !.parked = p]
    BY DEF u
  <2>4. u = [popup |-> u.popup, question |-> u.question, parked |-> u.parked, surface |-> u.surface,
             filtering |-> u.filtering, within |-> u.within, draft |-> u.draft, lookup |-> u.lookup,
             walk |-> u.walk, live |-> u.live, filed |-> u.filed, added |-> u.added, large |-> u.large]
    BY <2>1 DEF Popped
  <2>5. Stays(u, u1)
    BY <2>1, <2>4, AsideStays DEF Popped
  <2> DEFINE u2 == [u1 EXCEPT !.parked = p]
  <2>6. Popped(u1) /\ u1.surface = "reader"
    BY <2>4, <2>5 DEF Stays
  <2> HIDE DEF u1
  <2>7. u1 = [popup |-> u1.popup, question |-> u1.question, parked |-> u1.parked, surface |-> u1.surface,
             filtering |-> u1.filtering, within |-> u1.within, draft |-> u1.draft, lookup |-> u1.lookup,
             walk |-> u1.walk, live |-> u1.live, filed |-> u1.filed, added |-> u1.added, large |-> u1.large]
    BY <2>6 DEF Popped
  <2>8. u2 = [popup |-> u1.popup, question |-> u1.question, parked |-> p, surface |-> u1.surface,
             filtering |-> u1.filtering, within |-> u1.within, draft |-> u1.draft, lookup |-> u1.lookup,
             walk |-> u1.walk, live |-> u1.live, filed |-> u1.filed, added |-> u1.added, large |-> u1.large]
    BY <2>7
  <2> HIDE DEF u2
  <2>9. Rows(u2, u1.popup) = Rows(u1, u1.popup)
    BY <2>8 DEF Rows, Filtered, InListOrder, On
  <2>10. Fits(u2, u1.popup)
    BY <2>6, <2>8, <2>9 DEF Fits, Popped
  <2>11. Popped(u2) /\ u2.surface = "reader"
    BY <2>2, <2>6, <2>8, <2>10 DEF Popped
  <2> QED BY <2>3, <2>11 DEF Stays, u2
<1>10. v \in {Show(w, [p EXCEPT !.sel = s]), Show(w, Popup("settings")), Show(w, Popup("ignored")), w,
              Dismiss(w), Ask(w, "duplicates"), previewed} \cup OpenDupResolve(Dismiss(w))
  BY DEF DupResolveKey, MovesList, Moves
<1> QED BY <1>5, <1>6, <1>7, <1>8, <1>9, <1>10

\* The list of the pairs that are no duplicates.
LEMMA IgnoredKeyStays ==
    ASSUME NEW w, Popped(w), NEW k, NEW v \in IgnoredKey(w, k)
    PROVE  Stays(w, v)
<1>1. Stays(w, w) /\ Stays(w, Dismiss(w))
  BY SameStays, DismissStays
<1> QED BY <1>1 DEF IgnoredKey

\* The folder finder.
LEMMA FinderKeyStays ==
    ASSUME NEW w, Popped(w), w.popup.is = "finder", NEW k, NEW v \in FinderKey(w, k)
    PROVE  Stays(w, v)
<1> DEFINE p == w.popup
           len == Rows(w, p)
           s == ListNav(k, p.sel, len)
           shut == Dismiss(w)
           taken == [shut EXCEPT !.added = @ \cup p.ticked]
<1>1. Fits(w, p) /\ p.is \notin {"none", "marks", "prompt"} /\ p.is \notin Fields /\ p.sel \in Nat
  BY DEF Popped, Fits, GoodPopup, Fields
<1>2. len \in Nat /\ (len > 0 => p.sel < len)
  BY <1>1, RowsAreCounted DEF Fits, Popped
<1>3. len > 0 => s \in Nat /\ s < len
  BY <1>1, <1>2, CursorMoves
<1>4. \A q : Fits(w, q) /\ q.is = "finder" => Stays(w, Show(w, q))
  BY ShowStays
<1>5. p = [is |-> p.is, typing |-> p.typing, draft |-> p.draft, sel |-> p.sel, tab |-> p.tab, id |-> p.id,
           word |-> p.word, got |-> p.got, ticked |-> p.ticked]
  BY <1>1 DEF Fits, GoodPopup, Whole
<1>6. len > 0 => Stays(w, Show(w, [p EXCEPT !.sel = s]))
  <2> HIDE DEF s
  <2> SUFFICES ASSUME len > 0 PROVE Stays(w, Show(w, [p EXCEPT !.sel = s]))
    OBVIOUS
  <2>1. Fits(w, [p EXCEPT !.sel = s])
    BY <1>1, <1>3, EditsFit
  <2>2. [p EXCEPT !.sel = s].is = "finder"
    BY <1>5
  <2> QED BY <1>4, <2>1, <2>2
<1>7. \A set : Stays(w, Show(w, [p EXCEPT !.ticked = set]))
  <2> TAKE set
  <2>1. Fits(w, [p EXCEPT !.ticked = set]) /\ [p EXCEPT !.ticked = set].is = "finder"
    BY <1>1, <1>5, EditsFit
  <2> QED BY <1>4, <2>1
<1>8. Stays(w, w) /\ Stays(w, shut)
  BY SameStays, DismissStays
<1>9. Stays(w, taken)
  <2>1. Popped(shut)
    BY <1>8 DEF Stays
  <2> HIDE DEF shut
  <2>2. shut = [popup |-> shut.popup, question |-> shut.question, parked |-> shut.parked,
                surface |-> shut.surface, filtering |-> shut.filtering, within |-> shut.within,
                draft |-> shut.draft, lookup |-> shut.lookup, walk |-> shut.walk, live |-> shut.live,
                filed |-> shut.filed, added |-> shut.added, large |-> shut.large] /\ shut.draft \in Nat
    BY <2>1 DEF Popped
  <2>3. Stays(shut, taken)
    BY <2>1, <2>2, AsideStays
  <2> QED BY <1>8, <2>3, StaysAgain
<1>10. \/ len > 0 /\ v = Show(w, [p EXCEPT !.sel = s])
       \/ \E set : v = Show(w, [p EXCEPT !.ticked = set])
       \/ v \in {w, shut, taken}
  BY DEF FinderKey, MovesList, Moves
<1> QED BY <1>6, <1>7, <1>8, <1>9, <1>10

\* What the palette runs.
LEMMA PaletteRunStays ==
    ASSUME NEW w, Popped(w), NEW v \in PaletteRuns(w)
    PROVE  Stays(w, v)
<1>1. Stays(w, Dismiss(w)) /\ Popped(Dismiss(w))
  BY DismissStays DEF Stays
<1>2. Stays(w, StartDiscover(Dismiss(w)))
  BY <1>1, DiscoverStays, StaysAgain
<1>3. Fits(w, Popup("stats")) /\ Popup("stats").is # "prompt"
  BY OpenedFits DEF Windows, Popup
<1>4. Stays(w, Show(w, Popup("stats")))
  BY <1>3, ShowStays
<1> QED BY <1>1, <1>2, <1>4 DEF PaletteRuns

\* The command palette.
LEMMA PaletteKeyStays ==
    ASSUME NEW w, Popped(w), w.question = NoQuestion, w.popup.is = "palette", NEW k,
           NEW v \in PaletteKey(w, k)
    PROVE  Stays(w, v)
<1> DEFINE p == w.popup
           n == Edited(p.draft, k)
           s == ListTyping(k, p.sel, 2)
<1>1. Fits(w, p) /\ p.is \notin {"none", "marks"} /\ p.draft \in Nat /\ p.sel \in Nat
  BY DEF Popped, Fits, GoodPopup
<1>2. Rows(w, p) = 2 /\ p.sel < 2
  BY <1>1 DEF Rows, Fits
<1>3. n \in Nat /\ s \in Nat /\ s < 2
  BY <1>1, <1>2, TypedIs, CursorMoves
<1>4. \A q : Fits(w, q) => Stays(w, Show(w, q))
  BY ShowStays
<1>5. Stays(w, Show(w, [p EXCEPT !.sel = s])) /\ Stays(w, Show(w, [p EXCEPT !.draft = n, !.sel = 0]))
      /\ Stays(w, Show(w, [p EXCEPT !.draft = n, !.sel = p.sel]))
  <2> DEFINE A(t) == Fits(w, [p EXCEPT !.sel = t])
             B(m, t) == Fits(w, [p EXCEPT !.draft = m, !.sel = t])
  <2>1. \A t \in Nat : t < 2 => A(t) /\ \A m \in Nat : B(m, t)
    BY <1>1, <1>2, EditsFit
  <2> HIDE DEF A, B, n, s
  <2>2. A(s) /\ B(n, 0) /\ B(n, p.sel)
    BY <1>1, <1>2, <1>3, <2>1
  <2>3. Fits(w, [p EXCEPT !.sel = s]) /\ Fits(w, [p EXCEPT !.draft = n, !.sel = 0])
        /\ Fits(w, [p EXCEPT !.draft = n, !.sel = p.sel])
    BY <2>2, Zenon DEF A, B
  <2> QED BY <1>4, <2>3
<1>6. Stays(w, Dismiss(w)) /\ \A u \in PaletteRuns(w) : Stays(w, u)
  BY DismissStays, PaletteRunStays
<1>7. v \in {Show(w, [p EXCEPT !.sel = s]), Show(w, [p EXCEPT !.draft = n, !.sel = 0]),
             Show(w, [p EXCEPT !.draft = n, !.sel = p.sel]), Dismiss(w)} \cup PaletteRuns(w)
  BY DEF PaletteKey, MovesTyping, Moves
<1> QED BY <1>5, <1>6, <1>7

\* A change of the marks leaves everything in order that is not a popup over them.
LEMMA ListsStay ==
    ASSUME NEW w, Popped(w), NEW v,
           v = [popup |-> v.popup, question |-> v.question, parked |-> v.parked, surface |-> v.surface,
                filtering |-> v.filtering, within |-> v.within, draft |-> v.draft, lookup |-> v.lookup,
                walk |-> v.walk, live |-> v.live, filed |-> v.filed, added |-> v.added, large |-> v.large],
           v.question = w.question, v.parked = w.parked, v.surface = w.surface, v.draft \in Nat,
           v.live \subseteq Marks, Fits(v, v.popup), v.question = NoQuestion \/ v.popup.is # "prompt"
    PROVE  Stays(w, v)
BY DEF Stays, Popped

\* Returning to the list of marks: the cursor is on the mark that was edited.
LEMMA RefreshShows ==
    ASSUME NEW w, Popped(w), NEW u,
           u = [popup |-> u.popup, question |-> u.question, parked |-> u.parked, surface |-> u.surface,
                filtering |-> u.filtering, within |-> u.within, draft |-> u.draft, lookup |-> u.lookup,
                walk |-> u.walk, live |-> u.live, filed |-> u.filed, added |-> u.added, large |-> u.large],
           u.question = w.question, u.parked = w.parked, u.surface = w.surface, u.draft \in Nat,
           u.live \subseteq Marks, NEW id \in u.live
    PROVE  LET v == RefreshBookmarks(u, id)
           IN  Stays(w, v) /\ v.popup.is = "marks" /\ SelectedMark(v, v.popup) = id
<1> DEFINE tab == PopEntries[id]
           list == Listed(u, tab)
           spot == PlaceOf(id, list)
           q == [Popup("marks") EXCEPT !.tab = tab, !.sel = spot]
           v == RefreshBookmarks(u, id)
           S == On(u, tab)
<1>1. S \in SUBSET Marks /\ id \in S
  BY DEF On
<1>2. /\ list \in Seq(S) /\ Len(list) = Cardinality(S) /\ Cardinality(S) \in Nat
      /\ \E k \in DOMAIN list : list[k] = id
  <2>1. list = InListOrder(u, S)
    BY DEF Listed
  <2> HIDE DEF list, S
  <2> QED BY <1>1, <2>1, ListIs, InOrder
<1>3. spot \in Nat /\ spot < Len(list) /\ list[spot + 1] = id
  <2> HIDE DEF list
  <2>1. PICK k \in DOMAIN list : list[k] = id /\ spot = k - 1
    BY <1>2 DEF PlaceOf
  <2>2. k \in 1 .. Len(list)
    BY <1>2
  <2> QED BY <1>2, <2>1, <2>2
<1> HIDE DEF spot
<1>4. /\ Whole(q) /\ q.is = "marks" /\ q.tab = tab /\ q.sel = spot /\ q.draft = 0 /\ q.typing = "no"
      /\ q.got = NoWord
  <2>1. Whole(Popup("marks"))
    BY DEF Whole, Popup
  <2>2. Whole(q)
    BY <2>1, TwoEdits
  <2> QED BY <2>2 DEF Popup
<1>5. v = [u EXCEPT !.popup = q]
  BY DEF RefreshBookmarks, Show, spot
<1> HIDE DEF q, v, tab
<1>6. /\ v = [popup |-> q, question |-> u.question, parked |-> u.parked, surface |-> u.surface,
              filtering |-> u.filtering, within |-> u.within, draft |-> u.draft, lookup |-> u.lookup,
              walk |-> u.walk, live |-> u.live, filed |-> u.filed, added |-> u.added, large |-> u.large]
  BY <1>5
<1>7. Filtered(v, q) = list
  <2>1. {i \in On(v, q.tab) : q.draft = 0 \/ i \in PopSays} = S
    BY <1>4, <1>6 DEF On
  <2>2. InListOrder(v, S) = InListOrder(u, S)
    BY <1>6 DEF InListOrder
  <2> QED BY <2>1, <2>2 DEF Filtered, Listed
<1> HIDE DEF list
<1>8. SelectedMark(v, q) = id
  BY <1>3, <1>4, <1>7 DEF SelectedMark
<1>9. Fits(v, q)
  <2>1. Rows(v, q) = Len(list)
    BY <1>4, <1>7 DEF Rows
  <2> QED BY <1>3, <1>4, <2>1 DEF Fits, GoodPopup, Windows, Fields
<1>10. Stays(w, v)
  <2> HIDE DEF S
  <2> QED BY <1>4, <1>6, <1>9, ListsStay
<1> QED BY <1>4, <1>6, <1>8, <1>10 DEF v

\* The field of a note: saved or given up, it leads back to the list, on its mark.
LEMMA PromptKeyStays ==
    ASSUME NEW w, Popped(w), w.question = NoQuestion, w.popup.is = "prompt", NEW k,
           NEW v \in PromptKey(w, k)
    PROVE  /\ Stays(w, v)
           /\ (w.popup.id # NewNote /\ v.popup.is \notin {"prompt", "finder"})
                 => v.popup.is = "marks" /\ SelectedMark(v, v.popup) = w.popup.id
<1> DEFINE p == w.popup
           n == Edited(p.draft, k)
           Right(u) == Stays(w, u) /\ ((p.id # NewNote /\ u.popup.is \notin {"prompt", "finder"})
                                          => u.popup.is = "marks" /\ SelectedMark(u, u.popup) = p.id)
<1>1. Fits(w, p) /\ p.is \notin {"none", "marks"} /\ p.draft \in Nat /\ w.live \subseteq Marks
  BY DEF Popped, Fits, GoodPopup
<1>2. p.id # NewNote => p.id \in w.live
  BY <1>1 DEF Fits
<1>3. w = [popup |-> w.popup, question |-> w.question, parked |-> w.parked, surface |-> w.surface,
           filtering |-> w.filtering, within |-> w.within, draft |-> w.draft, lookup |-> w.lookup,
           walk |-> w.walk, live |-> w.live, filed |-> w.filed, added |-> w.added, large |-> w.large]
      /\ w.draft \in Nat
  BY DEF Popped
<1>4. ASSUME p.id # NewNote PROVE Right(RefreshBookmarks(w, p.id))
  BY <1>1, <1>2, <1>3, <1>4, RefreshShows
<1>5. ASSUME p.id # NewNote, NEW filed PROVE Right(RefreshBookmarks([w EXCEPT !.filed = filed], p.id))
  <2> DEFINE u == [w EXCEPT !.filed = filed]
  <2>1. u = [popup |-> w.popup, question |-> w.question, parked |-> w.parked, surface |-> w.surface,
             filtering |-> w.filtering, within |-> w.within, draft |-> w.draft, lookup |-> w.lookup,
             walk |-> w.walk, live |-> w.live, filed |-> filed, added |-> w.added, large |-> w.large]
    BY <1>3
  <2> HIDE DEF u
  <2>2. Right(RefreshBookmarks(u, p.id))
    BY <1>1, <1>2, <1>3, <1>5, <2>1, RefreshShows
  <2> QED BY <2>2 DEF u
<1>6. ASSUME p.id = NewNote PROVE Right(Dismiss(w))
  BY <1>6, DismissStays
<1>7. ASSUME p.id = NewNote, NEW id \in Marks PROVE Right([Dismiss(w) EXCEPT !.live = @ \cup {id}])
  <2> DEFINE u == Dismiss(w)
             x == [u EXCEPT !.live = @ \cup {id}]
  <2>1. Stays(w, u) /\ u.popup = NoPopup /\ u.live = w.live
    BY <1>3, DismissStays DEF Dismiss, Show
  <2>2. Popped(u) /\ u.question = w.question /\ u.parked = w.parked /\ u.surface = w.surface
    BY <1>3, <2>1 DEF Stays, Dismiss, Show
  <2> HIDE DEF u
  <2>3. u = [popup |-> u.popup, question |-> u.question, parked |-> u.parked, surface |-> u.surface,
             filtering |-> u.filtering, within |-> u.within, draft |-> u.draft, lookup |-> u.lookup,
             walk |-> u.walk, live |-> u.live, filed |-> u.filed, added |-> u.added, large |-> u.large]
        /\ u.draft \in Nat
    BY <2>2 DEF Popped
  <2>4. x = [popup |-> NoPopup, question |-> w.question, parked |-> w.parked, surface |-> w.surface,
             filtering |-> u.filtering, within |-> u.within, draft |-> u.draft, lookup |-> u.lookup,
             walk |-> u.walk, live |-> w.live \cup {id}, filed |-> u.filed, added |-> u.added, large |-> u.large]
    BY <2>1, <2>2, <2>3
  <2> HIDE DEF x
  <2>5. Fits(x, NoPopup)
    BY OpenedFits DEF NoPopup
  <2>6. w.live \cup {id} \subseteq Marks
    BY <1>1
  <2>7. Stays(w, x)
    BY <1>3, <2>3, <2>4, <2>5, <2>6, ListsStay
  <2> QED BY <1>7, <2>7 DEF x, u
<1>8. Right(Show(w, [p EXCEPT !.draft = n]))
  <2>1. n \in Nat
    BY <1>1, TypedIs
  <2> HIDE DEF n
  <2>2. Fits(w, [p EXCEPT !.draft = n])
    BY <1>1, <2>1, EditsFit
  <2>3. Stays(w, Show(w, [p EXCEPT !.draft = n]))
    BY <2>2, ShowStays
  <2>4. Show(w, [p EXCEPT !.draft = n]).popup.is = "prompt"
    BY <1>1, <1>3 DEF Show, Fits, GoodPopup, Whole
  <2> QED BY <2>3, <2>4
<1> SUFFICES Right(v)
  BY DEF Right
<1> HIDE DEF Right, n
<1>9. CASE k = "Esc"
  BY <1>4, <1>6, <1>9 DEF PromptKey
<1>10. CASE k = "Enter"
  <2>1. v \in PromptCommit(w)
    BY <1>10 DEF PromptKey
  <2>2. CASE p.id # NewNote
    <3>1. \E filed : v = RefreshBookmarks([w EXCEPT !.filed = filed], p.id) \/ v = RefreshBookmarks(w, p.id)
      BY <2>1, <2>2 DEF PromptCommit
    <3> QED BY <1>4, <1>5, <2>2, <3>1
  <2>3. CASE p.id = NewNote
    <3>1. v = Dismiss(w) \/ \E id \in Marks : v = [Dismiss(w) EXCEPT !.live = @ \cup {id}]
      BY <2>1, <2>3 DEF PromptCommit, Marks
    <3> QED BY <1>6, <1>7, <2>3, <3>1
  <2> QED BY <2>2, <2>3
<1>11. CASE k \notin {"Esc", "Enter"}
  BY <1>8, <1>11 DEF PromptKey, n
<1> QED BY <1>9, <1>10, <1>11

\* What a key edits in the list of marks fits.
LEMMA MarksFit ==
    ASSUME NEW w, NEW p, Fits(w, p), p.is = "marks", w.live \subseteq Marks
    PROVE  /\ \A s \in Nat : s < Rows(w, p) => Fits(w, [p EXCEPT !.sel = s])
           /\ Fits(w, [p EXCEPT !.typing = "no"]) /\ Fits(w, [p EXCEPT !.typing = "filter"])
           /\ Fits(w, [p EXCEPT !.draft = 0, !.typing = "no", !.sel = 0])
           /\ \A n \in Nat : Fits(w, [p EXCEPT !.draft = n, !.sel = 0])
           /\ Fits(w, [p EXCEPT !.draft = p.draft, !.sel = p.sel])
           /\ \A tab : Fits(w, [p EXCEPT !.tab = tab, !.sel = 0, !.draft = 0])
<1>1. p = [is |-> p.is, typing |-> p.typing, draft |-> p.draft, sel |-> p.sel, tab |-> p.tab, id |-> p.id,
           word |-> p.word, got |-> p.got, ticked |-> p.ticked]
  BY DEF Fits, GoodPopup, Whole
<1>2. Whole(p) /\ p.draft \in Nat /\ p.sel \in Nat /\ (Rows(w, p) > 0 => p.sel < Rows(w, p))
  BY DEF Fits, GoodPopup
<1>3. \A q : (q.is = p.is /\ q.tab = p.tab /\ q.draft = p.draft) => Rows(w, q) = Rows(w, p)
  BY DEF Rows, Filtered
<1>4. ASSUME NEW q, Whole(q), q.is = p.is, q.id = p.id, q.word = p.word, q.got = p.got, q.draft \in Nat,
             \/ q.sel = 0
             \/ (q.sel = p.sel \/ (q.sel \in Nat /\ q.sel < Rows(w, p))) /\ q.tab = p.tab /\ q.draft = p.draft,
             q.typing \in {p.typing, "no", "filter"}
      PROVE  Fits(w, q)
  <2>1. Rows(w, q) > 0 => q.sel < Rows(w, q)
    BY <1>2, <1>3, <1>4
  <2> QED BY <1>2, <1>4, <2>1, Refits DEF Fields
<1>5. \A s \in Nat : s < Rows(w, p) => Fits(w, [p EXCEPT !.sel = s])
  BY <1>1, <1>2, <1>4, OneEdit
<1>6. Fits(w, [p EXCEPT !.typing = "no"]) /\ Fits(w, [p EXCEPT !.typing = "filter"])
  <2>1. Whole([p EXCEPT !.typing = "no"]) /\ Whole([p EXCEPT !.typing = "filter"])
    BY <1>2, OneEdit
  <2> QED BY <1>1, <1>2, <1>4, <2>1
<1>7. Fits(w, [p EXCEPT !.draft = 0, !.typing = "no", !.sel = 0])
  <2>1. Whole([p EXCEPT !.draft = 0, !.typing = "no", !.sel = 0])
    BY <1>2, TwoEdits
  <2> QED BY <1>1, <1>4, <2>1
<1>8. \A n \in Nat : Fits(w, [p EXCEPT !.draft = n, !.sel = 0])
  <2> TAKE n \in Nat
  <2>1. Whole([p EXCEPT !.draft = n, !.sel = 0])
    BY <1>2, TwoEdits
  <2> QED BY <1>1, <1>4, <2>1
<1>9. Fits(w, [p EXCEPT !.draft = p.draft, !.sel = p.sel])
  <2>1. Whole([p EXCEPT !.draft = p.draft, !.sel = p.sel])
    BY <1>2, TwoEdits
  <2> QED BY <1>1, <1>2, <1>4, <2>1
<1>10. \A tab : Fits(w, [p EXCEPT !.tab = tab, !.sel = 0, !.draft = 0])
  <2> TAKE tab
  <2>1. Whole([p EXCEPT !.tab = tab, !.sel = 0, !.draft = 0])
    BY <1>2, TwoEdits
  <2> QED BY <1>1, <1>4, <2>1
<1> QED BY <1>5, <1>6, <1>7, <1>8, <1>9, <1>10

\* The filter of the list of marks, whose cursor starts over at every letter.
LEMMA AnnotFilterKeyStays ==
    ASSUME NEW w, Popped(w), w.popup.is = "marks", w.question = NoQuestion, NEW k,
           NEW v \in AnnotFilterKey(w, k)
    PROVE  Stays(w, v)
<1> DEFINE p == w.popup
           n == Pushed(p.draft, k)
           len == Rows(w, p)
           s == ListTyping(k, p.sel, len)
<1>1. Fits(w, p) /\ w.live \subseteq Marks /\ p.draft \in Nat /\ p.sel \in Nat
  BY DEF Popped, Fits, GoodPopup
<1>2. len \in Nat /\ (len > 0 => p.sel < len)
  BY <1>1, RowsAreCounted DEF Fits
<1>3. n \in Nat /\ (len > 0 => s \in Nat /\ s < len)
  BY <1>1, <1>2, TypedIs, CursorMoves
<1>4. \A q : Fits(w, q) => Stays(w, Show(w, q))
  BY ShowStays
<1>5. len > 0 => Stays(w, Show(w, [p EXCEPT !.sel = s]))
  <2> DEFINE A(t) == Fits(w, [p EXCEPT !.sel = t])
  <2>1. \A t \in Nat : t < len => A(t)
    BY <1>1, MarksFit
  <2> HIDE DEF A, s
  <2>2. len > 0 => A(s)
    BY <1>3, <2>1
  <2> QED BY <1>4, <2>2 DEF A
<1>6. Stays(w, Show(w, [p EXCEPT !.draft = 0, !.typing = "no", !.sel = 0]))
      /\ Stays(w, Show(w, [p EXCEPT !.typing = "no"]))
  BY <1>1, <1>4, MarksFit
<1>7. Stays(w, Show(w, [p EXCEPT !.draft = n, !.sel = 0]))
  <2> DEFINE A(m) == Fits(w, [p EXCEPT !.draft = m, !.sel = 0])
  <2>1. \A m \in Nat : A(m)
    BY <1>1, MarksFit
  <2> HIDE DEF A, n
  <2>2. A(n)
    BY <1>3, <2>1
  <2> QED BY <1>4, <2>2 DEF A
<1>8. Stays(w, Show(w, [p EXCEPT !.draft = p.draft, !.sel = p.sel]))
  BY <1>1, <1>4, MarksFit
<1>9. k \notin Pushing \cup {"Backspace"} => n = p.draft
  BY DEF Pushed, Edited, Pushing
<1>10. \/ len > 0 /\ v = Show(w, [p EXCEPT !.sel = s])
       \/ v \in {Show(w, [p EXCEPT !.draft = 0, !.typing = "no", !.sel = 0]), Show(w, [p EXCEPT !.typing = "no"]),
                 Show(w, [p EXCEPT !.draft = n, !.sel = 0])}
       \/ k \notin Pushing \cup {"Backspace"} /\ v = Show(w, [p EXCEPT !.draft = n, !.sel = p.sel])
  BY DEF AnnotFilterKey, MovesTyping
<1> HIDE DEF n, s, len, p
<1> QED BY <1>5, <1>6, <1>7, <1>8, <1>9, <1>10

\* A mark deleted from under the cursor: the cursor stays on a row.
LEMMA DeletedStays ==
    ASSUME NEW w, Popped(w), w.popup.is = "marks", NEW id, NEW live, live = w.live \ {id}, NEW filed
    PROVE  LET p == w.popup
               u == [w EXCEPT !.live = live, !.filed = filed]
               left == Rows(u, p)
           IN  Stays(w, Show(u, [p EXCEPT !.sel = IF @ < left THEN @ ELSE IF left = 0 THEN 0 ELSE left - 1]))
<1> DEFINE p == w.popup
           u == [w EXCEPT !.live = live, !.filed = filed]
           left == Rows(u, p)
           s == IF p.sel < left THEN p.sel ELSE IF left = 0 THEN 0 ELSE left - 1
           q == [p EXCEPT !.sel = s]
           v == Show(u, q)
<1>1. Fits(w, p) /\ w.live \subseteq Marks /\ p.sel \in Nat /\ p.is = "marks"
  BY DEF Popped, Fits
<1>2. w = [popup |-> w.popup, question |-> w.question, parked |-> w.parked, surface |-> w.surface,
           filtering |-> w.filtering, within |-> w.within, draft |-> w.draft, lookup |-> w.lookup,
           walk |-> w.walk, live |-> w.live, filed |-> w.filed, added |-> w.added, large |-> w.large]
      /\ w.draft \in Nat
  BY DEF Popped
<1>3. u = [popup |-> w.popup, question |-> w.question, parked |-> w.parked, surface |-> w.surface,
           filtering |-> w.filtering, within |-> w.within, draft |-> w.draft, lookup |-> w.lookup,
           walk |-> w.walk, live |-> live, filed |-> filed, added |-> w.added, large |-> w.large]
  <2> DEFINE x == [w EXCEPT !.live = live]
  <2>1. u = [x EXCEPT !.filed = filed]
    OBVIOUS
  <2>2. x = [popup |-> w.popup, question |-> w.question, parked |-> w.parked, surface |-> w.surface,
             filtering |-> w.filtering, within |-> w.within, draft |-> w.draft, lookup |-> w.lookup,
             walk |-> w.walk, live |-> live, filed |-> w.filed, added |-> w.added, large |-> w.large]
    BY <1>2
  <2> HIDE DEF x
  <2> QED BY <2>1, <2>2
<1> HIDE DEF u
<1>4. v = [popup |-> q, question |-> w.question, parked |-> w.parked, surface |-> w.surface,
           filtering |-> w.filtering, within |-> w.within, draft |-> w.draft, lookup |-> w.lookup,
           walk |-> w.walk, live |-> live, filed |-> filed, added |-> w.added, large |-> w.large]
  BY <1>3 DEF Show
<1>5. live \subseteq Marks
  BY <1>1
<1>6. left \in Nat
  BY <1>3, <1>5, RowsAreCounted
<1>7. s \in Nat /\ (left > 0 => s < left)
  BY <1>1, <1>6
<1> HIDE DEF s, left
<1>8. /\ Whole(q) /\ q.is = "marks" /\ q.tab = p.tab /\ q.draft = p.draft /\ q.sel = s /\ q.id = p.id
      /\ q.typing = p.typing /\ q.got = p.got
  <2>1. Whole(p)
    BY <1>1 DEF Fits, GoodPopup
  <2>2. Whole(q)
    BY <2>1, OneEdit
  <2>3. p = [is |-> p.is, typing |-> p.typing, draft |-> p.draft, sel |-> p.sel, tab |-> p.tab, id |-> p.id,
             word |-> p.word, got |-> p.got, ticked |-> p.ticked]
    BY <2>1 DEF Whole
  <2> QED BY <1>1, <2>2, <2>3
<1> HIDE DEF q, v
<1>9. Rows(v, q) = left
  <2>1. On(v, q.tab) = On(u, p.tab)
    BY <1>3, <1>4, <1>8 DEF On
  <2>2. Filtered(v, q) = Filtered(u, p)
    BY <1>3, <1>4, <1>8, <2>1 DEF Filtered, InListOrder
  <2> QED BY <1>1, <1>8, <2>2 DEF Rows, left
<1>10. Fits(v, q)
  BY <1>1, <1>7, <1>8, <1>9 DEF Fits, GoodPopup
<1>11. Stays(w, v)
  BY <1>2, <1>4, <1>5, <1>8, <1>10, ListsStay
<1> QED BY <1>11 DEF v, q, s, left, u

\* The list of marks.
LEMMA AnnotKeyStays ==
    ASSUME NEW w, Popped(w), w.popup.is = "marks", w.question = NoQuestion, NEW k, NEW v \in AnnotKey(w, k)
    PROVE  Stays(w, v)
<1> DEFINE p == w.popup
           id == SelectedMark(w, p)
           len == Rows(w, p)
           s == ListNav(k, p.sel, len)
           live == w.live \ {id}
           filed == w.filed \ {id}
           deleted == [w EXCEPT !.live = live, !.filed = filed]
           left == Rows(deleted, p)
           kept == Show(deleted, [p EXCEPT !.sel = IF @ < left THEN @ ELSE IF left = 0 THEN 0 ELSE left - 1])
<1>1. Fits(w, p) /\ w.live \subseteq Marks /\ p.draft \in Nat /\ p.sel \in Nat
  BY DEF Popped, Fits, GoodPopup
<1>2. len \in Nat /\ (len > 0 => p.sel < len)
  BY <1>1, RowsAreCounted DEF Fits
<1>3. len > 0 => s \in Nat /\ s < len
  BY <1>1, <1>2, CursorMoves
<1>4. \A q : Fits(w, q) => Stays(w, Show(w, q))
  BY ShowStays
<1>5. len > 0 => Stays(w, Show(w, [p EXCEPT !.sel = s]))
  <2> DEFINE A(t) == Fits(w, [p EXCEPT !.sel = t])
  <2>1. \A t \in Nat : t < len => A(t)
    BY <1>1, MarksFit
  <2> HIDE DEF A, s
  <2>2. len > 0 => A(s)
    BY <1>3, <2>1
  <2> QED BY <1>4, <2>2 DEF A
<1>6. id \in w.live \cup {NewNote}
  <2>1. len = Len(Filtered(w, p))
    BY DEF Rows
  <2>2. p.sel < len => p.sel + 1 \in 1 .. len
    BY <1>1, <1>2
  <2>3. p.sel < len => id \in On(w, p.tab)
    BY <1>1, <2>1, <2>2, RowsAreCounted DEF SelectedMark
  <2> QED BY <2>1, <2>3 DEF SelectedMark, On
<1>7. \A what, n : n \in Nat => Stays(w, Show(w, [Field("prompt", n) EXCEPT !.id = id, !.word = what]))
  <2> HIDE DEF id
  <2> TAKE what, n
  <2> HAVE n \in Nat
  <2>1. "prompt" \in Fields
    BY DEF Fields
  <2>2. Fits(w, [Field("prompt", n) EXCEPT !.id = id, !.word = what])
    BY <1>6, <2>1, FieldFits
  <2> QED BY <1>4, <2>2
<1>8. Stays(w, Show(w, [p EXCEPT !.typing = "filter"]))
      /\ Stays(w, Show(w, [p EXCEPT !.tab = TabAfter(p.tab), !.sel = 0, !.draft = 0]))
  BY <1>1, <1>4, MarksFit
<1>9. Stays(w, kept)
  BY DeletedStays
<1>10. Stays(w, w) /\ Stays(w, Dismiss(w))
  BY SameStays, DismissStays
<1>11. CASE p.typing = "filter"
  BY <1>11, AnnotFilterKeyStays DEF AnnotKey
<1>12. CASE p.typing # "filter"
  <2> HIDE DEF id
  <2>1. \/ len > 0 /\ v = Show(w, [p EXCEPT !.sel = s])
        \/ v \in {w, Dismiss(w), Show(w, [p EXCEPT !.typing = "filter"]), kept,
                  Show(w, [p EXCEPT !.tab = TabAfter(p.tab), !.sel = 0, !.draft = 0])}
        \/ \E what, n : n \in Nat /\ v = Show(w, [Field("prompt", n) EXCEPT !.id = id, !.word = what])
    <3>1. v \in AnnotKey(w, k)
      OBVIOUS
    <3> QED BY <1>12 DEF AnnotKey, MovesList, id
  <2> HIDE DEF kept, s, len, p
  <2> QED BY <1>5, <1>7, <1>8, <1>9, <1>10, <2>1
<1> QED BY <1>11, <1>12

\* A key of whichever popup is open.
LEMMA PopupKeyStays ==
    ASSUME NEW w, Popped(w), w.question = NoQuestion, w.popup # NoPopup, NEW k, NEW v \in PopupKey(w, k)
    PROVE  /\ Stays(w, v)
           /\ (w.popup.is = "prompt" /\ w.popup.id # NewNote /\ v.popup.is \notin {"prompt", "finder"})
                 => v.popup.is = "marks" /\ SelectedMark(v, v.popup) = w.popup.id
<1> DEFINE is == w.popup.is
<1>1. is \in Windows \cup Fields
  BY DEF Popped, Fits, GoodPopup
<1>2. CASE is = "prompt"
  <2>1. v \in PromptKey(w, k)
    BY <1>2 DEF PopupKey
  <2> QED BY <1>2, <2>1, PromptKeyStays
<1>3. Stays(w, w) /\ Stays(w, Dismiss(w))
  BY SameStays, DismissStays
<1>4. CASE is \in {"settings", "editor", "rename", "shelf", "tags", "duplicates"}
  <2>1. Stays(w, v)
    BY <1>4, SettingsKeyStays, EditorKeyStays, NameKeysStay, DupResolveKeyStays DEF PopupKey
  <2> QED BY <1>4, <2>1
<1>5. CASE is \in {"ignored", "picker", "finder", "marks", "palette"}
  <2>1. Stays(w, v)
    BY <1>5, IgnoredKeyStays, PickerKeyStays, FinderKeyStays, AnnotKeyStays, PaletteKeyStays DEF PopupKey
  <2> QED BY <1>5, <2>1
<1>6. CASE is \in {"help", "lookup", "stats"}
  <2>1. v \in {w, Dismiss(w)}
    BY <1>6 DEF PopupKey
  <2> QED BY <1>3, <1>6, <2>1
<1> QED BY <1>1, <1>2, <1>4, <1>5, <1>6 DEF Windows, Fields

\* The answer to a question.
LEMMA ConfirmKeyStays ==
    ASSUME NEW w, Popped(w), NEW k, NEW v \in ConfirmKey(w, k)
    PROVE  Stays(w, v)
<1> DEFINE u == Ask(w, NoQuestion)
<1>1. Stays(w, u) /\ u.popup = w.popup /\ u.question = NoQuestion
  BY AskStays
<1>2. Popped(u)
  BY <1>1 DEF Stays
<1>3. Stays(w, w) /\ Stays(w, Dismiss(u))
  BY <1>1, <1>2, SameStays, DismissStays, StaysAgain
<1>4. Stays(w, Show(u, Popup("editor")))
  <2>1. Fits(u, Popup("editor"))
    BY OpenedFits DEF Windows
  <2> QED BY <1>1, <1>2, <2>1, ShowStays, StaysAgain
<1>5. \A x \in OpenDupResolve(Dismiss(u)) : Stays(w, x)
  <2>1. Popped(Dismiss(u))
    BY <1>3 DEF Stays
  <2> QED BY <1>3, <2>1, ResolverOpens, StaysAgain
<1>6. v \in {w, u, Dismiss(u), Show(u, Popup("editor"))} \cup OpenDupResolve(Dismiss(u))
  <2>1. CASE k \in {"y", "Enter"}
    <3>1. v \in ConfirmCommit(w)
      BY <2>1 DEF ConfirmKey
    <3> QED BY <3>1 DEF ConfirmCommit
  <2>2. CASE k \notin {"y", "Enter"}
    BY <2>2 DEF ConfirmKey
  <2> QED BY <2>1, <2>2
<1> HIDE DEF u
<1> QED BY <1>1, <1>3, <1>4, <1>5, <1>6

\* What a key aside of the popups changes.
LEMMA AsideEdits ==
    ASSUME NEW w, Popped(w)
    PROVE  /\ \A n \in Nat : Stays(w, [w EXCEPT !.draft = n])
           /\ \A b : Stays(w, [w EXCEPT !.filtering = b, !.draft = 0])
           /\ \A what : Stays(w, Within(w, what)) /\ Within(w, what).question = w.question
           /\ Stays(w, [w EXCEPT !.surface = "reader"])
           /\ \A b : Stays(w, [w EXCEPT !.large = b]) /\ [w EXCEPT !.large = b].popup = w.popup
<1>1. w = [popup |-> w.popup, question |-> w.question, parked |-> w.parked, surface |-> w.surface,
           filtering |-> w.filtering, within |-> w.within, draft |-> w.draft, lookup |-> w.lookup,
           walk |-> w.walk, live |-> w.live, filed |-> w.filed, added |-> w.added, large |-> w.large]
      /\ w.draft \in Nat
  BY DEF Popped
<1>2. \A n \in Nat : Stays(w, [w EXCEPT !.draft = n])
  BY <1>1, AsideStays
<1>3. Stays(w, [w EXCEPT !.surface = "reader"])
  BY <1>1, AsideStays
<1>4. \A b : Stays(w, [w EXCEPT !.large = b]) /\ [w EXCEPT !.large = b].popup = w.popup
  BY <1>1, AsideStays
<1>5. \A b : Stays(w, [w EXCEPT !.filtering = b, !.draft = 0])
  <2> TAKE b
  <2> DEFINE x == [w EXCEPT !.filtering = b]
  <2>1. x = [popup |-> w.popup, question |-> w.question, parked |-> w.parked, surface |-> w.surface,
             filtering |-> b, within |-> w.within, draft |-> w.draft, lookup |-> w.lookup,
             walk |-> w.walk, live |-> w.live, filed |-> w.filed, added |-> w.added, large |-> w.large]
    BY <1>1
  <2>2. [w EXCEPT !.filtering = b, !.draft = 0] = [x EXCEPT !.draft = 0]
    OBVIOUS
  <2> HIDE DEF x
  <2> QED BY <2>1, <2>2, AsideStays
<1>6. \A what : Stays(w, Within(w, what)) /\ Within(w, what).question = w.question
  <2> TAKE what
  <2> DEFINE x == [w EXCEPT !.within = what]
  <2>1. x = [popup |-> w.popup, question |-> w.question, parked |-> w.parked, surface |-> w.surface,
             filtering |-> w.filtering, within |-> what, draft |-> w.draft, lookup |-> w.lookup,
             walk |-> w.walk, live |-> w.live, filed |-> w.filed, added |-> w.added, large |-> w.large]
    BY <1>1
  <2>2. Within(w, what) = [x EXCEPT !.draft = 0]
    BY DEF Within
  <2> HIDE DEF x
  <2> QED BY <2>1, <2>2, AsideStays
<1> QED BY <1>2, <1>3, <1>4, <1>5, <1>6

\* A key of the library.
LEMMA LibraryKeyStays ==
    ASSUME NEW w, Popped(w), w.question = NoQuestion, w.popup = NoPopup, NEW k, NEW v \in LibraryKey(w, k)
    PROVE  Stays(w, v)
<1>1. Stays(w, w) /\ Stays(w, [w EXCEPT !.surface = "reader"])
  BY SameStays, AsideEdits
<1>2. \A b : Stays(w, [w EXCEPT !.filtering = b, !.draft = 0])
  BY AsideEdits
<1>3. Pushed(w.draft, k) \in Nat
  BY TypedIs DEF Popped
<1>4. Stays(w, [w EXCEPT !.draft = Pushed(w.draft, k)])
  BY <1>3, AsideEdits
<1>5. Stays(w, Ask(w, "trash"))
  BY AskStays DEF NoPopup, Popup
<1>6. \A u \in OpenDupResolve(w) : Stays(w, u)
  BY ResolverOpens
<1>7. /\ Stays(w, Show(w, Popup("ignored"))) /\ Stays(w, Show(w, Popup("stats")))
      /\ Stays(w, Show(w, Popup("editor"))) /\ Stays(w, Show(w, Popup("picker")))
  BY OpenedFits, ShowStays DEF Windows
<1>8. /\ Stays(w, Show(w, Field("rename", 1))) /\ Stays(w, Show(w, Field("shelf", 1)))
      /\ Stays(w, Show(w, Field("tags", 1))) /\ Stays(w, Show(w, [Field("shelf", 0) EXCEPT !.word = "new"]))
  BY FieldFits, ShowStays DEF Fields
<1>9. \/ v \in {w, [w EXCEPT !.surface = "reader"], [w EXCEPT !.draft = Pushed(w.draft, k)], Ask(w, "trash")}
                   \cup OpenDupResolve(w)
      \/ \E b : v = [w EXCEPT !.filtering = b, !.draft = 0]
      \/ v \in {Show(w, Popup("ignored")), Show(w, Popup("stats")), Show(w, Popup("editor")), Show(w, Popup("picker")),
                Show(w, Field("rename", 1)), Show(w, Field("shelf", 1)), Show(w, Field("tags", 1)),
                Show(w, [Field("shelf", 0) EXCEPT !.word = "new"])}
  <2>1. CASE w.filtering
    BY <2>1 DEF LibraryKey
  <2>2. CASE ~ w.filtering
    BY <2>2 DEF LibraryKey, OpensBook
  <2> QED BY <2>1, <2>2
<1> QED BY <1>1, <1>2, <1>4, <1>5, <1>6, <1>7, <1>8, <1>9

\* Looking a word up, remembered or not.
LEMMA LookupStays ==
    ASSUME NEW w, Popped(w), NEW word
    PROVE  Stays(w, OpenWordLookup(w, word))
<1> DEFINE q == [Popup("lookup") EXCEPT !.word = word]
           x == [w EXCEPT !.popup = q]
           v == OpenWordLookup(w, word)
<1>1. w = [popup |-> w.popup, question |-> w.question, parked |-> w.parked, surface |-> w.surface,
           filtering |-> w.filtering, within |-> w.within, draft |-> w.draft, lookup |-> w.lookup,
           walk |-> w.walk, live |-> w.live, filed |-> w.filed, added |-> w.added, large |-> w.large]
      /\ w.draft \in Nat /\ w.live \subseteq Marks
  BY DEF Popped
<1>2. x = [popup |-> q, question |-> w.question, parked |-> w.parked, surface |-> w.surface,
           filtering |-> w.filtering, within |-> w.within, draft |-> w.draft, lookup |-> w.lookup,
           walk |-> w.walk, live |-> w.live, filed |-> w.filed, added |-> w.added, large |-> w.large]
  BY <1>1
<1>3. v = [x EXCEPT !.lookup = [word |-> word, done |-> FALSE]]
  BY DEF OpenWordLookup
<1>4. Whole(q) /\ q.is = "lookup" /\ q.word = word /\ q.got = NoWord /\ q.sel = 0 /\ q.draft = 0 /\ q.typing = "no"
  <2>1. Whole(Popup("lookup"))
    BY DEF Whole, Popup
  <2> QED BY <2>1, OneEdit DEF Popup
<1> HIDE DEF q, x, v
<1>5. v = [popup |-> q, question |-> w.question, parked |-> w.parked, surface |-> w.surface,
           filtering |-> w.filtering, within |-> w.within, draft |-> w.draft,
           lookup |-> [word |-> word, done |-> FALSE],
           walk |-> w.walk, live |-> w.live, filed |-> w.filed, added |-> w.added, large |-> w.large]
  BY <1>2, <1>3
<1>6. Fits(v, q)
  BY <1>4, <1>5 DEF Fits, GoodPopup, Windows, Fields
<1>7. Stays(w, v)
  BY <1>1, <1>4, <1>5, <1>6, ListsStay
<1> QED BY <1>7 DEF v

\* A key of the reader.
LEMMA ReaderKeysStay ==
    ASSUME NEW w, Popped(w), w.question = NoQuestion, w.popup = NoPopup, NEW k,
           NEW v \in ReaderWithinKey(w, k)
    PROVE  Stays(w, v)
<1>1. Stays(w, w) /\ Stays(w, Within(w, "no")) /\ Popped(Within(w, "no"))
      /\ Within(w, "no").question = NoQuestion
  BY SameStays, AsideEdits DEF Stays
<1>2. Pushed(w.draft, k) \in Nat /\ Edited(w.draft, k) \in Nat
  BY TypedIs DEF Popped
<1>3. Stays(w, [w EXCEPT !.draft = Pushed(w.draft, k)]) /\ Stays(w, [w EXCEPT !.draft = Edited(w.draft, k)])
  BY <1>2, AsideEdits
<1>4. \A word : Stays(w, OpenWordLookup(w, word))
  BY LookupStays
<1>5. Stays(w, Show(Within(w, "no"), Field("prompt", 0)))
  <2>1. Fits(Within(w, "no"), Field("prompt", 0))
    BY FieldFits DEF Fields
  <2> QED BY <1>1, <2>1, ShowStays, StaysAgain
<1>6. \/ v \in {w, Within(w, "no"), [w EXCEPT !.draft = Pushed(w.draft, k)], [w EXCEPT !.draft = Edited(w.draft, k)],
                Show(Within(w, "no"), Field("prompt", 0))}
      \/ \E word : v = OpenWordLookup(w, word)
  <2>1. CASE w.within = "search"
    BY <2>1 DEF ReaderWithinKey, SearchKey
  <2>2. CASE w.within = "contents"
    BY <2>2 DEF ReaderWithinKey, SidebarFilterKey
  <2>3. CASE w.within = "selection"
    <3>1. v \in VisualKey(w, k)
      BY <2>3 DEF ReaderWithinKey
    <3> QED BY <3>1 DEF VisualKey
  <2>4. CASE w.within \notin {"search", "contents", "selection"}
    BY <2>4 DEF ReaderWithinKey, HintKey
  <2> QED BY <2>1, <2>2, <2>3, <2>4
<1> QED BY <1>1, <1>3, <1>4, <1>5, <1>6

\* Where a step may lead: everything in order, a prompt back at its mark, the library under its resolver.
Leads(w, v) ==
    /\ Popped(v)
    /\ (w.popup.is = "prompt" /\ w.popup.id # NewNote /\ v.popup.is \notin {"prompt", "finder"})
          => v.popup.is = "marks" /\ SelectedMark(v, v.popup) = w.popup.id
    /\ (w.surface = "reader" /\ v.surface = "library" /\ w.parked # NoPopup)
          => v.popup = w.parked /\ v.parked = NoPopup

\* What keeps everything in order and leaves no prompt leads rightly.
LEMMA StaysLeads ==
    ASSUME NEW w, NEW v, Stays(w, v), w.popup.is # "prompt" \/ v.popup = w.popup
    PROVE  Leads(w, v)
<1>1. w.surface = "reader" => v.surface = "reader"
  BY DEF Stays
<1> QED BY <1>1 DEF Leads, Stays

\* Leaving the reader: the parked resolver is open again, as it was parked.
LEMMA ReturnLeads ==
    ASSUME NEW w, Popped(w), w.popup = NoPopup
    PROVE  Leads(w, Return(w))
<1> DEFINE q == IF w.parked # NoPopup THEN w.parked ELSE w.popup
           x1 == [w EXCEPT !.surface = "library"]
           x2 == [x1 EXCEPT !.within = "no"]
           x3 == [x2 EXCEPT !.draft = 0]
           x4 == [x3 EXCEPT !.parked = NoPopup]
           v == Return(w)
<1>1. w = [popup |-> w.popup, question |-> w.question, parked |-> w.parked, surface |-> w.surface,
           filtering |-> w.filtering, within |-> w.within, draft |-> w.draft, lookup |-> w.lookup,
           walk |-> w.walk, live |-> w.live, filed |-> w.filed, added |-> w.added, large |-> w.large]
      /\ w.live \subseteq Marks
  BY DEF Popped
<1>2. x1 = [popup |-> w.popup, question |-> w.question, parked |-> w.parked, surface |-> "library",
            filtering |-> w.filtering, within |-> w.within, draft |-> w.draft, lookup |-> w.lookup,
            walk |-> w.walk, live |-> w.live, filed |-> w.filed, added |-> w.added, large |-> w.large]
  BY <1>1
<1>3. v = [x4 EXCEPT !.popup = q]
  BY <1>1 DEF Return
<1> HIDE DEF x1
<1>4. x2 = [popup |-> w.popup, question |-> w.question, parked |-> w.parked, surface |-> "library",
            filtering |-> w.filtering, within |-> "no", draft |-> w.draft, lookup |-> w.lookup,
            walk |-> w.walk, live |-> w.live, filed |-> w.filed, added |-> w.added, large |-> w.large]
  BY <1>2
<1> HIDE DEF x2
<1>5. x3 = [popup |-> w.popup, question |-> w.question, parked |-> w.parked, surface |-> "library",
            filtering |-> w.filtering, within |-> "no", draft |-> 0, lookup |-> w.lookup,
            walk |-> w.walk, live |-> w.live, filed |-> w.filed, added |-> w.added, large |-> w.large]
  BY <1>4
<1> HIDE DEF x3
<1>6. x4 = [popup |-> w.popup, question |-> w.question, parked |-> NoPopup, surface |-> "library",
            filtering |-> w.filtering, within |-> "no", draft |-> 0, lookup |-> w.lookup,
            walk |-> w.walk, live |-> w.live, filed |-> w.filed, added |-> w.added, large |-> w.large]
  BY <1>5
<1> HIDE DEF x4
<1>7. v = [popup |-> q, question |-> w.question, parked |-> NoPopup, surface |-> "library",
           filtering |-> w.filtering, within |-> "no", draft |-> 0, lookup |-> w.lookup,
           walk |-> w.walk, live |-> w.live, filed |-> w.filed, added |-> w.added, large |-> w.large]
  BY <1>3, <1>6
<1> HIDE DEF v
<1>8. Fits(v, q) /\ q.is # "prompt"
  <2>1. CASE w.parked = NoPopup
    <3>1. q = Popup("none") /\ Popup("none").is # "prompt"
      BY <2>1 DEF NoPopup, Popup
    <3> QED BY <3>1, OpenedFits
  <2>2. CASE w.parked # NoPopup
    <3>1. Parks(q)
      BY <2>2 DEF Popped
    <3>2. q.is = "duplicates" /\ Rows(v, q) = 2
      BY <3>1 DEF Rows, Parks
    <3> QED BY <3>1, <3>2 DEF Fits, Parks
  <2> QED BY <2>1, <2>2
<1>9. Popped(v)
  <2> HIDE DEF q
  <2> QED BY <1>1, <1>7, <1>8 DEF Popped
<1>10. w.popup.is # "prompt"
  BY DEF NoPopup, Popup
<1> QED BY <1>7, <1>9, <1>10 DEF Leads, v

\* A key of the reader, which may leave it.
LEMMA ReaderKeyLeads ==
    ASSUME NEW w, Popped(w), w.question = NoQuestion, w.popup = NoPopup, NEW k, NEW v \in ReaderKey(w, k)
    PROVE  Leads(w, v)
<1>1. w.popup.is # "prompt"
  BY DEF NoPopup, Popup
<1>2. \A u : Stays(w, u) => Leads(w, u)
  BY <1>1, StaysLeads
<1>3. Stays(w, w) /\ Stays(w, Ask(w, "link")) /\ \A what : Stays(w, Within(w, what))
  BY <1>1, SameStays, AskStays, AsideEdits
<1>4. Stays(w, Show(w, Field("prompt", 0))) /\ Stays(w, Show(w, Popup("marks")))
  BY FieldFits, OpenedFits, ShowStays DEF Fields, Windows
<1>5. Leads(w, Return(w))
  BY ReturnLeads
<1>6. \/ v \in {Return(w), w, Ask(w, "link"), Show(w, Field("prompt", 0)), Show(w, Popup("marks"))}
      \/ \E what : v = Within(w, what)
  <2>1. CASE k = "q" \/ (k = "Esc" /\ w.parked # NoPopup)
    BY <2>1 DEF ReaderKey
  <2>2. CASE ~ (k = "q" \/ (k = "Esc" /\ w.parked # NoPopup))
    BY <2>2 DEF ReaderKey
  <2> QED BY <2>1, <2>2
<1> QED BY <1>2, <1>3, <1>4, <1>5, <1>6

\* Any key, wherever it goes: the question, the popup, the library or the reader.
LEMMA KeyLeads ==
    ASSUME NEW w, Popped(w), NEW k, NEW v \in OnKey(w, k)
    PROVE  Leads(w, v)
<1>1. CASE w.question # NoQuestion
  <2>1. v \in ConfirmKey(w, k)
    BY <1>1 DEF OnKey
  <2>2. w.popup.is # "prompt"
    BY <1>1 DEF Popped
  <2> QED BY <2>1, <2>2, ConfirmKeyStays, StaysLeads
<1>2. CASE w.question = NoQuestion /\ Resizes(w, k)
  <2>1. v = [w EXCEPT !.large = ~ w.large]
    BY <1>2 DEF OnKey
  <2>2. Stays(w, v) /\ v.popup = w.popup
    BY <2>1, AsideEdits
  <2> QED BY <2>2, StaysLeads
<1>3. CASE w.question = NoQuestion /\ ~ Resizes(w, k) /\ w.popup # NoPopup
  <2>1. v \in PopupKey(w, k)
    BY <1>3 DEF OnKey
  <2>2. /\ Stays(w, v)
        /\ (w.popup.is = "prompt" /\ w.popup.id # NewNote /\ v.popup.is \notin {"prompt", "finder"})
              => v.popup.is = "marks" /\ SelectedMark(v, v.popup) = w.popup.id
    BY <1>3, <2>1, PopupKeyStays
  <2>3. w.surface = "reader" => v.surface = "reader"
    BY <2>2 DEF Stays
  <2> QED BY <2>2, <2>3 DEF Leads, Stays
<1>4. CASE w.question = NoQuestion /\ ~ Resizes(w, k) /\ w.popup = NoPopup
  <2>1. \A u : Stays(w, u) => Leads(w, u)
    BY <1>4, StaysLeads DEF NoPopup, Popup
  <2>2. /\ Stays(w, Show(w, Field("palette", 0))) /\ Stays(w, Show(w, Popup("help")))
        /\ Stays(w, Show(w, Popup("settings")))
    BY <1>4, FieldFits, OpenedFits, ShowStays DEF Fields, Windows
  <2>3. \/ v \in ReaderWithinKey(w, k)
        \/ v \in {Show(w, Field("palette", 0)), Show(w, Popup("help")), Show(w, Popup("settings"))}
        \/ v \in ReaderKey(w, k)
        \/ v \in LibraryKey(w, k)
    <3>1. CASE w.surface = "reader" /\ w.within # "no"
      BY <1>4, <3>1 DEF OnKey
    <3>2. CASE ~ (w.surface = "reader" /\ w.within # "no") /\ w.surface = "library" /\ k = ":"
      BY <1>4, <3>2 DEF OnKey
    <3>3. CASE ~ (w.surface = "reader" /\ w.within # "no") /\ ~ (w.surface = "library" /\ k = ":")
      BY <1>4, <3>3 DEF OnKey
    <3> QED BY <3>1, <3>2, <3>3
  <2>4. CASE v \in ReaderWithinKey(w, k)
    BY <1>4, <2>1, <2>4, ReaderKeysStay
  <2>5. CASE v \in LibraryKey(w, k)
    BY <1>4, <2>1, <2>5, LibraryKeyStays
  <2>6. CASE v \in ReaderKey(w, k)
    BY <1>4, <2>6, ReaderKeyLeads
  <2> QED BY <2>1, <2>2, <2>3, <2>4, <2>5, <2>6
<1> QED BY <1>1, <1>2, <1>3, <1>4

\* An answer that comes in from a thread, to whatever is open by then.
LEMMA AnswersLead ==
    ASSUME Popped(app), LookupAnswers \/ PollDefine \/ WalkEnds \/ PollDiscover
    PROVE  Leads(app, app')
<1>1. app = [popup |-> app.popup, question |-> app.question, parked |-> app.parked, surface |-> app.surface,
             filtering |-> app.filtering, within |-> app.within, draft |-> app.draft, lookup |-> app.lookup,
             walk |-> app.walk, live |-> app.live, filed |-> app.filed, added |-> app.added, large |-> app.large]
      /\ app.draft \in Nat /\ app.live \subseteq Marks /\ Fits(app, app.popup)
  BY DEF Popped
<1>2. CASE LookupAnswers
  <2> DEFINE lookup == [app.lookup EXCEPT !.done = TRUE]
             v == [app EXCEPT !.lookup = lookup]
  <2>1. app' = v
    BY <1>1, <1>2 DEF LookupAnswers
  <2> HIDE DEF lookup
  <2>2. v = [popup |-> app.popup, question |-> app.question, parked |-> app.parked, surface |-> app.surface,
             filtering |-> app.filtering, within |-> app.within, draft |-> app.draft, lookup |-> lookup,
             walk |-> app.walk, live |-> app.live, filed |-> app.filed, added |-> app.added, large |-> app.large]
    BY <1>1
  <2> HIDE DEF v
  <2>3. Rows(v, app.popup) = Rows(app, app.popup)
    BY <2>2 DEF Rows, Filtered, InListOrder, On
  <2>4. lookup.word = app.lookup.word
    BY DEF lookup
  <2>5. Fits(v, app.popup)
    BY <1>1, <2>2, <2>3, <2>4 DEF Fits
  <2>6. Stays(app, v)
    BY <1>1, <2>2, <2>5, ListsStay DEF Popped
  <2>7. Leads(app, v)
    BY <2>2, <2>6, StaysLeads
  <2> QED BY <2>1, <2>7
<1>3. CASE PollDefine
  <2> DEFINE q == IF app.popup.is = "lookup" THEN [app.popup EXCEPT !.got = app.lookup.word] ELSE app.popup
             x == [app EXCEPT !.lookup = NoLookup]
             v == [x EXCEPT !.popup = q]
  <2>1. app' = v
    BY <1>1, <1>3 DEF PollDefine
  <2>2. x = [popup |-> app.popup, question |-> app.question, parked |-> app.parked, surface |-> app.surface,
             filtering |-> app.filtering, within |-> app.within, draft |-> app.draft, lookup |-> NoLookup,
             walk |-> app.walk, live |-> app.live, filed |-> app.filed, added |-> app.added, large |-> app.large]
    BY <1>1
  <2>3. Fits(app, q) /\ q.is = app.popup.is /\ (q.is = "lookup" => q.got \in {NoWord, q.word})
    <3> DEFINE p == app.popup
    <3>1. CASE p.is = "lookup"
      <4>1. p = [is |-> p.is, typing |-> p.typing, draft |-> p.draft, sel |-> p.sel, tab |-> p.tab, id |-> p.id,
                 word |-> p.word, got |-> p.got, ticked |-> p.ticked]
        BY <1>1 DEF Fits, GoodPopup, Whole
      <4>2. q = [is |-> p.is, typing |-> p.typing, draft |-> p.draft, sel |-> p.sel, tab |-> p.tab, id |-> p.id,
                 word |-> p.word, got |-> app.lookup.word, ticked |-> p.ticked]
        BY <3>1, <4>1
      <4> HIDE DEF q
      <4>3. Rows(app, q) = 0 /\ app.lookup.word \in {NoWord, p.word}
        BY <1>1, <3>1, <4>2 DEF Rows, Fits
      <4> QED BY <1>1, <3>1, <4>2, <4>3 DEF Fits, GoodPopup, Whole, Windows, Fields
    <3>2. CASE p.is # "lookup"
      BY <1>1, <3>2
    <3> QED BY <3>1, <3>2
  <2> HIDE DEF q, x
  <2>4. v = [popup |-> q, question |-> app.question, parked |-> app.parked, surface |-> app.surface,
             filtering |-> app.filtering, within |-> app.within, draft |-> app.draft, lookup |-> NoLookup,
             walk |-> app.walk, live |-> app.live, filed |-> app.filed, added |-> app.added, large |-> app.large]
    BY <2>2
  <2> HIDE DEF v
  <2>5. Rows(v, q) = Rows(app, q)
    BY <2>4 DEF Rows, Filtered, InListOrder, On
  <2>6. Fits(v, q)
    BY <2>3, <2>4, <2>5 DEF Fits, NoLookup
  <2>7. Stays(app, v)
    BY <1>1, <2>3, <2>4, <2>6, ListsStay DEF Popped
  <2>8. app.popup.is = "prompt" => q = app.popup
    BY DEF q
  <2>9. Leads(app, v)
    BY <2>4, <2>7, <2>8, StaysLeads
  <2> QED BY <2>1, <2>9
<1>4. ASSUME NEW walk PROVE Stays(app, [app EXCEPT !.walk = walk])
  BY <1>1, AsideStays
<1>5. CASE WalkEnds
  <2>1. app' = [app EXCEPT !.walk = "done"]
    BY <1>5 DEF WalkEnds
  <2>2. app'.popup = app.popup
    BY <1>1, <2>1
  <2> QED BY <1>4, <2>1, <2>2, StaysLeads
<1>6. CASE PollDiscover
  <2> DEFINE w == [app EXCEPT !.walk = "no"]
             q == [Popup("finder") EXCEPT !.ticked = Range(PopFolders)]
  <2>1. app' = w \/ app' = Show(w, q)
    BY <1>6 DEF PollDiscover
  <2>2. Stays(app, w) /\ w.popup = app.popup /\ Popped(w) /\ w.surface = app.surface
    BY <1>1, <1>4 DEF Stays
  <2> HIDE DEF w
  <2>3. Fits(w, q) /\ q.is = "finder"
    <3>1. Whole(Popup("finder"))
      BY DEF Whole, Popup
    <3>2. Whole(q) /\ q.is = "finder" /\ q.typing = "no" /\ q.draft = 0 /\ q.sel = 0 /\ q.got = NoWord
      BY <3>1, OneEdit DEF Popup
    <3> HIDE DEF q
    <3>3. Rows(w, q) > 0 => q.sel < Rows(w, q)
      BY <3>2
    <3> QED BY <3>2, <3>3 DEF Fits, GoodPopup, Windows, Fields
  <2> HIDE DEF q
  <2>4. Stays(app, Show(w, q))
    BY <2>2, <2>3, ShowStays, StaysAgain
  <2>5. Show(w, q).popup = q
    BY <2>2 DEF Show, Popped
  <2>6. Leads(app, Show(w, q))
    <3>1. app.surface = "reader" => Show(w, q).surface = "reader"
      BY <2>4 DEF Stays
    <3> QED BY <2>3, <2>4, <2>5, <3>1 DEF Leads, Stays
  <2>7. Leads(app, w)
    BY <2>2, StaysLeads
  <2> QED BY <2>1, <2>6, <2>7
<1> QED BY <1>2, <1>3, <1>5, <1>6

\* A click or a turn of the wheel.
LEMMA ClicksLead ==
    ASSUME Popped(app), app.question = NoQuestion,
           \/ \E i \in 0 .. 2, double \in BOOLEAN : ClickRow(i, double)
           \/ \E tab \in Range(Tabs) : ClickTab(tab)
           \/ \E k \in Moves : WheelList(k)
           \/ ClickElsewhere \/ ClickBook
    PROVE  Leads(app, app')
<1> DEFINE p == app.popup
           len == Rows(app, p)
<1>1. Fits(app, p) /\ app.live \subseteq Marks /\ p.sel \in Nat
  BY DEF Popped, Fits
<1>2. len \in Nat /\ (len > 0 => p.sel < len)
  BY <1>1, RowsAreCounted DEF Fits
<1>3. len > 0 => p.is \notin {"none", "prompt"}
  BY DEF Rows
<1>4. \A q : Fits(app, q) => Stays(app, Show(app, q))
  BY ShowStays
<1>5. ASSUME NEW s \in Nat, s < len
      PROVE  Fits(app, [p EXCEPT !.sel = s])
  <2>1. CASE p.is = "marks"
    BY <1>1, <1>5, <2>1, MarksFit
  <2>2. CASE p.is # "marks"
    <3> DEFINE A(t) == Fits(app, [p EXCEPT !.sel = t])
    <3>1. p.is # "none"
      BY <1>2, <1>3, <1>5
    <3>2. \A t \in Nat : t < len => A(t)
      BY <1>1, <2>2, <3>1, EditsFit
    <3> HIDE DEF A
    <3>3. A(s)
      BY <1>5, <3>2
    <3> QED BY <3>3, Zenon DEF A
  <2> QED BY <2>1, <2>2
<1>6. ASSUME NEW i \in 0 .. 2, NEW double \in BOOLEAN, ClickRow(i, double) PROVE Leads(app, app')
  <2> DEFINE u == RowClicked(app, i)
  <2>1. i \in Nat /\ i < len
    BY <1>6 DEF ClickRow
  <2>2. Stays(app, u)
    BY <1>4, <1>5, <2>1 DEF RowClicked
  <2>3. Popped(u) /\ u.question = NoQuestion /\ u.popup.is = p.is
    <3>1. u.question = NoQuestion /\ u.popup = [p EXCEPT !.sel = i]
      BY DEF RowClicked, Show, Popped
    <3> QED BY <1>1, <2>2, <3>1 DEF Stays, Fits, GoodPopup, Whole
  <2>4. p.is # "prompt"
    BY <1>2, <1>3, <2>1
  <2>5. \A v \in RowActivated(u) : Stays(u, v)
    <3> HIDE DEF u
    <3>1. Stays(u, u) /\ Stays(u, Dismiss(u)) /\ \A v \in PaletteRuns(u) : Stays(u, v)
      BY <2>3, SameStays, DismissStays, PaletteRunStays
    <3>2. \A v \in IgnoredKey(u, "Enter") : Stays(u, v)
      BY <2>3, IgnoredKeyStays
    <3>3. CASE u.popup.is = "finder"
      <4>1. RowActivated(u) = FinderKey(u, " ")
        BY <3>3 DEF RowActivated
      <4> QED BY <2>3, <3>3, <4>1, FinderKeyStays
    <3>4. CASE u.popup.is = "picker"
      <4>1. Fits(u, u.popup) /\ u.popup.is \notin {"none", "marks"}
        BY <2>3, <3>4 DEF Popped
      <4>2. Stays(u, Show(u, [u.popup EXCEPT !.typing = "field", !.draft = 0]))
        BY <2>3, <3>4, <4>1, EditsFit, ShowStays
      <4> QED BY <3>1, <3>4, <4>2 DEF RowActivated
    <3>5. CASE u.popup.is \notin {"finder", "picker"}
      BY <3>1, <3>2, <3>5 DEF RowActivated
    <3> QED BY <3>3, <3>4, <3>5
  <2>6. Stays(app, app')
    BY <1>6, <2>2, <2>5, StaysAgain DEF ClickRow
  <2> QED BY <2>4, <2>6, StaysLeads
<1>7. ASSUME NEW tab \in Range(Tabs), ClickTab(tab) PROVE Leads(app, app')
  <2>1. p.is = "marks" /\ app' = Show(app, [p EXCEPT !.tab = tab, !.sel = 0, !.draft = 0])
    BY <1>7 DEF ClickTab
  <2>2. Fits(app, [p EXCEPT !.tab = tab, !.sel = 0, !.draft = 0])
    BY <1>1, <2>1, MarksFit
  <2>3. Stays(app, app')
    BY <1>4, <2>1, <2>2
  <2> QED BY <2>1, <2>3, StaysLeads
<1>8. ASSUME NEW k \in Moves, WheelList(k) PROVE Leads(app, app')
  <2> DEFINE s == ListTyping(k, p.sel, len)
  <2>1. len > 0 /\ app' = Show(app, [p EXCEPT !.sel = s])
    BY <1>8 DEF WheelList
  <2>2. s \in Nat /\ s < len
    BY <1>1, <1>2, <2>1, CursorMoves
  <2> HIDE DEF s
  <2>3. Stays(app, app')
    BY <1>4, <1>5, <2>1, <2>2
  <2> QED BY <1>3, <2>1, <2>3, StaysLeads
<1>9. ASSUME ClickElsewhere \/ ClickBook PROVE Leads(app, app')
  <2>1. p.is # "prompt"
    BY <1>9 DEF ClickElsewhere, ClickBook, NoPopup, Popup
  <2>2. Stays(app, app')
    BY <1>9, DismissStays, SameStays, AsideEdits DEF ClickElsewhere, ClickBook, OpensBook
  <2> QED BY <2>1, <2>2, StaysLeads
<1> QED BY <1>6, <1>7, <1>8, <1>9

\* Every step leads rightly.
LEMMA StepLeads ==
    ASSUME Popped(app), PopNext
    PROVE  Leads(app, app')
<1>1. CASE \E k \in Keys : Strike /\ Press(k)
  BY <1>1, KeyLeads DEF Press
<1>2. CASE UNCHANGED struck /\ (LookupAnswers \/ PollDefine \/ WalkEnds \/ PollDiscover)
  BY <1>2, AnswersLead
<1>3. CASE \/ \E i \in 0 .. 2, double \in BOOLEAN : Strike /\ ClickRow(i, double)
           \/ \E tab \in Range(Tabs) : Strike /\ ClickTab(tab)
           \/ \E k \in Moves : Strike /\ WheelList(k)
           \/ Strike /\ (ClickElsewhere \/ ClickBook)
  <2>1. app.question = NoQuestion
    BY <1>3 DEF ClickRow, ClickTab, WheelList, ClickElsewhere, ClickBook
  <2> QED BY <1>3, <2>1, ClicksLead
<1> QED BY <1>1, <1>2, <1>3 DEF PopNext

\* Over any run the popup in sight fits the lists behind it, and what is parked can come back.
THEOREM PopupsInvariance == PopSpec => []Popped(app)
<1>1. PopInit => Popped(app)
  <2> SUFFICES ASSUME PopInit PROVE Popped(app)
    OBVIOUS
  <2>1. app = [popup |-> NoPopup, question |-> NoQuestion, parked |-> NoPopup, surface |-> "library",
               filtering |-> FALSE, within |-> "no", draft |-> 0, lookup |-> NoLookup, walk |-> "no",
               live |-> PopHeld, filed |-> {}, added |-> {}, large |-> FALSE]
    BY DEF PopInit
  <2>2. Fits(app, NoPopup)
    BY OpenedFits DEF NoPopup
  <2> QED BY <2>1, <2>2, MarksAre DEF Popped
<1>2. Popped(app) /\ [PopNext]_popVars => Popped(app)'
  <2> SUFFICES ASSUME Popped(app), [PopNext]_popVars PROVE Popped(app')
    OBVIOUS
  <2>1. CASE PopNext
    BY <2>1, StepLeads DEF Leads
  <2>2. CASE UNCHANGED popVars
    <3>1. app' = app
      BY <2>2 DEF popVars
    <3> QED BY <3>1
  <2> QED BY <2>1, <2>2
<1> QED BY <1>1, <1>2, PTL DEF PopSpec

\* What the invariant says of the popup in sight and of the parked one.
LEMMA PoppedIs ==
    ASSUME NEW w, Popped(w)
    PROVE  /\ w.parked # NoPopup => w.surface = "reader" /\ w.parked.is = "duplicates"
           /\ w.popup.got \in {NoWord, w.popup.word}
           /\ Rows(w, w.popup) > 0 => w.popup.sel < Rows(w, w.popup)
BY DEF Popped, Fits, Parks

\* The popups return: a note under edit ends on its mark in the list, a preview ends on the
\* resolver as it was left, an answer is of the word in sight, and a list keeps its cursor.
THEOREM PopupsComeBack == PopSpec => PopupsReturn
<1>1. Popped(app) => ParkedWhileReading /\ AnswerOfTheWord /\ CursorOnTheList
  BY PoppedIs DEF ParkedWhileReading, AnswerOfTheWord, CursorOnTheList
<1>2. Popped(app) /\ [PopNext]_popVars => [PromptReturns /\ PreviewReturns]_popVars
  <2> SUFFICES ASSUME Popped(app), PopNext PROVE PromptReturns /\ PreviewReturns
    OBVIOUS
  <2>1. Leads(app, app')
    BY StepLeads
  <2> QED BY <2>1 DEF Leads, PromptReturns, PreviewReturns
<1>3. PopSpec => []Popped(app)
  BY PopupsInvariance
<1> QED BY <1>1, <1>2, <1>3, PTL DEF PopSpec, PopupsReturn

\* A letter is a letter: it grows the text, and is no command of a field.
LEMMA LettersGrow ==
    ASSUME NEW n \in Nat, NEW k \in Letters
    PROVE  Edited(n, k) = n + 1 /\ Pushed(n, k) = n + 1 /\ k \in Pushing
           /\ k \notin {"Esc", "Enter", "Tab", "Ctrl-s", "Down", "Up"}
BY DEF Letters, Edited, Pushed, Pushing

\* The key of a popup that types grows its text by a letter and changes nothing else.
LEMMA FieldTakes ==
    ASSUME Popped(app), app.popup.typing # "no", NEW k \in Letters, ~ TakenFromTheField(app, k),
           app' \in PopupKey(app, k)
    PROVE  app' = [app EXCEPT !.popup.draft = @ + 1, !.popup.sel = app'.popup.sel]
<1> DEFINE p == app.popup
<1>1. GoodPopup(p)
  BY DEF Popped, Fits
<1>2. Edited(p.draft, k) = p.draft + 1 /\ Pushed(p.draft, k) = p.draft + 1 /\ k \in Pushing
      /\ k \notin {"Esc", "Enter", "Tab", "Ctrl-s", "Down", "Up"} /\ k \notin Moves
  BY <1>1, LettersGrow DEF GoodPopup, Moves
<1>3. \A len : ~ MovesTyping(k, len)
  BY <1>2 DEF MovesTyping
<1>4. p.draft + 1 # p.draft
  BY <1>1 DEF GoodPopup
<1> DEFINE Takes(q) == app' = Show(app, q)
           same == [p EXCEPT !.draft = p.draft + 1]
           first == [p EXCEPT !.draft = p.draft + 1, !.sel = 0]
<1>5. p.is \in Fields \cup {"picker", "editor", "settings", "marks"}
  BY <1>1 DEF GoodPopup
<1>6. ASSUME p.is = "settings" PROVE Takes(same) \/ Takes(first)
  <2>1. app' \in SettingsKey(app, k)
    BY <1>6 DEF PopupKey
  <2> QED BY <1>1, <1>2, <1>6, <2>1 DEF SettingsKey, FieldEdited, GoodPopup
<1>7. ASSUME p.is = "prompt" PROVE Takes(same) \/ Takes(first)
  <2>1. app' \in PromptKey(app, k)
    BY <1>7 DEF PopupKey
  <2> QED BY <1>2, <2>1 DEF PromptKey
<1>8. ASSUME p.is = "editor" PROVE Takes(same) \/ Takes(first)
  <2>1. app' \in EditorKey(app, k)
    BY <1>8 DEF PopupKey
  <2> QED BY <1>1, <1>2, <1>8, <2>1 DEF EditorKey, FieldEdited, GoodPopup, Fields
<1>9. ASSUME p.is = "rename" PROVE Takes(same) \/ Takes(first)
  <2>1. app' \in BulkRenameKey(app, k)
    BY <1>9 DEF PopupKey
  <2> QED BY <1>2, <2>1 DEF BulkRenameKey
<1>10. ASSUME p.is = "shelf" PROVE Takes(same) \/ Takes(first)
  <2>1. app' \in CollEditKey(app, k)
    BY <1>10 DEF PopupKey
  <2> QED BY <1>2, <2>1 DEF CollEditKey
<1>11. ASSUME p.is = "tags" PROVE Takes(same) \/ Takes(first)
  <2>1. app' \in TagEditKey(app, k)
    BY <1>11 DEF PopupKey
  <2> QED BY <1>2, <2>1 DEF TagEditKey
<1>12. ASSUME p.is = "picker" PROVE Takes(same) \/ Takes(first)
  <2>1. app' \in ShelfPickerKey(app, k)
    BY <1>12 DEF PopupKey
  <2> QED BY <1>1, <1>2, <1>12, <2>1 DEF ShelfPickerKey, GoodPopup, Fields
<1>13. ASSUME p.is = "marks" PROVE Takes(same) \/ Takes(first)
  <2>1. app' \in AnnotKey(app, k) /\ p.typing = "filter"
    BY <1>1, <1>13 DEF PopupKey, GoodPopup, Fields
  <2>2. app' \in AnnotFilterKey(app, k)
    BY <2>1 DEF AnnotKey
  <2>3. Takes(first)
    BY <1>2, <1>3, <2>2 DEF AnnotFilterKey
  <2> QED BY <2>3
<1>14. ASSUME p.is = "palette" PROVE Takes(same) \/ Takes(first)
  <2>1. app' \in PaletteKey(app, k)
    BY <1>14 DEF PopupKey
  <2>2. Takes(first)
    BY <1>2, <1>3, <1>4, <2>1 DEF PaletteKey
  <2> QED BY <2>2
<1>15. ASSUME Takes(same) \/ Takes(first)
       PROVE  app' = [app EXCEPT !.popup.draft = @ + 1, !.popup.sel = app'.popup.sel]
  BY <1>1, <1>15 DEF Show, Popped, Fits, GoodPopup, Whole
<1> HIDE DEF Takes, same, first
<1> QED BY <1>5, <1>6, <1>7, <1>8, <1>9, <1>10, <1>11, <1>12, <1>13, <1>14, <1>15 DEF Fields

\* So does any key, as no question, surface or resize takes the letter first.
LEMMA LettersReachTheField ==
    ASSUME Popped(app), InField(app), NEW k \in Letters, ~ TakenFromTheField(app, k),
           app' \in OnKey(app, k)
    PROVE  app' = IF app.popup = NoPopup THEN [app EXCEPT !.draft = @ + 1]
                  ELSE [app EXCEPT !.popup.draft = @ + 1, !.popup.sel = app'.popup.sel]
<1>1. app.question = NoQuestion
  BY DEF InField
<1>2. GoodPopup(app.popup) /\ app.draft \in Nat
  BY DEF Popped, Fits
<1>3. CASE app.popup.typing # "no"
  <2>1. app.popup # NoPopup
    BY <1>3 DEF NoPopup, Popup
  <2>2. ~ Resizes(app, k)
    BY <1>2, <1>3 DEF Resizes, OverlayIsTyping, TakenFromTheField, GoodPopup, Fields, Windows, Letters
  <2>3. app' \in PopupKey(app, k)
    BY <1>1, <2>1, <2>2 DEF OnKey
  <2> QED BY <1>3, <2>1, <2>3, FieldTakes
<1>4. CASE app.popup = NoPopup /\ app.surface = "reader" /\ app.within \in {"search", "contents"}
  <2>1. ~ Resizes(app, k)
    BY <1>4 DEF Resizes, NoPopup, Popup, Windows
  <2>2. app' \in ReaderWithinKey(app, k)
    BY <1>1, <1>4, <2>1 DEF OnKey
  <2>3. app' = [app EXCEPT !.draft = @ + 1]
    BY <1>2, <1>4, <2>2, LettersGrow DEF ReaderWithinKey, SearchKey, SidebarFilterKey
  <2> QED BY <1>4, <2>3
<1>5. CASE app.popup = NoPopup /\ app.surface = "library" /\ app.filtering
  <2>1. ~ Resizes(app, k)
    BY <1>5 DEF Resizes, NoPopup, Popup, Windows
  <2>2. k \notin {":", "?", ";"}
    BY <1>5 DEF TakenFromTheField
  <2>3. app' \in LibraryKey(app, k)
    BY <1>1, <1>5, <2>1, <2>2 DEF OnKey
  <2>4. k \notin {"Esc", "Enter"} /\ Pushed(app.draft, k) = app.draft + 1
    BY <1>2, LettersGrow
  <2>5. LibraryKey(app, k) = {[app EXCEPT !.draft = Pushed(@, k)]}
    BY <1>5, <2>4, Zenon DEF LibraryKey
  <2>6. app' = [app EXCEPT !.draft = @ + 1]
    BY <2>3, <2>4, <2>5
  <2> QED BY <1>5, <2>6
<1> QED BY <1>1, <1>3, <1>4, <1>5 DEF InField

\* Typed text stays in its field: a letter grows the text and moves at most the cursor of its list.
THEOREM TheFieldTakesTheText == PopSpec => TypedTextStaysInTheField
<1> DEFINE Taken == InField(app) => \A k \in Letters :
                      (Press(k) /\ ~TakenFromTheField(app, k)) =>
                          app' = IF app.popup = NoPopup THEN [app EXCEPT !.draft = @ + 1]
                                 ELSE [app EXCEPT !.popup.draft = @ + 1, !.popup.sel = app'.popup.sel]
<1>1. Popped(app) => Taken
  BY LettersReachTheField DEF Press
<1>2. Popped(app) /\ [PopNext]_popVars => [Taken]_popVars
  BY <1>1
<1>3. PopSpec => []Popped(app)
  BY PopupsInvariance
<1> QED BY <1>1, <1>3, PTL DEF PopSpec, TypedTextStaysInTheField

----------------------------------------------------------------------------
(* What of a reading session reaches the store, for any books and any      *)
(* sizes of them: the time spent in a book is credited to it and never     *)
(* twice, its record only holds a section it was open at, and a sudden end *)
(* costs less than an autosave interval.                                   *)
(*                                                                         *)
(* The last needs `Timely`: the session's clock and the age of the store's *)
(* place are not older than the autosave's clock, which none of the three  *)
(* shares (opening restarts the first two and not the third).  The ticks   *)
(* are measured just after the tick of a turn, where the autosave's clock  *)
(* is below its interval.                                                  *)

USE SessionAssumption

\* The ghosts have types too.
Types ==
    /\ SessionTypeOK
    /\ clock \in Nat /\ behind \in Nat
    /\ due \in [Titles -> Int] /\ been \in [Titles -> SUBSET (0 .. LastSection)]

\* A book is open in a running program only; it is the session's, and its
\* clock runs.
Sessions == open # NoTitle => running /\ bookPath = open /\ started # Off

Late == lastAutosave = AutosaveEvery + 2
Timely ==
    open # NoTitle =>
        /\ started <= lastAutosave \/ Late
        /\ behind <= lastAutosave \/ Late
        /\ phase = "scroll" => lastAutosave < AutosaveEvery

\* Before the first wrap the reader is at a section's top, and wherever it is
\* its book has been there.
Placed ==
    /\ ~ wrapped => place.line = 0
    /\ open # NoTitle => place.section \in been[open]

Inv ==
    /\ Types
    /\ Sessions
    /\ Timely
    /\ Placed
    /\ StoredOfThisBook
    /\ TimeCounted

-----------------------------------------------------------------------------
(* Sums over the books.                                                    *)

Pick(s) == CHOOSE x \in s : TRUE
Total(r) == MapThenSumSet(LAMBDA b : r[b], Titles)

\* How the library adds up: one element after the other.
Adds(r, g, s) == g[s] = IF s = {} THEN 0 ELSE r[Pick(s)] + g[s \ {Pick(s)}]
Summing(r, g) == \A s \in SUBSET Titles : Adds(r, g, s)

\* q has k more than r at one book, and sums h over q the same over those of r.
Raised(q, r, b, k) == q[b] = r[b] + k /\ \A x \in Titles \ {b} : q[x] = r[x]
SumsRaised(h, g, b, k) == \A s \in SUBSET Titles : h[s] = g[s] + (IF b \in s THEN k ELSE 0)

\* A set without one of its elements is smaller.
LEMMA WithoutOne ==
    ASSUME NEW s \in SUBSET Titles, s # {}
    PROVE  /\ Pick(s) \in s /\ Pick(s) \in Titles /\ s \ {Pick(s)} \in SUBSET Titles
           /\ Cardinality(s) \in Nat /\ Cardinality(s \ {Pick(s)}) \in Nat
           /\ Cardinality(s \ {Pick(s)}) = Cardinality(s) - 1
<1>1. Pick(s) \in s
  BY DEF Pick
<1>2. IsFiniteSet(s)
  BY FS_Subset
<1> QED BY <1>1, <1>2, FS_RemoveElement, FS_CardinalityType, FS_Subset

\* The sums exist, for sets up to any size.
LEMMA SumsExist ==
    ASSUME NEW r \in [Titles -> Nat], NEW n \in Nat
    PROVE  \E g \in [SUBSET Titles -> Nat] :
               \A s \in SUBSET Titles : Cardinality(s) <= n => Adds(r, g, s)
<1> DEFINE Upto(g, m) == \A s \in SUBSET Titles : Cardinality(s) <= m => Adds(r, g, s)
           Bad == {m \in Nat : ~ \E g \in [SUBSET Titles -> Nat] : Upto(g, m)}
<1> SUFFICES Bad = {}
  OBVIOUS
<1> SUFFICES ASSUME Bad # {} PROVE FALSE
  OBVIOUS
<1>1. PICK m \in Bad : \A k \in Bad : m <= k
  BY LeastElement
<1>2. CASE m = 0
  <2> DEFINE g == [s \in SUBSET Titles |-> 0]
  <2>1. \A s \in SUBSET Titles : Cardinality(s) <= 0 => s = {}
    BY FS_Subset, FS_EmptySet, FS_CardinalityType
  <2>2. Upto(g, 0)
    BY <2>1 DEF Adds
  <2> QED BY <1>2, <2>2
<1>3. CASE m # 0
  <2>1. m \in Nat /\ m - 1 \in Nat /\ ~ (m <= m - 1)
    BY <1>3
  <2>2. m - 1 \notin Bad
    BY <1>1, <2>1
  <2>3. PICK g \in [SUBSET Titles -> Nat] : Upto(g, m - 1)
    BY <2>1, <2>2
  <2> DEFINE h == [s \in SUBSET Titles |->
                      IF Cardinality(s) <= m - 1 THEN g[s] ELSE r[Pick(s)] + g[s \ {Pick(s)}]]
  <2> HIDE DEF Bad
  <2>4. \A s \in SUBSET Titles : Cardinality(s) \in Nat
    BY FS_Subset, FS_CardinalityType
  <2>5. ASSUME NEW s \in SUBSET Titles PROVE h[s] \in Nat
    <3>1. CASE Cardinality(s) <= m - 1
      BY <3>1
    <3>2. CASE ~ (Cardinality(s) <= m - 1)
      <4>1. s # {}
        <5>1. Cardinality({}) = 0 /\ 0 <= m - 1
          BY <2>1, FS_EmptySet
        <5>2. s = {} => Cardinality(s) <= m - 1
          BY <5>1, Zenon
        <5> QED BY <3>2, <5>2
      <4>2. r[Pick(s)] \in Nat /\ g[s \ {Pick(s)}] \in Nat
        BY <4>1, WithoutOne
      <4> QED BY <3>2, <4>2
    <3> QED BY <3>1, <3>2
  <2>6. h \in [SUBSET Titles -> Nat]
    BY <2>5
  <2>7. ASSUME NEW s \in SUBSET Titles, Cardinality(s) <= m PROVE Adds(r, h, s)
    <3>1. CASE s = {}
      <4>1. Cardinality(s) = 0
        BY <3>1, FS_EmptySet
      <4>2. h[s] = g[s]
        BY <2>1, <4>1
      <4>3. g[s] = 0
        BY <2>1, <2>3, <3>1, <4>1 DEF Adds
      <4> QED BY <3>1, <4>2, <4>3 DEF Adds
    <3>2. CASE s # {}
      <4> DEFINE t == s \ {Pick(s)}
      <4>1. t \in SUBSET Titles /\ Cardinality(t) <= m - 1
        BY <2>1, <2>7, <3>2, WithoutOne
      <4>2. h[t] = g[t]
        BY <4>1
      <4>3. h[s] = r[Pick(s)] + g[t]
        <5>1. CASE Cardinality(s) <= m - 1
          BY <2>3, <3>2, <5>1 DEF Adds
        <5>2. CASE ~ (Cardinality(s) <= m - 1)
          BY <5>2
        <5> QED BY <5>1, <5>2
      <4> HIDE DEF h
      <4> QED BY <3>2, <4>2, <4>3 DEF Adds
    <3> QED BY <3>1, <3>2
  <2> HIDE DEF h
  <2>8. Upto(h, m)
    BY <2>7
  <2> QED BY <1>1, <2>6, <2>8 DEF Bad
<1> QED BY <1>2, <1>3

\* Where one book has k more, every sum over a set with that book has k more.
LEMMA SumsDiffer ==
    ASSUME NEW r \in [Titles -> Nat], NEW b \in Titles, NEW k \in Nat,
           NEW g \in [SUBSET Titles -> Nat], Summing(r, g),
           NEW q, Raised(q, r, b, k),
           NEW h, Summing(q, h)
    PROVE  SumsRaised(h, g, b, k)
<1> USE DEF Summing, Raised
<1> DEFINE more(s) == IF b \in s THEN k ELSE 0
           Right(s) == h[s] = g[s] + more(s)
           Bad == {Cardinality(s) : s \in {z \in SUBSET Titles : ~ Right(z)}}
<1> SUFFICES ASSUME Bad # {} PROVE FALSE
  BY DEF SumsRaised
<1>1. Bad \subseteq Nat
  BY FS_Subset, FS_CardinalityType
<1>2. PICK m \in Bad : \A n \in Bad : m <= n
  BY <1>1, LeastElement
<1>3. PICK s \in SUBSET Titles : ~ Right(s) /\ Cardinality(s) = m
  BY <1>2
<1>4. CASE s = {}
  <2>1. g[s] = 0 /\ h[s] = 0 /\ more(s) = 0
    BY <1>4 DEF Adds
  <2> QED BY <1>3, <2>1
<1>5. CASE s # {}
  <2> DEFINE x == Pick(s)
             t == s \ {x}
  <2>1. x \in s /\ x \in Titles /\ t \in SUBSET Titles /\ ~ (m <= Cardinality(t))
    BY <1>3, <1>5, WithoutOne
  <2>2. Right(t)
    BY <1>2, <2>1
  <2>3. g[s] = r[x] + g[t] /\ h[s] = q[x] + h[t]
    BY <1>5 DEF Adds
  <2>4. g[s] \in Nat /\ g[t] \in Nat /\ r[x] \in Nat
    BY <2>1
  <2>5. CASE x = b
    <3>1. q[x] = r[x] + k /\ more(t) = 0 /\ more(s) = k
      BY <2>1, <2>5
    <3> HIDE DEF x, t
    <3> QED BY <1>3, <2>2, <2>3, <2>4, <3>1
  <2>6. CASE x # b
    <3>1. q[x] = r[x] /\ more(t) = more(s)
      BY <2>1, <2>6
    <3> HIDE DEF x, t
    <3> QED BY <1>3, <2>2, <2>3, <2>4, <3>1
  <2> QED BY <2>5, <2>6
<1> QED BY <1>4, <1>5

\* The library's sum, element by element.
Sum(r) ==
    CHOOSE g : g = [s \in SUBSET Titles |-> IF s = {} THEN 0 ELSE r[Pick(s)] + g[s \ {Pick(s)}]]

\* The total is a sum over the titles, added up one by one.
LEMMA SumAdds ==
    ASSUME NEW r \in [Titles -> Nat]
    PROVE  /\ Total(r) = Sum(r)[Titles]
           /\ \A s \in SUBSET Titles : Sum(r)[s] \in Nat /\ Adds(r, Sum(r), s)
<1> DEFINE F(g) == [s \in SUBSET Titles |-> IF s = {} THEN 0 ELSE r[Pick(s)] + g[s \ {Pick(s)}]]
<1>1. Total(r) = Sum(r)[Titles]
  BY DEF Total, MapThenSumSet, MapThenFoldSet, Pick, Sum
<1>2. Cardinality(Titles) \in Nat /\ \A s \in SUBSET Titles : Cardinality(s) <= Cardinality(Titles)
  BY FS_Subset, FS_CardinalityType
<1>3. PICK g \in [SUBSET Titles -> Nat] : \A s \in SUBSET Titles : Adds(r, g, s)
  BY <1>2, SumsExist
<1>4. g = F(g)
  BY <1>3 DEF Adds
<1>5. Sum(r) = F(Sum(r))
  BY <1>4 DEF Sum
<1> HIDE DEF F
<1>6. \A s \in SUBSET Titles : Adds(r, Sum(r), s)
  BY <1>5 DEF F, Adds
<1>7. \A s \in SUBSET Titles : Sum(r)[s] = g[s]
  <2>1. CASE Titles = {}
    BY <1>3, <1>6, <2>1 DEF Adds
  <2>2. CASE Titles # {}
    <3>1. PICK b \in Titles : TRUE
      BY <2>2
    <3>2. Raised(r, r, b, 0) /\ 0 \in Nat
      BY DEF Raised
    <3>3. Summing(r, Sum(r)) /\ Summing(r, g)
      BY <1>3, <1>6 DEF Summing
    <3>4. SumsRaised(Sum(r), g, b, 0)
      BY <3>2, <3>3, SumsDiffer
    <3> QED BY <3>4 DEF SumsRaised
  <2> QED BY <2>1, <2>2
<1> QED BY <1>1, <1>3, <1>6, <1>7

\* Time given to one book is added once to the time of all.
LEMMA TotalGrows ==
    ASSUME NEW r \in [Titles -> Nat], NEW b \in Titles, NEW k \in Nat
    PROVE  /\ Total(r) \in Nat
           /\ Total([r EXCEPT ![b] = @ + k]) = Total(r) + k
<1> DEFINE q == [r EXCEPT ![b] = @ + k]
<1>1. q \in [Titles -> Nat]
  OBVIOUS
<1> DEFINE g == [s \in SUBSET Titles |-> Sum(r)[s]]
<1>2. g \in [SUBSET Titles -> Nat] /\ Summing(r, g)
  <2>1. \A s \in SUBSET Titles : s # {} => s \ {Pick(s)} \in SUBSET Titles
    OBVIOUS
  <2> QED BY <2>1, SumAdds DEF Adds, Summing
<1>3. SumsRaised(Sum(q), g, b, k)
  <2>1. Summing(q, Sum(q))
    BY <1>1, SumAdds DEF Summing
  <2>2. Raised(q, r, b, k)
    BY DEF Raised
  <2> HIDE DEF g, q
  <2> QED BY <1>2, <2>1, <2>2, SumsDiffer
<1>4. Sum(q)[Titles] = Sum(r)[Titles] + k
  BY <1>3 DEF SumsRaised
<1> QED BY <1>1, <1>4, SumAdds

\* Hence it is a number.
LEMMA TotalIsNat == ASSUME NEW r \in [Titles -> Nat] PROVE Total(r) \in Nat
BY SumAdds

\* Nothing read is no time.
LEMMA TotalOfNothing == Total([b \in Titles |-> 0]) = 0
<1> DEFINE r == [b \in Titles |-> 0]
           Bad == {Cardinality(s) : s \in {z \in SUBSET Titles : Sum(r)[z] # 0}}
<1> SUFFICES ASSUME Bad # {} PROVE FALSE
  BY SumAdds
<1>1. Bad \subseteq Nat
  BY FS_Subset, FS_CardinalityType
<1>2. PICK m \in Bad : \A n \in Bad : m <= n
  BY <1>1, LeastElement
<1>3. PICK s \in SUBSET Titles : Sum(r)[s] # 0 /\ Cardinality(s) = m
  BY <1>2
<1>4. Adds(r, Sum(r), s)
  BY SumAdds
<1>5. s # {}
  BY <1>3, <1>4 DEF Adds
<1>6. Pick(s) \in Titles /\ s \ {Pick(s)} \in SUBSET Titles /\ ~ (m <= Cardinality(s \ {Pick(s)}))
  BY <1>3, <1>5, WithoutOne
<1>7. Sum(r)[s \ {Pick(s)}] = 0
  BY <1>2, <1>6
<1> QED BY <1>3, <1>4, <1>5, <1>6, <1>7 DEF Adds

-----------------------------------------------------------------------------
(* The store's two writes.                                                 *)

Ran == IF started = Off THEN 0 ELSE started
Counted ==
    /\ \A b \in Titles : 2 * readSeconds[b] + Running(b) >= due[b]
    /\ 2 * Total(readSeconds) + Ran <= clock

\* The property is said of the total, the invariant of the sum.
LEMMA CountedIsTimeCounted == (TimeCounted <=> Counted) /\ (TimeCounted' <=> Counted')
BY DEF TimeCounted, Counted, Ran, Total

\* A counter that stops at its bound.
LEMMA SmallerOfTwo ==
    ASSUME NEW c \in Nat, NEW n \in 0 .. c
    PROVE  Min({n + 1, c}) = IF n = c THEN n ELSE n + 1
BY DEF Min

\* Whole seconds and what is left of them.
LEMMA Halves ==
    ASSUME NEW n \in Nat
    PROVE  n \div 2 \in Nat /\ n % 2 \in Nat /\ 2 * (n \div 2) = n - (n % 2)
OBVIOUS

\* Banking gives the time of the clock, in whole seconds, to one book, and
\* takes the rest off what that book is due.
LEMMA Banking ==
    ASSUME Inv
    PROVE  /\ Banked \in [Titles -> Nat] /\ DueAfter \in [Titles -> Int]
           /\ \A b \in Titles : 2 * Banked[b] >= DueAfter[b]
           /\ 2 * Total(Banked) <= clock
<1> USE DEF Inv, Types, SessionTypeOK
<1>1. Counted
  BY CountedIsTimeCounted
<1>2. CASE started = Off
  <2>1. open = NoTitle
    BY <1>2 DEF Sessions
  <2>2. Banked = readSeconds /\ DueAfter = due
    BY <1>2 DEF Banked, DueAfter
  <2>3. \A b \in Titles : Running(b) = 0
    BY <1>2 DEF Running
  <2>4. 2 * Total(readSeconds) <= clock
    BY <1>1, <1>2, TotalIsNat DEF Counted, Ran
  <2> QED BY <1>1, <2>2, <2>3, <2>4 DEF Counted
<1>3. CASE started # Off
  <2> DEFINE k == started \div 2
  <2>1. started \in Nat /\ k \in Nat /\ started % 2 \in Nat /\ 2 * k = started - (started % 2)
    <3>1. started \in Nat
      BY <1>3
    <3> QED BY <3>1, Halves
  <2>2. CASE bookPath = NoTitle
    <3>1. open = NoTitle
      BY <2>2 DEF Sessions
    <3>2. Banked = readSeconds /\ DueAfter = due
      BY <2>2, <3>1 DEF Banked, DueAfter
    <3>3. \A b \in Titles : Running(b) = 0
      BY <3>1 DEF Running
    <3>4. 2 * Total(readSeconds) <= clock
      <4>1. 2 * Total(readSeconds) + started <= clock
        BY <1>1, <1>3 DEF Counted, Ran
      <4>2. Total(readSeconds) \in Nat
        BY TotalIsNat
      <4> QED BY <2>1, <4>1, <4>2
    <3> QED BY <1>1, <3>2, <3>3, <3>4 DEF Counted
  <2>3. CASE bookPath # NoTitle
    <3>1. bookPath \in Titles
      BY <2>3
    <3>2. Banked = [readSeconds EXCEPT ![bookPath] = @ + k]
      BY <1>3, <2>3 DEF Banked, Secs
    <3>3. Total(readSeconds) \in Nat /\ Total(Banked) = Total(readSeconds) + k
      BY <2>1, <3>1, <3>2, TotalGrows
    <3>4. 2 * Total(Banked) <= clock
      <4>1. 2 * Total(readSeconds) + started <= clock
        BY <1>1, <1>3 DEF Counted, Ran
      <4> QED BY <2>1, <3>3, <4>1
    <3>5. DueAfter = IF open = NoTitle THEN due ELSE [due EXCEPT ![open] = @ - (started % 2)]
      BY <1>3 DEF DueAfter
    <3>6. DueAfter \in [Titles -> Int]
      BY <2>1, <3>5
    <3>7. ASSUME NEW b \in Titles PROVE 2 * Banked[b] >= DueAfter[b]
      <4>1. 2 * readSeconds[b] + Running(b) >= due[b] /\ readSeconds[b] \in Nat /\ due[b] \in Int
        BY <1>1 DEF Counted
      <4>2. CASE b = open
        <5>1. b = bookPath /\ Running(b) = started
          BY <1>3, <4>2 DEF Sessions, Running
        <5>2. Banked[b] = readSeconds[b] + k /\ DueAfter[b] = due[b] - (started % 2)
          BY <3>2, <3>5, <4>2, <5>1
        <5> HIDE DEF k
        <5> QED BY <2>1, <4>1, <5>1, <5>2
      <4>3. CASE b # open
        <5>1. Running(b) = 0 /\ DueAfter[b] = due[b]
          BY <3>5, <4>3 DEF Running
        <5>2. Banked[b] = readSeconds[b] \/ Banked[b] = readSeconds[b] + k
          BY <3>1, <3>2
        <5> HIDE DEF k
        <5> QED BY <2>1, <4>1, <5>1, <5>2
      <4> QED BY <4>2, <4>3
    <3>8. Banked \in [Titles -> Nat]
      BY <2>1, <3>1, <3>2
    <3> QED BY <3>4, <3>6, <3>7, <3>8
  <2> QED BY <2>2, <2>3
<1> QED BY <1>2, <1>3

\* A save gives the open book its own place, and changes no other record.
LEMMA Saving ==
    ASSUME Inv
    PROVE  /\ SavedProgress \in [Titles -> Places \cup {NoPlace}]
           /\ \A b \in Titles : SavedProgress[b] = NoPlace \/ SavedProgress[b].section \in been[b]
           /\ open # NoTitle => SavedProgress[open] = place
<1> USE DEF Inv, Types, SessionTypeOK
<1>1. CASE open = NoTitle
  BY <1>1 DEF SavedProgress, StoredOfThisBook
<1>2. CASE open # NoTitle
  <2>1. bookPath = open /\ open \in Titles
    BY <1>2 DEF Sessions
  <2>2. SavedProgress = [saved EXCEPT ![open] = SavedHere(open)]
    BY <1>2, <2>1 DEF SavedProgress
  <2>3. SavedHere(open) = place
    BY DEF SavedHere, Placed, Places
  <2>4. place.section \in been[open]
    BY <1>2 DEF Placed
  <2> QED BY <2>1, <2>2, <2>3, <2>4 DEF StoredOfThisBook
<1> QED BY <1>1, <1>2

-----------------------------------------------------------------------------
(* The steps.                                                              *)

\* After a bank no clock runs that has anything to give.
LEMMA BankCounted ==
    ASSUME Inv, readSeconds' = Banked, due' = DueAfter, clock' = clock, started' \in {0, Off}
    PROVE  Counted' /\ readSeconds' \in [Titles -> Nat] /\ due' \in [Titles -> Int]
<1>1. /\ Banked \in [Titles -> Nat] /\ DueAfter \in [Titles -> Int]
      /\ \A b \in Titles : 2 * Banked[b] >= DueAfter[b]
      /\ 2 * Total(Banked) <= clock
  BY Banking
<1>2. \A b \in Titles : Running(b)' = 0
  BY DEF Running
<1>3. Ran' = 0
  BY DEF Ran
<1>4. Total(Banked) \in Nat
  BY <1>1, TotalIsNat
<1>5. \A b \in Titles : 2 * readSeconds'[b] + Running(b)' >= due'[b]
  BY <1>1, <1>2
<1>6. 2 * Total(readSeconds') + Ran' <= clock'
  <2>1. 2 * Total(Banked) + 0 <= clock
    BY <1>1, <1>4
  <2> QED BY <1>3, <2>1
<1> QED BY <1>1, <1>5, <1>6 DEF Counted

\* With no book open the clock can be reset, and nothing is lost.
LEMMA StoppedCounted ==
    ASSUME Inv, open = NoTitle, UNCHANGED <<readSeconds, due, clock>>, started' \in {0, Off}
    PROVE  Counted'
<1>1. Counted
  BY CountedIsTimeCounted DEF Inv
<1>2. \A b \in Titles : Running(b) = 0 /\ Running(b)' = 0
  BY DEF Running
<1>3. Total(readSeconds) \in Nat /\ clock \in Nat /\ Ran \in Nat /\ Ran' = 0
  BY TotalIsNat DEF Inv, Types, SessionTypeOK, Ran
<1>4. 2 * Total(readSeconds) + Ran <= clock
  BY <1>1 DEF Counted
<1>5. 2 * Total(readSeconds) + 0 <= clock
  BY <1>3, <1>4
<1> QED BY <1>1, <1>2, <1>3, <1>5 DEF Counted

\* Time that does not pass changes nothing that was counted.
LEMMA StillCounted ==
    ASSUME Inv, UNCHANGED <<readSeconds, due, clock, started, open>>
    PROVE  Counted'
<1>1. Counted
  BY CountedIsTimeCounted DEF Inv
<1> QED BY <1>1 DEF Counted, Running, Ran

\* The records: kept, or written from the open book.
LEMMA StoredKept ==
    ASSUME Inv, saved' = saved \/ saved' = SavedProgress, \A b \in Titles : been[b] \subseteq been'[b]
    PROVE  StoredOfThisBook' /\ saved' \in [Titles -> Places \cup {NoPlace}]
BY Saving DEF Inv, Types, SessionTypeOK, StoredOfThisBook

\* A program that is not running has no reader.
LEMMA InitInv == SessionInit => Inv
<1> SUFFICES ASSUME SessionInit PROVE Inv
  OBVIOUS
<1> USE DEF SessionInit, Off
<1>1. Types
  <2>1. NoPlace.section = -1 /\ NoPlace.line = 0
    BY DEF NoPlace
  <2>2. [section |-> 0, line |-> LastLine] \in Places /\ Top \in Places
    BY DEF Places, Top
  <2>3. saved \in [Titles -> Places \cup {NoPlace}]
    BY <2>2
  <2>4. been \in [Titles -> SUBSET (0 .. LastSection)]
    <3>1. \A b \in Titles : saved[b] # NoPlace => saved[b].section \in 0 .. LastSection
      BY <2>3 DEF Places
    <3> QED BY <3>1
  <2>5. SessionTypeOK
    <3>1. {running, wrapped, fromBottom, leaving} \subseteq BOOLEAN
      OBVIOUS
    <3>2. readSeconds \in [Titles -> Nat]
      OBVIOUS
    <3>3. lastAutosave \in 0 .. AutosaveEvery + 2
      OBVIOUS
    <3> QED BY <2>2, <2>3, <3>1, <3>2, <3>3 DEF SessionTypeOK
  <2> QED BY <2>4, <2>5 DEF Types
<1>2. Sessions /\ Timely
  BY DEF Sessions, Timely
<1>3. Placed
  BY DEF Placed, Top
<1>4. StoredOfThisBook
  BY DEF StoredOfThisBook
<1>5. Counted
  <2>1. Total(readSeconds) = 0
    BY TotalOfNothing
  <2>2. \A b \in Titles : Running(b) = 0
    BY DEF Running
  <2> QED BY <2>1, <2>2 DEF Counted, Ran
<1> QED BY <1>1, <1>2, <1>3, <1>4, <1>5, CountedIsTimeCounted DEF Inv

\* What moves neither a clock, nor the reader, nor the store.
LEMMA ControlInv ==
    ASSUME Inv, UNCHANGED <<viewer, bookPath, clocks, sessionStore, due, been>>,
           running' = running, leaving' \in BOOLEAN,
           phase' \in {"keys", "tick", "draw"} \/ phase' = phase
    PROVE  Inv'
<1> USE DEF Inv, viewer, clocks, sessionStore
<1>1. Types'
  BY DEF Types, SessionTypeOK
<1>2. Sessions' /\ Timely' /\ Placed' /\ StoredOfThisBook'
  BY DEF Sessions, Timely, Late, Placed, StoredOfThisBook
<1>3. Counted'
  BY StillCounted
<1> QED BY <1>1, <1>2, <1>3, CountedIsTimeCounted

\* The steps that end the program and change no record.
LEMMA ControlSteps ==
    ASSUME Inv, LeaveProgram \/ KeysEnd \/ NoFrame \/ Signal \/ UNCHANGED sessionVars
    PROVE  Inv'
<1>1. leaving \in BOOLEAN
  BY DEF Inv, Types, SessionTypeOK
<1>2. /\ UNCHANGED <<viewer, bookPath, clocks, sessionStore, due, been>>
      /\ running' = running /\ (leaving' = leaving \/ leaving' = TRUE)
      /\ phase' \in {"keys", "tick", "draw"} \/ phase' = phase
  BY DEF LeaveProgram, KeysEnd, NoFrame, Signal, sessionVars
<1> QED BY <1>1, <1>2, ControlInv

\* A reader built for a book is at the place its record has, at the top until
\* it is wrapped, and its book has been there.
ReaderOf(b) ==
    /\ open' = b /\ bookPath' = b /\ started' = 0 /\ behind' = 0
    /\ place' \in Places /\ place'.line = 0 /\ heldFrac' \in {Off} \cup 0 .. LastLine
    /\ wrapped' = FALSE /\ fromBottom' = FALSE
    /\ been' \in [Titles -> SUBSET (0 .. LastSection)]
    /\ \A c \in Titles : been[c] \subseteq been'[c]
    /\ place'.section \in been'[b]
\* A reader just built is at the place its book's record has.
LEMMA BuiltReader == ASSUME Inv, NEW b \in Titles, Built(b) PROVE ReaderOf(b)
<1> USE DEF Inv, Types, SessionTypeOK
<1>1. Resume(b).section \in 0 .. LastSection /\ Resume(b).line \in {Off} \cup 0 .. LastLine
  <2>1. CASE saved[b] = NoPlace
    BY <2>1 DEF Resume
  <2>2. CASE saved[b] # NoPlace
    <3>1. saved[b] \in Places
      BY <2>2
    <3> QED BY <2>2, <3>1 DEF Resume, Places
  <2> QED BY <2>1, <2>2
<1>2. place' = [section |-> Resume(b).section, line |-> 0]
  BY DEF Built, Viewing
<1>3. been' = [been EXCEPT ![b] = @ \cup {Resume(b).section}]
  BY DEF Built, Viewing
<1>4. place' \in Places /\ place'.line = 0 /\ place'.section = Resume(b).section
  BY <1>1, <1>2 DEF Places
<1>5. /\ been' \in [Titles -> SUBSET (0 .. LastSection)]
      /\ \A c \in Titles : been[c] \subseteq been'[c]
      /\ Resume(b).section \in been'[b]
  BY <1>1, <1>3
<1> QED BY <1>1, <1>4, <1>5 DEF Built, Viewing, ReaderOf

\* What launching and opening have in common once the time is counted.
LEMMA ReaderInv ==
    ASSUME Inv, NEW b \in Titles, ReaderOf(b), Counted', UNCHANGED <<leaving, saved, clock>>,
           running', phase' \in {"keys", "draw"}, lastAutosave' \in {0, lastAutosave},
           running' \in BOOLEAN,
           readSeconds' \in [Titles -> Nat], due' \in [Titles -> Int]
    PROVE  Inv'
<1> USE DEF Inv, ReaderOf
<1>1. lastAutosave' \in 0 .. AutosaveEvery + 2
  BY DEF Types, SessionTypeOK
<1>2. Types'
  <2>1. {running', wrapped', fromBottom', leaving'} \subseteq BOOLEAN
    BY DEF Types, SessionTypeOK
  <2> QED BY <1>1, <2>1 DEF Types, SessionTypeOK
<1>3. Sessions' /\ Placed'
  BY DEF Sessions, Placed, Off
<1>4. Timely'
  BY <1>1 DEF Timely
<1>5. StoredOfThisBook'
  BY StoredKept
<1> QED BY <1>2, <1>3, <1>4, <1>5, CountedIsTimeCounted

\* The library opened.
LEMMA OpenShelfInv == ASSUME Inv, OpenShelf PROVE Inv'
<1> USE DEF Inv, OpenShelf, sessionStore
<1>1. Types'
  <2>1. {running', wrapped', fromBottom', leaving'} \subseteq BOOLEAN
    BY DEF Types, SessionTypeOK
  <2> QED BY <2>1 DEF Types, SessionTypeOK
<1>2. Sessions' /\ Timely' /\ Placed' /\ StoredOfThisBook'
  BY DEF Sessions, Timely, Placed, StoredOfThisBook
<1>3. Counted'
  BY StoppedCounted DEF Sessions
<1> QED BY <1>1, <1>2, <1>3, CountedIsTimeCounted

\* A book named on the command line.
LEMMA LaunchBookInv == ASSUME Inv, NEW b \in Titles, LaunchBook(b) PROVE Inv'
<1> USE DEF LaunchBook, sessionStore
<1>1. ReaderOf(b)
  BY BuiltReader
<1>2. Counted'
  BY <1>1, StoppedCounted DEF Inv, Sessions, ReaderOf
<1>3. readSeconds' \in [Titles -> Nat] /\ due' \in [Titles -> Int]
  BY DEF Inv, Types, SessionTypeOK
<1> QED BY <1>1, <1>2, <1>3, ReaderInv

\* A book opened from the library.
LEMMA OpenSelectedInv == ASSUME Inv, NEW b \in Titles, OpenSelected(b) PROVE Inv'
<1> USE DEF OpenSelected, Keying
<1>1. ReaderOf(b)
  BY BuiltReader
<1>2. Counted' /\ readSeconds' \in [Titles -> Nat] /\ due' \in [Titles -> Int]
  BY <1>1, BankCounted DEF ReaderOf
<1>3. running' /\ running' \in BOOLEAN
  BY DEF Inv, Types, SessionTypeOK
<1> QED BY <1>1, <1>2, <1>3, ReaderInv

\* A book that could not be opened.
LEMMA OpenFailsInv == ASSUME Inv, OpenFails PROVE Inv'
<1> USE DEF Inv, OpenFails, viewer
<1>1. started' \in {0, Off}
  BY DEF Restarted
<1>2. Counted' /\ readSeconds' \in [Titles -> Nat] /\ due' \in [Titles -> Int]
  BY <1>1, BankCounted
<1>3. Types'
  BY <1>1, <1>2 DEF Types, SessionTypeOK
<1>4. Sessions' /\ Timely' /\ Placed' /\ StoredOfThisBook'
  BY DEF Sessions, Timely, Placed, StoredOfThisBook
<1> QED BY <1>2, <1>3, <1>4, CountedIsTimeCounted

\* The reader left for the library.
LEMMA CloseBookInv == ASSUME Inv, CloseBook PROVE Inv'
<1> USE DEF Inv, CloseBook
<1>1. Counted' /\ readSeconds' \in [Titles -> Nat] /\ due' \in [Titles -> Int]
  BY BankCounted
<1>2. StoredOfThisBook' /\ saved' \in [Titles -> Places \cup {NoPlace}]
  BY StoredKept
<1>3. Types'
  BY <1>1, <1>2 DEF Types, SessionTypeOK
<1>4. Sessions' /\ Timely' /\ Placed'
  BY DEF Sessions, Timely, Placed
<1> QED BY <1>1, <1>2, <1>3, <1>4, CountedIsTimeCounted

\* The reader moves within its book: the book has then been where it is.
Still == UNCHANGED <<running, open, bookPath, started, lastAutosave, leaving, readSeconds, clock, due>>
Visited == been' = [been EXCEPT ![open] = @ \cup {place'.section}]
\* A move in the open book: the new place is one of the book, saved or not.
LEMMA MovedInv ==
    ASSUME Inv, open # NoTitle, Still,
           place' \in Places, ~ wrapped' => place'.line = 0,
           Visited \/ (place' = place /\ been' = been),
           saved' = saved \/ (saved' = [saved EXCEPT ![open] = place'] /\ Visited),
           behind' = 0 \/ behind' = behind,
           wrapped' \in BOOLEAN, fromBottom' \in BOOLEAN, heldFrac' \in {Off} \cup 0 .. LastLine,
           phase' \in {"keys", "draw"}
    PROVE  Inv'
<1> USE DEF Inv, Still, Visited
<1>1. open \in Titles /\ place.section \in been[open] /\ been \in [Titles -> SUBSET (0 .. LastSection)]
  BY DEF Types, SessionTypeOK, Placed
<1>2. place'.section \in 0 .. LastSection
  BY DEF Places
<1>3. /\ been' \in [Titles -> SUBSET (0 .. LastSection)]
      /\ \A b \in Titles : been[b] \subseteq been'[b]
      /\ place'.section \in been'[open]
  BY <1>1, <1>2
<1>4. StoredOfThisBook' /\ saved' \in [Titles -> Places \cup {NoPlace}]
  <2>1. CASE saved' = saved
    BY <1>3, <2>1, StoredKept
  <2>2. CASE saved' = [saved EXCEPT ![open] = place']
    <3>1. saved' \in [Titles -> Places \cup {NoPlace}]
      BY <1>1, <2>2 DEF Types, SessionTypeOK
    <3>2. ASSUME NEW b \in Titles PROVE saved'[b] = NoPlace \/ saved'[b].section \in been'[b]
      <4>1. saved[b] = NoPlace \/ saved[b].section \in been[b]
        BY DEF StoredOfThisBook
      <4>2. saved'[b] = IF b = open THEN place' ELSE saved[b]
        BY <1>1, <2>2 DEF Types, SessionTypeOK
      <4> QED BY <1>3, <4>1, <4>2
    <3> QED BY <3>1, <3>2 DEF StoredOfThisBook
  <2> QED BY <2>1, <2>2
<1>5. Types'
  <2>1. {running', wrapped', fromBottom', leaving'} \subseteq BOOLEAN
    BY DEF Types, SessionTypeOK
  <2>2. behind' \in Nat
    BY DEF Types
  <2> QED BY <1>3, <1>4, <2>1, <2>2 DEF Types, SessionTypeOK
<1>6. Sessions' /\ Placed'
  BY <1>3 DEF Sessions, Placed
<1>7. Timely'
  <2>1. lastAutosave \in Nat
    BY DEF Types, SessionTypeOK
  <2> QED BY <2>1 DEF Timely, Late
<1>8. Counted'
  BY StillCounted
<1> QED BY <1>4, <1>5, <1>6, <1>7, <1>8, CountedIsTimeCounted

\* A jump to a section.
LEMMA JumpToSectionInv ==
    ASSUME Inv, NEW s \in 0 .. LastSection, JumpToSection(s)
    PROVE  Inv'
<1> USE DEF JumpToSection, Keying
<1>1. /\ open # NoTitle /\ bookPath = open
      /\ {wrapped, fromBottom} \subseteq BOOLEAN /\ heldFrac \in {Off} \cup 0 .. LastLine
  BY DEF Inv, Types, SessionTypeOK, Sessions
<1>2. place' \in Places /\ place'.line = 0
  BY DEF Places
<1>3. Visited
  BY DEF Visits, Visited
<1>4. saved' = saved \/ saved' = [saved EXCEPT ![open] = place']
  BY <1>1
<1>5. behind' = 0 \/ behind' = behind
  BY DEF Behind
<1>6. wrapped' \in BOOLEAN /\ fromBottom' \in BOOLEAN /\ heldFrac' \in {Off} \cup 0 .. LastLine
  BY <1>1
<1>7. phase' \in {"keys", "draw"} /\ Still
  BY DEF Still
<1> QED BY <1>1, <1>2, <1>3, <1>4, <1>5, <1>6, <1>7, MovedInv

\* A step of the smooth scroll.
LEMMA EaseScrollInv == ASSUME Inv, EaseScroll PROVE Inv'
<1> USE DEF EaseScroll
<1>1. /\ {wrapped, fromBottom} \subseteq BOOLEAN /\ heldFrac \in {Off} \cup 0 .. LastLine
      /\ place \in Places /\ (~ wrapped => place.line = 0)
  BY DEF Inv, Types, SessionTypeOK, Placed
<1>2. CASE open = NoTitle
  <2>1. behind' = 0 /\ open' = NoTitle /\ UNCHANGED <<place, wrapped, been, saved, started>>
    BY <1>2 DEF Behind, sessionStore
  <2>2. Types'
    BY <1>1, <1>2, <2>1 DEF Inv, Types, SessionTypeOK, sessionStore
  <2>3. Sessions' /\ Timely' /\ Placed' /\ StoredOfThisBook'
    BY <1>2, <2>1 DEF Inv, Sessions, Timely, Placed, StoredOfThisBook
  <2>4. Counted'
    BY <2>1, StillCounted DEF sessionStore
  <2> QED BY <2>2, <2>3, <2>4, CountedIsTimeCounted DEF Inv
<1>3. CASE open # NoTitle
  <2>1. behind' = 0 \/ behind' = behind
    BY DEF Behind
  <2>2. CASE UNCHANGED <<place, fromBottom, been>>
    <3>1. Still /\ saved' = saved /\ phase' = "draw" /\ UNCHANGED <<wrapped, heldFrac>>
      BY DEF Still, sessionStore
    <3> QED BY <1>1, <1>3, <2>1, <2>2, <3>1, MovedInv
  <2>3. CASE ~ UNCHANGED <<place, fromBottom, been>>
    <3>1. wrapped /\ Visits(place') /\ fromBottom' \in BOOLEAN
      BY <1>1, <2>3
    <3>2. place' \in Places
      BY <1>1, <2>3 DEF Places
    <3>3. Visited
      BY <3>1 DEF Visits, Visited
    <3>4. wrapped' \in BOOLEAN /\ wrapped' /\ heldFrac' \in {Off} \cup 0 .. LastLine
      BY <1>1, <3>1
    <3>5. phase' \in {"keys", "draw"} /\ saved' = saved /\ Still
      BY DEF Still, sessionStore
    <3> QED BY <1>3, <2>1, <3>1, <3>2, <3>3, <3>4, <3>5, MovedInv
  <2> QED BY <2>2, <2>3
<1> QED BY <1>2, <1>3

\* A frame of the reader, which settles a held position.
LEMMA DrawReaderInv == ASSUME Inv, DrawReader PROVE Inv'
<1> USE DEF DrawReader
<1>1. CASE open = NoTitle
  <2>1. UNCHANGED <<viewer, bookPath, clocks, sessionStore, due, been>>
    BY <1>1 DEF viewer, clocks, sessionStore
  <2>2. leaving' \in BOOLEAN
    BY DEF Inv, Types, SessionTypeOK
  <2> QED BY <2>1, <2>2, ControlInv
<1>2. CASE open # NoTitle
  <2>1. place \in Places /\ heldFrac \in {Off} \cup 0 .. LastLine
    BY DEF Inv, Types, SessionTypeOK
  <2>2. place' \in Places
    BY <1>2, <2>1 DEF Places
  <2>3. Visited
    BY <1>2 DEF Visits, Visited
  <2>4. behind' = 0 \/ behind' = behind
    BY <1>2 DEF Behind
  <2>5. wrapped' = TRUE /\ fromBottom' = FALSE /\ heldFrac' = Off
    BY <1>2
  <2>6. phase' \in {"keys", "draw"} /\ saved' = saved /\ Still
    BY DEF Still, sessionStore
  <2> QED BY <1>2, <2>2, <2>3, <2>4, <2>5, <2>6, MovedInv
<1> QED BY <1>1, <1>2

\* The tick leaves the clocks below the autosave's interval: it restarts all
\* three, or the autosave's was below it already.
LEMMA TickAutosaveInv == ASSUME Inv, TickAutosave PROVE Inv'
<1> USE DEF TickAutosave, viewer
<1>1. CASE Due
  <2>1. open # NoTitle /\ open \in Titles /\ started' = 0 /\ lastAutosave' = 0
    BY <1>1 DEF Due, Inv, Types, SessionTypeOK, Sessions, Restarted
  <2>2. saved' = SavedProgress /\ SavedProgress[open] = place
    BY <1>1, <2>1, Saving
  <2>3. behind' = 0
    BY <2>2 DEF Behind
  <2>4. Counted' /\ readSeconds' \in [Titles -> Nat] /\ due' \in [Titles -> Int]
    BY <1>1, <2>1, BankCounted
  <2>5. StoredOfThisBook' /\ saved' \in [Titles -> Places \cup {NoPlace}]
    BY <2>2, StoredKept
  <2>6. Types'
    BY <2>1, <2>3, <2>4, <2>5 DEF Inv, Types, SessionTypeOK
  <2>7. Sessions' /\ Placed'
    BY <2>1 DEF Inv, Sessions, Placed, Off
  <2>8. Timely'
    BY <2>1, <2>3 DEF Timely
  <2> QED BY <2>4, <2>5, <2>6, <2>7, <2>8, CountedIsTimeCounted DEF Inv
<1>2. CASE ~ Due
  <2>1. UNCHANGED <<lastAutosave, started, saved, readSeconds, due>>
    BY <1>2 DEF sessionStore
  <2>2. behind' = 0 \/ behind' = behind
    BY DEF Behind
  <2>3. open # NoTitle => lastAutosave < AutosaveEvery
    BY <1>2 DEF Due, Inv, Types, SessionTypeOK, Sessions
  <2>4. Types'
    BY <2>1, <2>2 DEF Inv, Types, SessionTypeOK
  <2>5. Sessions' /\ Placed' /\ StoredOfThisBook'
    BY <2>1 DEF Inv, Sessions, Placed, StoredOfThisBook
  <2>6. Timely'
    <3>1. lastAutosave \in Nat
      BY DEF Inv, Types, SessionTypeOK
    <3> QED BY <2>1, <2>2, <2>3, <3>1 DEF Inv, Timely, Late
  <2>7. Counted'
    BY <2>1, StillCounted
  <2> QED BY <2>4, <2>5, <2>6, <2>7, CountedIsTimeCounted DEF Inv
<1> QED BY <1>1, <1>2

\* A program that is gone has the types of one that was never started.
LEMMA GoneTypes ==
    ASSUME Inv, Gone,
           saved' \in [Titles -> Places \cup {NoPlace}],
           readSeconds' \in [Titles -> Nat], due' \in [Titles -> Int]
    PROVE  Types'
<1> USE DEF Gone
<1>1. {running', wrapped', fromBottom', leaving'} \subseteq BOOLEAN
  OBVIOUS
<1>2. place' \in Places /\ started' = Off /\ heldFrac' = Off /\ lastAutosave' \in 0 .. AutosaveEvery + 2
  BY DEF Top, Places
<1>3. behind' = 0 /\ clock' = clock /\ been' = been /\ phase' = "keys"
  OBVIOUS
<1> QED BY <1>1, <1>2, <1>3 DEF Inv, Types, SessionTypeOK

\* What is saved at the end.
LEMMA OnExitInv == ASSUME Inv, OnExit PROVE Inv'
<1> USE DEF OnExit, Gone
<1>1. Counted' /\ readSeconds' \in [Titles -> Nat] /\ due' \in [Titles -> Int]
  BY BankCounted
<1>2. StoredOfThisBook' /\ saved' \in [Titles -> Places \cup {NoPlace}]
  BY StoredKept
<1>3. Types'
  BY <1>1, <1>2, GoneTypes
<1>4. Sessions' /\ Timely' /\ Placed'
  BY DEF Sessions, Timely, Placed, Top
<1> QED BY <1>1, <1>2, <1>3, <1>4, CountedIsTimeCounted DEF Inv

\* A sudden end takes what was not banked off what the book is due.
LEMMA SuddenEndInv == ASSUME Inv, SuddenEnd PROVE Inv'
<1> USE DEF SuddenEnd, Gone, sessionStore
<1>1. /\ open \in Titles \cup {NoTitle} /\ started \in Nat \cup {Off} /\ due \in [Titles -> Int]
      /\ readSeconds \in [Titles -> Nat] /\ clock \in Nat
      /\ open # NoTitle => started # Off
  BY DEF Inv, Types, SessionTypeOK, Sessions
<1>2. due' \in [Titles -> Int]
  BY <1>1
<1>3. Types'
  BY <1>1, <1>2, GoneTypes DEF Inv, Types, SessionTypeOK
<1>4. Sessions' /\ Timely' /\ Placed' /\ StoredOfThisBook'
  BY DEF Inv, Sessions, Timely, Placed, Top, StoredOfThisBook
<1>5. Counted'
  <2>1. Counted
    BY CountedIsTimeCounted DEF Inv
  <2>2. Ran \in Nat /\ Ran' = 0 /\ Total(readSeconds) \in Nat
    BY <1>1, TotalIsNat DEF Ran
  <2>3. 2 * Total(readSeconds) + 0 <= clock
    <3>1. 2 * Total(readSeconds) + Ran <= clock
      BY <2>1 DEF Counted
    <3> QED BY <1>1, <2>2, <3>1
  <2>4. ASSUME NEW b \in Titles PROVE 2 * readSeconds[b] + Running(b)' >= due'[b]
    <3>1. 2 * readSeconds[b] + Running(b) >= due[b] /\ readSeconds[b] \in Nat /\ due[b] \in Int
      BY <1>1, <2>1 DEF Counted
    <3>2. Running(b)' = 0
      BY DEF Running
    <3>3. CASE b = open
      <4>1. started \in Nat /\ Running(b) = started /\ due'[b] = due[b] - started
        BY <1>1, <3>3 DEF Running
      <4> QED BY <3>1, <3>2, <4>1
    <3>4. CASE b # open
      <4>1. Running(b) = 0 /\ due'[b] = due[b]
        BY <1>1, <3>4 DEF Running
      <4> QED BY <3>1, <3>2, <4>1
    <3> QED BY <3>3, <3>4
  <2> QED BY <2>2, <2>3, <2>4 DEF Counted
<1> QED BY <1>3, <1>4, <1>5, CountedIsTimeCounted DEF Inv

\* Time passes for every clock at once, up to where the autosave's is capped.
LEMMA ElapseInv == ASSUME Inv, Elapse PROVE Inv'
<1> USE DEF Elapse, viewer, sessionStore
<1>1. /\ open \in Titles \cup {NoTitle} /\ started \in Nat \cup {Off} /\ due \in [Titles -> Int]
      /\ readSeconds \in [Titles -> Nat] /\ clock \in Nat /\ behind \in Nat
      /\ open # NoTitle => started # Off
      /\ lastAutosave \in 0 .. AutosaveEvery + 2
  BY DEF Inv, Types, SessionTypeOK, Sessions
<1>2. lastAutosave' = IF lastAutosave = AutosaveEvery + 2 THEN lastAutosave ELSE lastAutosave + 1
  BY <1>1, SmallerOfTwo
<1>3. behind' = 0 \/ behind' = behind + 1
  BY DEF Behind
<1>4. started' \in Nat \cup {Off} /\ due' \in [Titles -> Int]
  BY <1>1
<1>5. Types'
  BY <1>1, <1>2, <1>3, <1>4 DEF Inv, Types, SessionTypeOK
<1>6. Sessions' /\ Placed' /\ StoredOfThisBook'
  BY <1>1 DEF Inv, Sessions, Placed, StoredOfThisBook, Off
<1>7. Timely'
  <2>1. open # NoTitle => started \in Nat /\ started' = started + 1
    BY <1>1
  <2> QED BY <1>1, <1>2, <1>3, <2>1 DEF Inv, Timely, Late
<1>8. Counted'
  <2>1. Counted
    BY CountedIsTimeCounted DEF Inv
  <2>2. Ran \in Nat /\ Ran' <= Ran + 1 /\ Ran' \in Nat /\ Total(readSeconds) \in Nat
    BY <1>1, TotalIsNat DEF Ran, Off
  <2>3. 2 * Total(readSeconds) + Ran' <= clock'
    <3>1. 2 * Total(readSeconds) + Ran <= clock
      BY <2>1 DEF Counted
    <3> QED BY <1>1, <2>2, <3>1
  <2>4. ASSUME NEW b \in Titles PROVE 2 * readSeconds[b] + Running(b)' >= due'[b]
    <3>1. 2 * readSeconds[b] + Running(b) >= due[b] /\ readSeconds[b] \in Nat /\ due[b] \in Int
      BY <1>1, <2>1 DEF Counted
    <3>2. CASE b = open
      <4>1. /\ started \in Nat /\ Running(b) = started /\ Running(b)' = started + 1
            /\ due'[b] = due[b] + 1
        BY <1>1, <3>2 DEF Running, Off
      <4> QED BY <3>1, <4>1
    <3>3. CASE b # open
      <4>1. Running(b) = 0 /\ Running(b)' = 0 /\ due'[b] = due[b]
        BY <1>1, <3>3 DEF Running
      <4> QED BY <3>1, <4>1
    <3> QED BY <3>2, <3>3
  <2> QED BY <2>3, <2>4 DEF Counted
<1> QED BY <1>5, <1>6, <1>7, <1>8, CountedIsTimeCounted DEF Inv

-----------------------------------------------------------------------------
(* The theorems.                                                           *)

\* Every step of the session keeps the invariant.
LEMMA NextInv == ASSUME Inv, [SessionNext]_sessionVars PROVE Inv'
<1>1. CASE OpenShelf \/ OpenFails \/ CloseBook
  BY <1>1, OpenShelfInv, OpenFailsInv, CloseBookInv
<1>2. CASE LeaveProgram \/ KeysEnd \/ NoFrame \/ Signal \/ UNCHANGED sessionVars
  BY <1>2, ControlSteps
<1>3. CASE TickAutosave \/ EaseScroll \/ DrawReader \/ OnExit \/ SuddenEnd \/ Elapse
  BY <1>3, TickAutosaveInv, EaseScrollInv, DrawReaderInv, OnExitInv, SuddenEndInv, ElapseInv
<1>4. CASE \E b \in Titles : LaunchBook(b) \/ OpenSelected(b)
  BY <1>4, LaunchBookInv, OpenSelectedInv
<1>5. CASE \E s \in 0 .. LastSection : JumpToSection(s)
  BY <1>5, JumpToSectionInv
<1> QED BY <1>1, <1>2, <1>3, <1>4, <1>5 DEF SessionNext

\* The inductive invariant of the session.
THEOREM SessionInvariance == SessionSpec => []Inv
<1>1. Inv /\ [SessionNext]_sessionVars => Inv'
  BY NextInv
<1> QED BY InitInv, <1>1, PTL DEF SessionSpec

\* Types of the session, the reader, the clocks and the store.
THEOREM SessionTypes == SessionSpec => []SessionTypeOK
<1>1. Inv => SessionTypeOK
  BY DEF Inv, Types
<1> QED BY SessionInvariance, <1>1, PTL

\* What flush_reading_time (app/mod.rs) gives the store and what the clock
\* still holds make up the time a book was open, and over all the books no
\* half second is credited twice, whatever was opened, previewed, closed,
\* signalled or killed.
THEOREM ReadingTimeCounted == SessionSpec => []TimeCounted
<1>1. Inv => TimeCounted
  BY DEF Inv
<1> QED BY SessionInvariance, <1>1, PTL

\* A save (save_progress, tick_autosave and apply, app/mod.rs) goes to the book
\* that is open, and a sudden end costs less than one autosave interval.
THEOREM SavesAreSound == SessionSpec => []SavesSound
<1>1. Inv => LossBounded
  <2> SUFFICES ASSUME Inv, running, phase = "scroll", open # NoTitle
               PROVE  started < AutosaveEvery /\ behind < AutosaveEvery
    BY DEF LossBounded
  <2>1. lastAutosave < AutosaveEvery /\ lastAutosave \in Nat /\ behind \in Nat /\ started \in Int
    BY DEF Inv, Types, SessionTypeOK, Timely, Off
  <2> QED BY <2>1 DEF Inv, Timely, Late
<1>2. Inv => StoredOfThisBook
  BY DEF Inv
<1> QED BY SessionInvariance, <1>1, <1>2, PTL DEF SavesSound
================================================================================
