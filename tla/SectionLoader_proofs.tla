------------------------- MODULE SectionLoader_proofs -------------------------
(* TLAPS proofs about SectionLoader, for any number of sections, any window,  *)
(* any cache size and both kinds of document; and about the marks on the      *)
(* wrapped lines of PageMarks, for any book, any widths and any page.         *)
EXTENDS SectionLoader, PageMarks, DataLemmas, FiniteSetTheorems, SequenceTheorems

IsCache(c) == DOMAIN c \subseteq Sections /\ c \in [DOMAIN c -> Content]

-----------------------------------------------------------------------------
(* Lemmas about the helpers.                                                  *)

\* The sections are numbered.
LEMMA SectionsFinite == IsFiniteSet(Sections) /\ Sections \subseteq Nat
<1>1. NumSections \in Nat
  BY SectionLoaderAssumption
<1>2. IsFiniteSet(0 .. NumSections - 1)
  BY <1>1, FS_Interval
<1>3. QED BY <1>1, <1>2 DEF Sections

(* Sending W in order sends sections, and every one of W.                     *)
LEMMA InOrderSends ==
    ASSUME NEW W \in SUBSET Sections, NEW rank, NEW q \in InOrder(W, rank)
    PROVE  /\ q \in Seq(Sections)
           /\ \A t \in W : \E i \in 1 .. Len(q) : q[i] = t
<1>1. IsFiniteSet(W) /\ Cardinality(W) \in Nat
  BY SectionsFinite, FS_Subset, FS_CardinalityType
<1>2. q \in [1 .. Cardinality(W) -> W] /\ \A t \in W : \E i \in DOMAIN q : q[i] = t
  BY DEF InOrder
<1>3. q \in Seq(W) /\ DOMAIN q = 1 .. Len(q)
  BY <1>1, <1>2
<1>4. q \in Seq(Sections)
  <2>1. q \in [1 .. Cardinality(W) -> Sections]
    BY <1>2
  <2>2. QED BY <1>1, <2>1
<1>5. QED BY <1>2, <1>3, <1>4

(* What eviction keeps was there.                                             *)
LEMMA KeptWasThere ==
    ASSUME NEW c, NEW sec, NEW K \in Kept(c, sec)
    PROVE  K \subseteq DOMAIN c
BY DEF Kept

\* A cache cut down to some of its sections.
LEMMA EvictedIsCache ==
    ASSUME NEW c, IsCache(c), NEW K \in SUBSET DOMAIN c
    PROVE  IsCache(Evicted(c, K)) /\ DOMAIN Evicted(c, K) = K
BY DEF IsCache, Evicted

(* Draining adds exactly the sections that carried blocks.                    *)
LEMMA DrainedIsCache ==
    ASSUME TypeOK, NEW c, IsCache(c)
    PROVE  IsCache(Drained(c)) /\ DOMAIN Drained(c) = DOMAIN c \cup Landed
<1>1. resQ \in Seq([index : Sections, answer : Content \cup {NoBlocks}]) /\ Len(resQ) \in Nat
  BY DEF TypeOK
<1>2. \A i \in 1 .. Len(resQ) : resQ[i] \in [index : Sections, answer : Content \cup {NoBlocks}]
  BY <1>1, ElementOfSeq
<1>3. Landed \subseteq Sections
  BY <1>2 DEF Landed, Answered, Indices
<1>4. ASSUME NEW s \in Landed
      PROVE  resQ[Newest(s)].answer \in Content
  <2>1. Carrying(s) \in SUBSET (1 .. Len(resQ)) /\ Carrying(s) # {}
    BY DEF Landed, Carrying, Indices
  <2>2. \E m \in Carrying(s) : \A j \in Carrying(s) : j <= m
    BY <1>1, <2>1, GreatestElement
  <2>3. Newest(s) \in Carrying(s)
    BY <2>2 DEF Newest
  <2>4. QED BY <1>2, <2>1, <2>3 DEF Carrying
<1>5. QED BY <1>3, <1>4 DEF IsCache, Drained

(* The tail of every navigation: the new cache is typed, nothing asked for    *)
(* earlier leaves the request channel, and all that became requested is in it *)
LEMMA AskSends ==
    ASSUME TypeOK, NEW c, IsCache(c), NEW r \in SUBSET Sections, NEW sec \in Sections,
           NEW back, NEW own \in SUBSET Sections, NEW looks \in SUBSET Sections,
           AskAndEvict(c, r, sec, back, own, looks)
    PROVE  /\ IsCache(cache') /\ DOMAIN cache' \in Kept(c, sec)
           /\ requested' \in SUBSET Sections
           /\ reqQ' \in Seq(Sections)
           /\ requested' \subseteq r \cup Pending'
           /\ Pending \subseteq Pending'
<1> PICK K \in Kept(c, sec) :
        LET kept   == Evicted(c, K)
            first  == Needed(Window(sec) \cup own, c, r)
            second == Needed(looks, kept, r \cup first)
        IN  /\ \E q \in InOrder(first, Rank(sec, back)), p \in InOrder(second, Rank(sec, FALSE)) :
                  reqQ' = reqQ \o q \o p
            /\ requested' = r \cup first \cup second
            /\ cache' = kept
  BY DEF AskAndEvict
<1> DEFINE first  == Needed(Window(sec) \cup own, c, r)
           second == Needed(looks, Evicted(c, K), r \cup first)
           rank   == Rank(sec, FALSE)
<1>1. IsCache(cache') /\ DOMAIN cache' = K
  BY KeptWasThere, EvictedIsCache
<1>2. first \in SUBSET Sections /\ second \in SUBSET Sections
  BY DEF Needed, Window
<1>3. requested' = r \cup first \cup second
  OBVIOUS
<1> HIDE DEF first, second, rank
<1>4. PICK q \in InOrder(first, Rank(sec, back)), p \in InOrder(second, rank) :
          reqQ' = reqQ \o q \o p
  BY DEF first, second, rank
<1>13. q \in Seq(Sections) /\ \A t \in first : \E i \in 1 .. Len(q) : q[i] = t
  BY <1>2, <1>4, InOrderSends
<1>14. p \in Seq(Sections) /\ \A t \in second : \E i \in 1 .. Len(p) : p[i] = t
  BY <1>2, <1>4, InOrderSends
<1>5. /\ q \in Seq(Sections) /\ \A t \in first : \E i \in 1 .. Len(q) : q[i] = t
      /\ p \in Seq(Sections) /\ \A t \in second : \E i \in 1 .. Len(p) : p[i] = t
  BY <1>13, <1>14
<1>6. reqQ \in Seq(Sections)
  BY DEF TypeOK
<1>7. /\ reqQ' \in Seq(Sections)
      /\ Len(reqQ') = Len(reqQ) + Len(q) + Len(p)
      /\ \A i \in 1 .. Len(reqQ) : reqQ'[i] = reqQ[i]
      /\ \A i \in 1 .. Len(q) : reqQ'[Len(reqQ) + i] = q[i]
      /\ \A i \in 1 .. Len(p) : reqQ'[Len(reqQ) + Len(q) + i] = p[i]
  BY <1>4, <1>5, <1>6
<1>8. Len(reqQ) \in Nat /\ Len(q) \in Nat /\ Len(p) \in Nat
  BY <1>5, <1>6
<1>9. first \subseteq Pending'
  <2> SUFFICES ASSUME NEW t \in first PROVE t \in Pending'
    OBVIOUS
  <2>1. PICK i \in 1 .. Len(q) : q[i] = t
    BY <1>5
  <2>2. Len(reqQ) + i \in 1 .. Len(reqQ')
    BY <1>7, <1>8
  <2>3. QED BY <1>7, <2>1, <2>2 DEF Pending, Indices
<1>10. second \subseteq Pending'
  <2> SUFFICES ASSUME NEW t \in second PROVE t \in Pending'
    OBVIOUS
  <2>1. PICK i \in 1 .. Len(p) : p[i] = t
    BY <1>5
  <2>2. Len(reqQ) + Len(q) + i \in 1 .. Len(reqQ')
    BY <1>7, <1>8
  <2>3. QED BY <1>7, <2>1, <2>2 DEF Pending, Indices
<1>11. Pending \subseteq Pending'
  <2>1. \A i \in 1 .. Len(reqQ) : i \in 1 .. Len(reqQ') /\ reqQ'[i] = reqQ[i]
    BY <1>7, <1>8
  <2>2. QED BY <2>1 DEF Pending, Indices
<1>12. QED BY <1>1, <1>2, <1>3, <1>7, <1>9, <1>10, <1>11

(* Sending W after what is queued: typed, in order, nothing lost.             *)
LEMMA SendAppends ==
    ASSUME TypeOK, NEW W \in SUBSET Sections, NEW rank, NEW q \in InOrder(W, rank),
           reqQ' = reqQ \o q
    PROVE  reqQ' \in Seq(Sections) /\ W \subseteq Pending' /\ Pending \subseteq Pending'
<1>1. q \in Seq(Sections) /\ \A t \in W : \E i \in 1 .. Len(q) : q[i] = t
  BY InOrderSends
<1>2. reqQ \in Seq(Sections)
  BY DEF TypeOK
<1>3. /\ reqQ' \in Seq(Sections)
      /\ Len(reqQ') = Len(reqQ) + Len(q)
      /\ \A i \in 1 .. Len(reqQ) : reqQ'[i] = reqQ[i]
      /\ \A i \in 1 .. Len(q) : reqQ'[Len(reqQ) + i] = q[i]
  BY <1>1, <1>2
<1>4. Len(reqQ) \in Nat /\ Len(q) \in Nat
  BY <1>1, <1>2
<1>5. ASSUME NEW t \in W PROVE t \in Pending'
  <2>1. PICK i \in 1 .. Len(q) : q[i] = t
    BY <1>1
  <2>2. Len(reqQ) + i \in 1 .. Len(reqQ')
    BY <1>3, <1>4
  <2>3. QED BY <1>3, <2>1, <2>2 DEF Pending, Indices
<1>6. \A i \in 1 .. Len(reqQ) : i \in 1 .. Len(reqQ') /\ reqQ'[i] = reqQ[i]
  BY <1>3, <1>4
<1>7. Pending \subseteq Pending'
  BY <1>6 DEF Pending, Indices
<1>8. QED BY <1>3, <1>5, <1>7

(* What is not cached is decoded into the cache; the rest is left alone.      *)
LEMMA FetchedIsCache ==
    ASSUME NEW c, IsCache(c), NEW s \in Sections, NEW content \in Content
    PROVE  IsCache(Fetched(c, s, content)) /\ DOMAIN Fetched(c, s, content) = DOMAIN c \cup {s}
BY DEF IsCache, Fetched

\* The empty cache.
LEMMA EmptyIsCache == IsCache(<<>>)
BY DEF IsCache

\* What the helpers return.
LEMMA HelperTypes ==
    ASSUME TypeOK
    PROVE  /\ FirstContent \in Content
           /\ \A s \in Sections : Window(s) \in SUBSET Sections
           /\ Answered \in SUBSET Sections
           /\ \A F \in Looks : F \in SUBSET Sections
           /\ \A d : Ticks(d) \subseteq Nat
           /\ IsCache(cache)
<1>1. resQ \in Seq([index : Sections, answer : Content \cup {NoBlocks}]) /\ Len(resQ) \in Nat
  BY DEF TypeOK
<1>2. \A i \in 1 .. Len(resQ) : resQ[i] \in [index : Sections, answer : Content \cup {NoBlocks}]
  BY <1>1, ElementOfSeq
<1>3. Answered \in SUBSET Sections
  BY <1>2 DEF Answered, Indices
<1>4. FirstContent \in Content
  BY DEF FirstContent, Content
<1>5. \A F \in Looks : F \in SUBSET Sections
  BY DEF Looks
<1>6. \A d : Ticks(d) \subseteq Nat
  BY DEF Ticks, TypeOK
<1>7. QED BY <1>3, <1>4, <1>5, <1>6 DEF Window, IsCache, TypeOK

-----------------------------------------------------------------------------
(* The inductive invariant: what the runs check, and that the loader judges   *)
(* staleness against the section the reader is really on.                     *)

Inv ==
    /\ TypeOK
    /\ NoOrphanRequest
    /\ ShownStaysCached
    /\ loaderCurrent = section

\* The book just opened.
LEMMA InitInv == Init => Inv
<1> SUFFICES ASSUME Init PROVE Inv
  OBVIOUS
<1>1. Start \in Sections /\ Window(Start) \in SUBSET Sections
  BY SectionLoaderAssumption DEF Window
<1>2. FirstContent \in Content
  BY DEF FirstContent, Content
<1> DEFINE rank == Rank(Start, FALSE)
<1>3. reqQ \in InOrder(Window(Start), rank)
  BY DEF Init
<1> HIDE DEF rank
<1>4. reqQ \in Seq(Sections)
  BY <1>1, <1>3, InOrderSends
<1>5. DOMAIN cache \subseteq Sections /\ cache \in [DOMAIN cache -> Content]
  BY <1>1, <1>2 DEF Init
<1>6. worker \in [pc : {"idle", "judge", "decode", "answer", "done"},
                  index : Sections, answer : Content \cup {NoBlocks}]
  BY <1>1 DEF Init
<1>7. resQ \in Seq([index : Sections, answer : Content \cup {NoBlocks}])
  BY DEF Init
<1>8. TypeOK
  BY <1>1, <1>2, <1>4, <1>5, <1>6, <1>7 DEF Init, TypeOK
<1>9. NoOrphanRequest
  <2>1. \A t \in Window(Start) : \E i \in 1 .. Len(reqQ) : reqQ[i] = t
    BY <1>1, <1>3, InOrderSends
  <2>2. requested = Window(Start)
    BY DEF Init
  <2>3. QED BY <2>1, <2>2 DEF NoOrphanRequest, InFlight, Pending, Indices
<1>10. QED BY <1>8, <1>9 DEF Init, Inv, ShownStaysCached

(* Taking the answered sections out of `requested` and sending for whatever   *)
(* is put into it leaves no request behind, whichever handler does it.        *)
LEMMA RequestsTracked ==
    ASSUME NoOrphanRequest, NEW r \in SUBSET (requested \ Answered),
           requested' \subseteq r \cup Pending', Pending \subseteq Pending',
           worker' = worker, open' = open
    PROVE  NoOrphanRequest'
<1>1. Busy' = Busy
  BY DEF Busy
<1>2. open => requested \subseteq Pending \cup Busy \cup Answered
  BY DEF NoOrphanRequest, InFlight
<1>3. QED BY <1>1, <1>2 DEF NoOrphanRequest, InFlight

(* A section that is cached is never the one evicted around it, and what is   *)
(* left is within the cap.                                                    *)
LEMMA KeptHolds ==
    ASSUME NEW c, NEW sec, NEW K \in Kept(c, sec)
    PROVE  /\ sec \in DOMAIN c => sec \in K
           /\ Cardinality(K) <= CacheCap
<1>1. CacheCap \in Nat
  BY SectionLoaderAssumption
<1>2. QED BY <1>1 DEF Kept

(* Navigation keeps the invariant, and leaves the cache bounded and holding   *)
(* the section gone to if it was there or had landed.                         *)
GoneTo(s) ==
    /\ section' = s
    /\ Cardinality(DOMAIN cache') <= CacheCap
    /\ s \in DOMAIN cache \cup Landed => s \in DOMAIN cache'


\* A jump to a section.
LEMMA GoInv == ASSUME Inv, NEW s \in Sections, Go(s) PROVE Inv' /\ GoneTo(s)
<1> DEFINE c == Drained(cache)
           r == requested \ Answered
           back == s < section
<1>1. /\ IsCache(c) /\ DOMAIN c = DOMAIN cache \cup Landed
      /\ r \in SUBSET Sections /\ r \in SUBSET (requested \ Answered)
      /\ {s} \in SUBSET Sections /\ {} \in SUBSET Sections
  BY HelperTypes, DrainedIsCache DEF TypeOK, Inv
<1>2. CASE Paged /\ AskAndEvict(c, r, s, back, {s}, {})
              /\ shown' = (IF s \in DOMAIN c THEN c[s] ELSE NoBlocks) /\ refGen' = refGen
  <2>1. /\ IsCache(cache') /\ DOMAIN cache' \in Kept(c, s)
        /\ requested' \in SUBSET Sections /\ reqQ' \in Seq(Sections)
        /\ requested' \subseteq r \cup Pending' /\ Pending \subseteq Pending'
    <3>1. AskAndEvict(c, r, s, back, {s}, {})
      BY <1>2
    <3> HIDE DEF c, r, back
    <3>2. QED BY <1>1, <3>1, AskSends DEF Inv
  <2>2. shown' \in Content \cup {NoBlocks}
    BY <1>1, <1>2 DEF IsCache
  <2>3. TypeOK'
    BY <1>2, <2>1, <2>2 DEF Go, TypeOK, IsCache, Inv
  <2>4. NoOrphanRequest'
    BY <1>1, <2>1, RequestsTracked DEF Go, Inv
  <2>5. GoneTo(s)
    BY <1>1, <2>1, KeptHolds DEF Go, GoneTo
  <2>6. QED BY <1>2, <2>3, <2>4, <2>5 DEF Go, Inv, ShownStaysCached
<1>3. ASSUME ~Paged, NEW ref \in Ticks(s \notin DOMAIN c), refGen' = ref,
             LET f == Fetched(c, s, [set |-> settings, ref |-> ref])
             IN  shown' = f[s] /\ AskAndEvict(f, r, s, back, {}, {})
      PROVE  Inv' /\ GoneTo(s)
  <2> DEFINE content == [set |-> settings, ref |-> ref]
             f == Fetched(c, s, content)
  <2>1. ref \in Nat
    BY <1>3, HelperTypes DEF Inv
  <2>2. IsCache(f) /\ DOMAIN f = DOMAIN c \cup {s}
    <3>1. content \in Content
      BY <2>1 DEF TypeOK, Content, Inv
    <3>2. IsCache(c)
      BY <1>1
    <3> HIDE DEF c, content
    <3>3. QED BY ONLY <3>1, <3>2, s \in Sections, FetchedIsCache
  <2>3. /\ IsCache(cache') /\ DOMAIN cache' \in Kept(f, s)
        /\ requested' \in SUBSET Sections /\ reqQ' \in Seq(Sections)
        /\ requested' \subseteq r \cup Pending' /\ Pending \subseteq Pending'
    <3>1. AskAndEvict(f, r, s, back, {}, {})
      BY <1>3
    <3> HIDE DEF f, r, back
    <3>2. QED BY <1>1, <2>2, <3>1, AskSends DEF Inv
  <2>4. shown' \in Content
    BY <1>3, <2>2 DEF IsCache
  <2>5. TypeOK'
    BY <1>3, <2>1, <2>3, <2>4 DEF Go, TypeOK, IsCache, Inv
  <2>6. NoOrphanRequest'
    BY <1>1, <2>3, RequestsTracked DEF Go, Inv
  <2>7. s \in DOMAIN cache' /\ GoneTo(s)
    BY <1>1, <2>2, <2>3, KeptHolds DEF Go, GoneTo
  <2>8. QED BY <2>5, <2>6, <2>7 DEF Go, Inv, ShownStaysCached
<1>4. QED BY <1>2, <1>3 DEF Go

\* A scroll into a neighbouring section.
LEMMA RollInv == ASSUME Inv, NEW s \in Sections, Roll(s) PROVE Inv' /\ GoneTo(s)
<1> DEFINE c == Drained(cache)
           r == requested \ Answered
           back == s < section
<1>1. /\ IsCache(c) /\ DOMAIN c = DOMAIN cache \cup Landed
      /\ r \in SUBSET Sections /\ r \in SUBSET (requested \ Answered)
      /\ {} \in SUBSET Sections
  BY HelperTypes, DrainedIsCache DEF TypeOK, Inv
<1>2. /\ IsCache(cache') /\ DOMAIN cache' \in Kept(c, s)
      /\ requested' \in SUBSET Sections /\ reqQ' \in Seq(Sections)
      /\ requested' \subseteq r \cup Pending' /\ Pending \subseteq Pending'
  <2>1. AskAndEvict(c, r, s, back, {}, {})
    BY DEF Roll
  <2> HIDE DEF c, r, back
  <2>2. QED BY <1>1, <2>1, AskSends DEF Inv
<1>3. TypeOK'
  BY <1>2 DEF Roll, TypeOK, IsCache, Inv, globalVars
<1>4. NoOrphanRequest'
  BY <1>1, <1>2, RequestsTracked DEF Roll, Inv
<1>5. GoneTo(s)
  BY <1>1, <1>2, KeptHolds DEF Roll, GoneTo
<1>6. QED BY <1>3, <1>4, <1>5 DEF Roll, Inv, ShownStaysCached

\* Every section fetched in turn, nothing evicted.
LEMMA ScanBookInv == ASSUME Inv, ScanBook PROVE Inv'
<1> DEFINE c == Drained(cache)
           r == requested \ Answered
           absent == Sections \ DOMAIN c
<1>1. /\ IsCache(c) /\ DOMAIN c = DOMAIN cache \cup Landed
      /\ r \in SUBSET Sections /\ r \in SUBSET (requested \ Answered)
  BY HelperTypes, DrainedIsCache DEF TypeOK, Inv
<1>2. ASSUME Paged, NEW q \in InOrder(absent \ r, [t \in Sections |-> t]), reqQ' = reqQ \o q,
             requested' = r \cup absent, cache' = c, refGen' = refGen
      PROVE  Inv'
  <2> DEFINE W == absent \ r
             rank == [t \in Sections |-> t]
  <2>1. reqQ' \in Seq(Sections) /\ W \subseteq Pending' /\ Pending \subseteq Pending'
    <3>1. W \in SUBSET Sections /\ q \in InOrder(W, rank)
      OBVIOUS
    <3> HIDE DEF W, rank
    <3>2. QED BY <1>2, <3>1, SendAppends DEF Inv
  <2>2. TypeOK'
    BY <1>1, <1>2, <2>1 DEF ScanBook, TypeOK, IsCache, Inv
  <2>3. requested' \subseteq r \cup Pending'
    BY <1>2, <2>1
  <2>4. NoOrphanRequest'
    BY <1>1, <2>1, <2>3, RequestsTracked DEF ScanBook, Inv
  <2>5. QED BY <1>2, <2>2, <2>4 DEF ScanBook, Inv, ShownStaysCached
<1>3. ASSUME ~Paged, NEW ref \in Ticks(absent # {}), refGen' = ref,
             cache' = [t \in Sections |->
                         IF t \in absent THEN [set |-> settings, ref |-> ref] ELSE c[t]],
             requested' = r, reqQ' = reqQ
      PROVE  Inv'
  <2>1. ref \in Nat
    BY <1>3, HelperTypes DEF Inv
  <2>2. IsCache(cache') /\ DOMAIN cache' = Sections
    <3>1. [set |-> settings, ref |-> ref] \in Content
      BY <2>1 DEF TypeOK, Content, Inv
    <3>2. \A t \in Sections \ absent : c[t] \in Content
      BY <1>1 DEF IsCache
    <3> HIDE DEF c, absent
    <3>3. QED BY <1>3, <3>1, <3>2 DEF IsCache
  <2>3. TypeOK'
    BY <1>1, <1>3, <2>1, <2>2 DEF ScanBook, TypeOK, IsCache, Inv
  <2>4. Pending' = Pending
    BY <1>3 DEF Pending, Indices
  <2>5. NoOrphanRequest'
    BY <1>1, <1>3, <2>4, RequestsTracked DEF ScanBook, Inv
  <2>6. QED BY <2>2, <2>3, <2>5 DEF ScanBook, Inv, ShownStaysCached, TypeOK
<1>4. QED BY <1>2, <1>3 DEF ScanBook

\* The answers taken in.
LEMMA PollInv == ASSUME Inv, Poll PROVE Inv'
<1>1. IsCache(Drained(cache)) /\ Answered \in SUBSET Sections
  BY HelperTypes, DrainedIsCache DEF Inv
<1>2. TypeOK'
  BY <1>1 DEF Poll, TypeOK, IsCache, Inv, globalVars
<1>3. Pending' = Pending
  BY DEF Poll, Pending, Indices
<1>4. NoOrphanRequest'
  BY <1>3, RequestsTracked DEF Poll, Inv
<1>5. QED BY <1>2, <1>4 DEF Poll, Inv, ShownStaysCached

\* A frame of a PDF's stack.
LEMMA DrawStackInv == ASSUME Inv, DrawStack PROVE Inv'
<1> PICK F \in Looks : LET W == Needed(F, cache, requested)
                       IN  /\ \E q \in InOrder(W, Rank(section, FALSE)) : reqQ' = reqQ \o q
                           /\ requested' = requested \cup W
  BY DEF DrawStack
<1> DEFINE W == Needed(F, cache, requested)
           rank == Rank(section, FALSE)
<1>1. W \in SUBSET Sections
  BY HelperTypes DEF Needed, Inv
<1>2. PICK q \in InOrder(W, rank) : reqQ' = reqQ \o q
  OBVIOUS
<1>3. requested' = requested \cup W
  OBVIOUS
<1> HIDE DEF W, rank
<1>4. reqQ' \in Seq(Sections) /\ W \subseteq Pending' /\ Pending \subseteq Pending'
  BY <1>1, <1>2, SendAppends DEF Inv
<1>5. TypeOK'
  BY <1>1, <1>3, <1>4 DEF DrawStack, TypeOK, Inv, globalVars
<1>6. Answered' = Answered /\ Busy' = Busy
  BY DEF DrawStack, Answered, Indices, Busy
<1>7. NoOrphanRequest'
  BY <1>3, <1>4, <1>6 DEF DrawStack, NoOrphanRequest, InFlight, Inv
<1>8. QED BY <1>5, <1>7 DEF DrawStack, Inv, ShownStaysCached

\* A frame of reflowed text.
LEMMA DrawTextInv == ASSUME Inv, DrawText PROVE Inv'
<1> DEFINE r == requested \ Answered
<1>1. /\ IsCache(cache') /\ DOMAIN cache' = DOMAIN cache \cup Landed
      /\ r \in SUBSET Sections /\ r \in SUBSET (requested \ Answered)
  BY HelperTypes, DrainedIsCache DEF DrawText, TypeOK, Inv
<1>2. PICK F \in Looks : LET W == Needed(F, cache', r)
                         IN  /\ \E q \in InOrder(W, Rank(section, FALSE)) : reqQ' = reqQ \o q
                             /\ requested' = r \cup W
  BY DEF DrawText
<1> DEFINE W == Needed(F, cache', r)
           rank == Rank(section, FALSE)
<1>3. W \in SUBSET Sections
  BY HelperTypes DEF Needed, Inv
<1>4. PICK q \in InOrder(W, rank) : reqQ' = reqQ \o q
  BY <1>2
<1>5. requested' = r \cup W
  BY <1>2
<1> HIDE DEF W, rank, r
<1>6. reqQ' \in Seq(Sections) /\ W \subseteq Pending' /\ Pending \subseteq Pending'
  BY <1>3, <1>4, SendAppends DEF Inv
<1>7. TypeOK'
  <2>1. requested' \in SUBSET Sections
    BY <1>1, <1>3, <1>5
  <2>2. /\ resQ' = <<>>
        /\ UNCHANGED <<section, shown, navBack, loaderCurrent, worker, globalVars, open>>
    BY DEF DrawText
  <2>3. QED BY <1>1, <1>6, <2>1, <2>2 DEF TypeOK, IsCache, Inv, globalVars
<1>8. requested' \subseteq r \cup Pending'
  BY <1>5, <1>6
<1>9. NoOrphanRequest'
  BY <1>1, <1>6, <1>8, RequestsTracked DEF DrawText, Inv
<1>10. QED BY <1>1, <1>7, <1>9 DEF DrawText, Inv, ShownStaysCached

\* A frame under new equation settings.
LEMMA DrawNewSettingsInv == ASSUME Inv, DrawNewSettings PROVE Inv'
<1> DEFINE c == Drained(<<>>)
<1>1. IsCache(c)
  BY EmptyIsCache, DrainedIsCache DEF Inv
<1>2. section \in Sections /\ settings' \in Nat /\ ~Paged
  BY DEF DrawNewSettings, TypeOK, Inv
<1>3. PICK ref \in Ticks(section \notin DOMAIN c) :
        LET f == Fetched(c, section, [set |-> settings', ref |-> ref])
        IN  /\ shown' = f[section]
            /\ refGen' = ref
            /\ \E F \in Looks : AskAndEvict(f, {}, section, navBack, {}, F)
  BY DEF DrawNewSettings
<1>4. ref \in Nat
  BY <1>3, HelperTypes DEF Inv
<1> DEFINE content == [set |-> settings', ref |-> ref]
           f == Fetched(c, section, content)
<1>5. IsCache(f) /\ DOMAIN f = DOMAIN c \cup {section}
  <2>1. content \in Content
    BY <1>2, <1>4 DEF Content
  <2> HIDE DEF c, content
  <2>2. QED BY ONLY <1>1, <1>2, <2>1, FetchedIsCache
<1>6. PICK F \in Looks : AskAndEvict(f, {}, section, navBack, {}, F)
  BY <1>3
<1>7. shown' \in Content
  BY <1>2, <1>3, <1>5 DEF IsCache
<1>8. /\ IsCache(cache') /\ DOMAIN cache' \in Kept(f, section)
      /\ requested' \in SUBSET Sections /\ reqQ' \in Seq(Sections)
      /\ requested' \subseteq {} \cup Pending' /\ Pending \subseteq Pending'
  <2>1. F \in SUBSET Sections /\ {} \in SUBSET Sections
    BY HelperTypes DEF Inv
  <2> HIDE DEF f
  <2>2. QED BY <1>2, <1>5, <1>6, <2>1, AskSends DEF Inv
<1>9. section \in DOMAIN cache'
  BY <1>5, <1>8, KeptHolds
<1>10. refGen' \in Nat
  BY <1>3, <1>4
<1>11. TypeOK'
  BY <1>2, <1>7, <1>8, <1>10 DEF DrawNewSettings, TypeOK, IsCache, Inv
<1>12. NoOrphanRequest'
  BY <1>8, RequestsTracked DEF DrawNewSettings, Inv
<1>13. QED BY <1>9, <1>11, <1>12 DEF DrawNewSettings, Inv, ShownStaysCached

\* A frame after a shift of the reference em.
LEMMA DrawAfterShiftInv == ASSUME Inv, DrawAfterShift PROVE Inv'
<1> DEFINE e == Evicted(cache, DOMAIN cache \cap {section})
           c == Drained(e)
           r == (requested \cap {section}) \ Answered
<1>1. IsCache(e) /\ DOMAIN e = DOMAIN cache \cap {section}
  BY HelperTypes, EvictedIsCache DEF Inv
<1>2. /\ IsCache(c) /\ DOMAIN c = DOMAIN e \cup Landed
      /\ r \in SUBSET Sections /\ r \in SUBSET (requested \ Answered)
  <2> HIDE DEF e
  <2>1. QED BY <1>1, DrainedIsCache DEF TypeOK, Inv
<1>3. PICK F \in Looks : AskAndEvict(c, r, section, navBack, {}, F)
  BY DEF DrawAfterShift
<1>4. /\ IsCache(cache') /\ DOMAIN cache' \in Kept(c, section)
      /\ requested' \in SUBSET Sections /\ reqQ' \in Seq(Sections)
      /\ requested' \subseteq r \cup Pending' /\ Pending \subseteq Pending'
  <2>1. F \in SUBSET Sections /\ {} \in SUBSET Sections /\ section \in Sections
    BY HelperTypes DEF Inv, TypeOK
  <2> HIDE DEF c, r
  <2>2. QED BY <1>2, <1>3, <2>1, AskSends DEF Inv
<1>5. ~Paged /\ section \in DOMAIN cache'
  BY <1>1, <1>2, <1>4, KeptHolds DEF DrawAfterShift, Inv, ShownStaysCached
<1>6. TypeOK'
  BY <1>4 DEF DrawAfterShift, TypeOK, IsCache, Inv
<1>7. NoOrphanRequest'
  BY <1>2, <1>4, RequestsTracked DEF DrawAfterShift, Inv
<1>8. QED BY <1>5, <1>6, <1>7 DEF DrawAfterShift, Inv, ShownStaysCached

\* The book closed.
LEMMA CloseInv == ASSUME Inv, Close PROVE Inv'
<1>1. TypeOK'
  BY DEF Close, TypeOK, Inv, mainVars, globalVars
<1>2. QED BY <1>1 DEF Close, Inv, mainVars, NoOrphanRequest, ShownStaysCached

-----------------------------------------------------------------------------
(* The loader thread: a request goes from the channel to the thread to the    *)
(* answer channel, never lost on the way.                                     *)

\* The loader takes a request.
LEMMA RecvInv == ASSUME Inv, Recv PROVE Inv'
<1>1. reqQ \in Seq(Sections) /\ reqQ # <<>>
  BY DEF Recv, TypeOK, Inv
<1>2. /\ reqQ' \in Seq(Sections) /\ Head(reqQ) \in Sections
      /\ Len(reqQ') = Len(reqQ) - 1 /\ Head(reqQ) = reqQ[1] /\ Len(reqQ) \in Nat
      /\ \A i \in 1 .. Len(reqQ') : reqQ'[i] = reqQ[i + 1]
  BY <1>1 DEF Recv
<1>3. TypeOK'
  <2>1. worker' \in [pc : {"idle", "judge", "decode", "answer", "done"},
                     index : Sections, answer : Content \cup {NoBlocks}]
    BY <1>2 DEF Recv, TypeOK, Inv
  <2>2. QED BY <1>2, <2>1 DEF Recv, TypeOK, Inv, mainVars, globalVars
<1>4. Pending \subseteq Pending' \cup {Head(reqQ)}
  <2>1. ASSUME NEW i \in 1 .. Len(reqQ), i # 1
        PROVE  i - 1 \in 1 .. Len(reqQ') /\ reqQ'[i - 1] = reqQ[i]
    BY <1>2, <2>1
  <2>2. QED BY <1>2, <2>1 DEF Pending, Indices
<1>5. Busy = {} /\ Busy' = {Head(reqQ)} /\ Answered' = Answered
  BY DEF Recv, Busy, Answered, Indices, TypeOK, Inv
<1>6. NoOrphanRequest'
  BY <1>4, <1>5 DEF Recv, NoOrphanRequest, InFlight, Inv, mainVars
<1>7. QED BY <1>3, <1>6 DEF Recv, Inv, ShownStaysCached, mainVars

\* It judges the request by the radar.
LEMMA JudgeInv == ASSUME Inv, Judge PROVE Inv'
<1>1. worker' \in [pc : {"idle", "judge", "decode", "answer", "done"},
                   index : Sections, answer : Content \cup {NoBlocks}]
  BY DEF Judge, TypeOK, Inv
<1>2. TypeOK'
  BY <1>1 DEF Judge, TypeOK, Inv, mainVars, globalVars
<1>3. Busy' = Busy /\ Pending' = Pending /\ Answered' = Answered
  BY DEF Judge, Busy, Pending, Answered, Indices, TypeOK, Inv
<1>4. QED BY <1>2, <1>3 DEF Judge, Inv, ShownStaysCached, NoOrphanRequest, InFlight, mainVars

\* It decodes the section.
LEMMA DecodeInv == ASSUME Inv, Decode PROVE Inv'
<1>1. PICK ref \in Ticks(~Paged) :
        /\ refGen' = ref
        /\ worker' = [worker EXCEPT !.pc = "answer", !.answer = [set |-> settings, ref |-> ref]]
  BY DEF Decode
<1>2. ref \in Nat
  BY <1>1, HelperTypes DEF Inv
<1>3. [set |-> settings, ref |-> ref] \in Content
  BY <1>2 DEF Content, TypeOK, Inv
<1>4. worker' \in [pc : {"idle", "judge", "decode", "answer", "done"},
                   index : Sections, answer : Content \cup {NoBlocks}]
  BY <1>1, <1>3 DEF TypeOK, Inv
<1>5. UNCHANGED <<mainVars, reqQ, resQ, settings, refSeen, open>> /\ refGen' \in Nat
  BY <1>1, <1>2 DEF Decode
<1>6. TypeOK'
  BY <1>4, <1>5 DEF TypeOK, Inv, mainVars
<1>7. worker.pc = "decode" /\ worker'.pc = "answer" /\ worker'.index = worker.index
  BY <1>1 DEF Decode, TypeOK, Inv
<1>8. Busy' = Busy /\ Pending' = Pending /\ Answered' = Answered
  BY <1>5, <1>7 DEF Busy, Pending, Answered, Indices
<1>9. QED BY <1>5, <1>6, <1>8 DEF Inv, ShownStaysCached, NoOrphanRequest, InFlight, mainVars

\* It sends the answer.
LEMMA AnswerInv == ASSUME Inv, Answer PROVE Inv'
<1> DEFINE a == [index |-> worker.index, answer |-> worker.answer]
           Answers == [index : Sections, answer : Content \cup {NoBlocks}]
<1>1. a \in Answers /\ resQ \in Seq(Answers)
  BY DEF TypeOK, Inv
<1>2. worker' \in [pc : {"idle", "judge", "decode", "answer", "done"},
                   index : Sections, answer : Content \cup {NoBlocks}]
  BY DEF Answer, TypeOK, Inv
<1>3. resQ' \in Seq(Answers)
  <2> HIDE DEF a, Answers
  <2>1. Append(resQ, a) \in Seq(Answers)
    BY <1>1
  <2>2. QED BY <1>1, <2>1 DEF Answer, a
<1>4. TypeOK'
  BY <1>2, <1>3 DEF Answer, TypeOK, Inv, mainVars, globalVars
<1>5. open' => NoOrphanRequest'
  <2> SUFFICES ASSUME open' PROVE NoOrphanRequest'
    OBVIOUS
  <2>1. resQ' = Append(resQ, a) /\ open
    BY DEF Answer
  <2>2. /\ Len(resQ') = Len(resQ) + 1 /\ Len(resQ) \in Nat
        /\ \A i \in 1 .. Len(resQ) : resQ'[i] = resQ[i]
        /\ resQ'[Len(resQ) + 1] = a
    <3> HIDE DEF a, Answers
    <3>1. QED BY <1>1, <2>1
  <2>3. /\ \A i \in 1 .. Len(resQ) : i \in 1 .. Len(resQ') /\ resQ'[i] = resQ[i]
        /\ Len(resQ) + 1 \in 1 .. Len(resQ')
    BY <2>2
  <2>4. Answered \cup {a.index} \subseteq Answered'
    BY <2>2, <2>3 DEF Answered, Indices
  <2>5. Busy \subseteq {a.index} /\ Pending' = Pending
    BY DEF Answer, Busy, Pending, Indices
  <2>6. QED BY <2>1, <2>4, <2>5 DEF Answer, NoOrphanRequest, InFlight, Inv, mainVars
<1>6. QED BY <1>4, <1>5 DEF Answer, Inv, ShownStaysCached, NoOrphanRequest, mainVars

\* It ends when the reader has gone.
LEMMA HangupInv == ASSUME Inv, Hangup PROVE Inv'
<1>1. worker' \in [pc : {"idle", "judge", "decode", "answer", "done"},
                   index : Sections, answer : Content \cup {NoBlocks}]
  BY DEF Hangup, TypeOK, Inv
<1>2. TypeOK'
  BY <1>1 DEF Hangup, TypeOK, Inv, mainVars, globalVars
<1>3. QED BY <1>2 DEF Hangup, Inv, NoOrphanRequest, ShownStaysCached, mainVars

-----------------------------------------------------------------------------
(* The theorems.                                                              *)

\* Every step keeps the invariant.
LEMMA NextInv == Inv /\ [Next]_vars => Inv'
<1> SUFFICES ASSUME Inv, [Next]_vars PROVE Inv'
  OBVIOUS
<1>1. CASE Loader
  BY <1>1, RecvInv, JudgeInv, DecodeInv, AnswerInv, HangupInv DEF Loader
<1>2. CASE Reader
  BY <1>2, GoInv, RollInv, ScanBookInv, PollInv, DrawStackInv, DrawTextInv,
     DrawNewSettingsInv, DrawAfterShiftInv, CloseInv DEF Reader
<1>3. CASE UNCHANGED vars
  <2>1. TypeOK'
    BY <1>3 DEF vars, mainVars, globalVars, TypeOK, Inv
  <2>2. QED BY <1>3, <2>1 DEF vars, mainVars, globalVars, Inv, NoOrphanRequest, InFlight,
               Pending, Busy, Answered, Indices, ShownStaysCached
<1>4. QED BY <1>1, <1>2, <1>3 DEF Next

(* The loader's inductive invariant holds of every behaviour.                 *)
THEOREM Invariance == Spec => []Inv
BY InitInv, NextInv, PTL DEF Spec

(* Channels, cache and both threads' state are always well typed: whatever    *)
(* the two threads interleave, only sections of the book are asked for,       *)
(* decoded and cached.                                                        *)
THEOREM TypeCorrect == Spec => []TypeOK
<1>1. Inv => TypeOK
  BY DEF Inv
<1>2. QED BY <1>1, Invariance, PTL

(* A section in `requested` always has its request or its answer on the way,  *)
(* so the reader can never be locked out of a section by its own bookkeeping. *)
THEOREM NoRequestOrphaned == Spec => []NoOrphanRequest
<1>1. Inv => NoOrphanRequest
  BY DEF Inv
<1>2. QED BY <1>1, Invariance, PTL

(* A reflowed book always holds the section it shows, whatever navigation,    *)
(* eviction and the two invalidations do.                                     *)
THEOREM ShownCached == Spec => []ShownStaysCached
<1>1. Inv => ShownStaysCached
  BY DEF Inv
<1>2. QED BY <1>1, Invariance, PTL

(* A move leaves the cache within CACHE_CAP and holding the section moved to  *)
(* if it was cached or its answer had arrived.                                *)
THEOREM MovesBoundTheCache == Spec => MoveBoundsCache
<1> DEFINE Bounded == section' # section =>
                        /\ Cardinality(DOMAIN cache') <= CacheCap
                        /\ section' \in DOMAIN cache \cup Landed => section' \in DOMAIN cache'
<1>1. Inv /\ [Next]_vars => [Bounded]_vars
  <2> SUFFICES ASSUME Inv, [Next]_vars PROVE [Bounded]_vars
    OBVIOUS
  <2>1. ASSUME NEW s \in Sections, Go(s) \/ Roll(s)
        PROVE  Bounded
    BY <2>1, GoInv, RollInv DEF GoneTo
  <2>2. CASE Loader
    BY <2>2 DEF Loader, Recv, Judge, Decode, Answer, Hangup, mainVars
  <2>3. CASE ScanBook \/ Poll \/ DrawStack \/ DrawText \/ DrawNewSettings
             \/ DrawAfterShift \/ Close
    BY <2>3 DEF ScanBook, Poll, DrawStack, DrawText, DrawNewSettings, DrawAfterShift, Close,
                mainVars
  <2>4. QED BY <2>1, <2>2, <2>3 DEF Next, Reader
<1>2. QED BY <1>1, Invariance, PTL DEF Spec, MoveBoundsCache

(* The loader never drops as stale a section inside the prefetch window of    *)
(* the section the reader is on: this is where LOADER_RADIUS has to cover the *)
(* window, and where the published section has to be the reader's own.        *)
THEOREM LookAheadKept == Spec => LookAheadHonoured
<1> DEFINE Honoured == worker.pc = "judge" /\ worker'.pc = "answer"
                         => worker.index \notin Window(section) \cup {section}
<1>1. Inv /\ [Next]_vars => [Honoured]_vars
  <2> SUFFICES ASSUME Inv, [Next]_vars PROVE [Honoured]_vars
    OBVIOUS
  <2>1. CASE Judge
    <3> SUFFICES ASSUME worker'.pc = "answer"
                 PROVE  worker.index \notin Window(section) \cup {section}
      OBVIOUS
    <3>1. Dist(worker.index, section) > Radius
      BY <2>1 DEF Judge, TypeOK, Inv
    <3>2. Ahead <= Radius /\ Ahead \in Nat /\ Radius \in Nat
      BY RadiusCoversWindow, SectionLoaderAssumption
    <3>3. worker.index \in Nat /\ section \in Nat
      BY SectionsFinite DEF TypeOK, Inv
    <3>4. QED BY <3>1, <3>2, <3>3 DEF Window, Dist
  <2>2. CASE Recv \/ Decode \/ Answer \/ Hangup
    BY <2>2 DEF Recv, Decode, Answer, Hangup, TypeOK, Inv
  <2>3. CASE Reader
    BY <2>3 DEF Reader, Go, Roll, ScanBook, Poll, DrawStack, DrawText, DrawNewSettings,
                DrawAfterShift, Close
  <2>4. QED BY <2>1, <2>2, <2>3 DEF Next, Loader
<1>2. QED BY <1>1, Invariance, PTL DEF Spec, LookAheadHonoured

(* Both bounds of the cache's reach, for any radius, window and capacity that *)
(* the assumptions allow.                                                     *)
THEOREM WindowIsKept == Spec => WindowKept
BY MovesBoundTheCache, LookAheadKept DEF WindowKept

-----------------------------------------------------------------------------
(* One copy of a request.  A section is asked for only when it is not marked, *)
(* so what has to be invariant is that the marks say exactly what is on the   *)
(* way, and that the two channels and the loader never hold a section twice.  *)

OnePlace ==
    /\ \A i, j \in Indices(reqQ) : reqQ[i] = reqQ[j] => i = j
    /\ \A i, j \in Indices(resQ) : resQ[i].index = resQ[j].index => i = j
    /\ Pending \cap Busy = {} /\ Pending \cap Answered = {} /\ Busy \cap Answered = {}
    /\ requested = InFlight
OneFlight == (Paged /\ open) => OnePlace

\* A rank is a number.
LEMMA RankIsInt ==
    ASSUME NEW sec \in Sections, NEW back
    PROVE  Rank(sec, back) \in [Sections -> Int]
<1>1. NumSections \in Nat /\ Sections \subseteq Int
  BY SectionLoaderAssumption, SectionsFinite
<1>2. \A t \in Sections : Dist(t, sec) \in Int
  BY <1>1 DEF Dist
<1>3. QED BY <1>1, <1>2 DEF Rank

Held(Q) == {Q[i] : i \in 1 .. Len(Q)}
Once(Q) == \A i, j \in 1 .. Len(Q) : Q[i] = Q[j] => i = j
(* What is sent in order is sent once.                                        *)
LEMMA InOrderOnce ==
    ASSUME NEW W \in SUBSET Sections, NEW rank \in [Sections -> Int], NEW q \in InOrder(W, rank)
    PROVE  /\ q \in Seq(Sections)
           /\ Held(q) = W
           /\ Once(q)
<1> USE DEF Once, Held
<1>1. IsFiniteSet(W) /\ Cardinality(W) \in Nat
  BY SectionsFinite, FS_Subset, FS_CardinalityType
<1>2. /\ q \in [1 .. Cardinality(W) -> W]
      /\ \A t \in W : \E i \in DOMAIN q : q[i] = t
      /\ \A i, j \in DOMAIN q : i < j => rank[q[i]] < rank[q[j]]
  BY DEF InOrder
<1>3. q \in Seq(Sections) /\ DOMAIN q = 1 .. Len(q)
  BY <1>1, <1>2, InOrderSends
<1>4. {q[i] : i \in 1 .. Len(q)} = W
  BY <1>2, <1>3
<1>5. ASSUME NEW i \in 1 .. Len(q), NEW j \in 1 .. Len(q), q[i] = q[j]
      PROVE  i = j
  <2>1. rank[q[i]] \in Int /\ rank[q[j]] \in Int
    BY <1>3
  <2>2. ~(i < j) /\ ~(j < i)
    BY <1>2, <1>3, <1>5, <2>1
  <2>3. QED BY <1>3, <2>2
<1>6. QED BY <1>3, <1>4, <1>5

(* Sending once what is not in the queue yet keeps it once in the queue.      *)
LEMMA SendOnce ==
    ASSUME NEW Q \in Seq(Sections), Once(Q), NEW W \in SUBSET Sections, W \cap Held(Q) = {},
           NEW rank \in [Sections -> Int], NEW q \in InOrder(W, rank)
    PROVE  /\ Q \o q \in Seq(Sections)
           /\ Once(Q \o q)
           /\ Held(Q \o q) = Held(Q) \cup W
<1> USE DEF Once, Held
<1>1. /\ q \in Seq(Sections)
      /\ {q[i] : i \in 1 .. Len(q)} = W
      /\ \A i, j \in 1 .. Len(q) : q[i] = q[j] => i = j
  BY InOrderOnce
<1> DEFINE both == Q \o q
<1>2. /\ both \in Seq(Sections) /\ Len(Q) \in Nat /\ Len(q) \in Nat
      /\ Len(both) = Len(Q) + Len(q)
      /\ \A i \in 1 .. Len(Q) : both[i] = Q[i]
      /\ \A i \in Len(Q) + 1 .. Len(both) : both[i] = q[i - Len(Q)]
  BY <1>1
<1> HIDE DEF both
<1>3. ASSUME NEW i \in 1 .. Len(both), NEW j \in 1 .. Len(both), both[i] = both[j]
      PROVE  i = j
  <2>1. CASE i \in 1 .. Len(Q) /\ j \in 1 .. Len(Q)
    BY <1>2, <1>3, <2>1
  <2>2. CASE i \notin 1 .. Len(Q) /\ j \notin 1 .. Len(Q)
    <3>1. i - Len(Q) \in 1 .. Len(q) /\ j - Len(Q) \in 1 .. Len(q)
      BY <1>2, <2>2
    <3>2. i \in Len(Q) + 1 .. Len(both) /\ j \in Len(Q) + 1 .. Len(both)
      BY <1>2, <2>2
    <3>3. q[i - Len(Q)] = q[j - Len(Q)]
      BY <1>2, <1>3, <3>2
    <3>4. i - Len(Q) = j - Len(Q)
      BY <1>1, <3>1, <3>3
    <3>5. QED BY <1>2, <3>4
  <2>3. ASSUME NEW k \in 1 .. Len(Q), NEW l \in 1 .. Len(both), l \notin 1 .. Len(Q)
        PROVE  both[k] # both[l]
    <3>1. l \in Len(Q) + 1 .. Len(both) /\ l - Len(Q) \in 1 .. Len(q)
      BY <1>2, <2>3
    <3>2. both[l] = q[l - Len(Q)]
      BY <1>2, <3>1
    <3>3. both[l] \in W
      BY <1>1, <3>1, <3>2
    <3>4. both[k] \in Held(Q)
      BY <1>2
    <3>5. QED BY <3>3, <3>4
  <2>4. QED BY <1>3, <2>1, <2>2, <2>3
<1>4. {both[i] : i \in 1 .. Len(both)} = {Q[i] : i \in 1 .. Len(Q)} \cup W
  <2>1. ASSUME NEW i \in 1 .. Len(both)
        PROVE  both[i] \in {Q[k] : k \in 1 .. Len(Q)} \cup W
    <3>1. CASE i \in 1 .. Len(Q)
      BY <1>2, <3>1
    <3>2. CASE i \notin 1 .. Len(Q)
      <4>1. i - Len(Q) \in 1 .. Len(q) /\ both[i] = q[i - Len(Q)]
        BY <1>2, <3>2
      <4>2. QED BY <1>1, <4>1
    <3>3. QED BY <3>1, <3>2
  <2>2. ASSUME NEW i \in 1 .. Len(Q)
        PROVE  Q[i] \in {both[k] : k \in 1 .. Len(both)}
    BY <1>2
  <2>3. ASSUME NEW t \in W
        PROVE  t \in {both[k] : k \in 1 .. Len(both)}
    <3>1. PICK i \in 1 .. Len(q) : q[i] = t
      BY <1>1
    <3>2. Len(Q) + i \in Len(Q) + 1 .. Len(both) /\ Len(Q) + i \in 1 .. Len(both)
      BY <1>2
    <3>3. both[Len(Q) + i] = q[(Len(Q) + i) - Len(Q)]
      BY <1>2, <3>2
    <3>4. (Len(Q) + i) - Len(Q) = i
      BY <1>2, <3>2
    <3>5. QED BY <3>1, <3>2, <3>3, <3>4
  <2> DEFINE before == {Q[i] : i \in 1 .. Len(Q)}
             after  == {both[i] : i \in 1 .. Len(both)}
  <2>4. after \subseteq before \cup W
    BY <2>1
  <2>5. before \subseteq after
    BY <2>2
  <2>6. W \subseteq after
    BY <2>3
  <2> HIDE DEF before, after
  <2>7. after = before \cup W
    BY <2>4, <2>5, <2>6
  <2>8. QED BY <2>7 DEF before, after
<1>5. QED BY <1>2, <1>3, <1>4 DEF both

QueueOnce == Once(reqQ)
\* What is pending is what the queue holds.
LEMMA PendingIsHeld == Pending = Held(reqQ) /\ Pending' = Held(reqQ')
BY DEF Pending, Held, Indices

(* A navigation asks only for what is not marked.                             *)
LEMMA AskSendsOnce ==
    ASSUME TypeOK, QueueOnce, NEW c, NEW r \in SUBSET Sections, Pending \subseteq r,
           NEW sec \in Sections, NEW back, NEW own \in SUBSET Sections,
           NEW looks \in SUBSET Sections, AskAndEvict(c, r, sec, back, own, looks)
    PROVE  /\ QueueOnce'
           /\ requested' = r \cup Pending'
           /\ Pending' \cap r = Pending
<1> PICK K \in Kept(c, sec) :
        LET kept   == Evicted(c, K)
            first  == Needed(Window(sec) \cup own, c, r)
            second == Needed(looks, kept, r \cup first)
        IN  /\ \E q \in InOrder(first, Rank(sec, back)), p \in InOrder(second, Rank(sec, FALSE)) :
                  reqQ' = reqQ \o q \o p
            /\ requested' = r \cup first \cup second
            /\ cache' = kept
  BY DEF AskAndEvict
<1> DEFINE first  == Needed(Window(sec) \cup own, c, r)
           second == Needed(looks, Evicted(c, K), r \cup first)
           early  == Rank(sec, back)
           late   == Rank(sec, FALSE)
<1>1. /\ first \in SUBSET Sections /\ first \cap r = {}
      /\ second \in SUBSET Sections /\ second \cap (r \cup first) = {}
  BY DEF Needed, Window
<1>2. requested' = r \cup first \cup second
  OBVIOUS
<1>3. early \in [Sections -> Int] /\ late \in [Sections -> Int]
  BY RankIsInt
<1>4. PICK q \in InOrder(first, early), p \in InOrder(second, late) : reqQ' = reqQ \o q \o p
  OBVIOUS
<1> HIDE DEF first, second, early, late
<1>5. reqQ \in Seq(Sections)
  BY DEF TypeOK
<1> DEFINE mid == reqQ \o q
<1>6. mid \in Seq(Sections) /\ Once(mid) /\ Held(mid) = Pending \cup first
  <2>1. Held(reqQ) = Pending /\ Once(reqQ)
    BY PendingIsHeld DEF QueueOnce
  <2>2. first \cap Held(reqQ) = {}
    BY <1>1, <2>1
  <2>3. QED BY <1>1, <1>3, <1>4, <1>5, <2>1, <2>2, SendOnce
<1> HIDE DEF mid
<1>7. Once(mid \o p) /\ Held(mid \o p) = Pending \cup first \cup second
  <2>1. second \cap Held(mid) = {}
    BY <1>1, <1>6
  <2>2. QED BY <1>1, <1>3, <1>4, <1>6, <2>1, SendOnce
<1>8. reqQ' = mid \o p
  BY <1>4 DEF mid
<1>9. QueueOnce' /\ Pending' = Pending \cup first \cup second
  BY <1>7, <1>8, PendingIsHeld DEF QueueOnce
<1>10. QED BY <1>1, <1>2, <1>9

(* A frame that asks for W while the answers stay where they are.             *)
LEMMA SendsOnce ==
    ASSUME TypeOK, QueueOnce, NEW W \in SUBSET Sections, W \cap Pending = {},
           NEW rank \in [Sections -> Int], NEW q \in InOrder(W, rank), reqQ' = reqQ \o q
    PROVE  QueueOnce' /\ Pending' = Pending \cup W
<1>1. reqQ \in Seq(Sections) /\ Held(reqQ) = Pending
  BY PendingIsHeld DEF TypeOK
<1>2. Once(reqQ \o q) /\ Held(reqQ \o q) = Pending \cup W
  BY <1>1, SendOnce DEF QueueOnce
<1>3. QED BY <1>2, PendingIsHeld DEF QueueOnce

(* Once the answers are collected, what is marked is what the channel and the *)
(* loader hold.                                                               *)
LEMMA CollectedOnePlace ==
    ASSUME OnePlace, QueueOnce', resQ' = <<>>, worker' = worker,
           NEW r, r = requested \ Answered,
           requested' = r \cup Pending', Pending' \cap r = Pending
    PROVE  OnePlace'
<1>1. Answered' = {} /\ Busy' = Busy /\ \A i, j \in Indices(resQ)' : FALSE
  BY DEF Answered, Busy, Indices
<1>2. r = Pending \cup Busy /\ Pending \cap Busy = {}
  BY DEF OnePlace, InFlight
<1>3. Pending' \cap Busy = {}
  BY <1>2
<1>4. requested' = Pending' \cup Busy
  BY <1>2
<1>5. QED BY <1>1, <1>3, <1>4 DEF OnePlace, QueueOnce, Once, Indices, InFlight

(* What the handlers that ask do, in turn.                                    *)
LEMMA GoesOnce ==
    ASSUME Inv, OnePlace, Paged, NEW s \in Sections, Go(s) \/ Roll(s)
    PROVE  OnePlace'
<1> DEFINE c == Drained(cache)
           r == requested \ Answered
           back == s < section
<1>1. PICK own \in {{}, {s}} : AskAndEvict(c, r, s, back, own, {})
  BY DEF Go, Roll
<1>2. QueueOnce /\ r = Pending \cup Busy
  BY DEF OnePlace, QueueOnce, Once, Indices, InFlight
<1>3. r \in SUBSET Sections /\ own \in SUBSET Sections /\ {} \in SUBSET Sections
  BY DEF TypeOK, Inv
<1>4. resQ' = <<>> /\ worker' = worker
  BY DEF Go, Roll
<1> HIDE DEF c, back
<1>5. QueueOnce' /\ requested' = r \cup Pending' /\ Pending' \cap r = Pending
  <2> HIDE DEF r
  <2>1. QED BY <1>1, <1>2, <1>3, AskSendsOnce DEF Inv
<1>6. QED BY <1>4, <1>5, CollectedOnePlace

\* Fetching every section asks for none twice.
LEMMA ScansOnce == ASSUME Inv, OnePlace, Paged, ScanBook PROVE OnePlace'
<1> DEFINE c == Drained(cache)
           r == requested \ Answered
           absent == Sections \ DOMAIN c
           rank == [t \in Sections |-> t]
<1>1. PICK q \in InOrder(absent \ r, rank) : reqQ' = reqQ \o q
  BY DEF ScanBook
<1>2. requested' = r \cup (absent \ r)
  BY DEF ScanBook
<1>3. QueueOnce /\ r = Pending \cup Busy
  BY DEF OnePlace, QueueOnce, Once, Indices, InFlight
<1>4. rank \in [Sections -> Int]
  BY SectionsFinite
<1> DEFINE W == absent \ r
<1>5. W \in SUBSET Sections /\ W \cap Pending = {} /\ W \cap r = {}
  BY <1>3
<1> HIDE DEF rank, W
<1>6. QueueOnce' /\ Pending' = Pending \cup W
  BY <1>1, <1>3, <1>4, <1>5, SendsOnce DEF Inv, W
<1>7. resQ' = <<>> /\ worker' = worker
  BY DEF ScanBook
<1>8. requested' = r \cup Pending' /\ Pending' \cap r = Pending
  BY <1>2, <1>3, <1>5, <1>6 DEF W
<1>9. QED BY <1>6, <1>7, <1>8, CollectedOnePlace

\* An answer taken in leaves nothing in two places.
LEMMA PollsOnce == ASSUME OnePlace, Poll PROVE OnePlace'
<1>1. QueueOnce' /\ Pending' = Pending
  BY DEF Poll, OnePlace, QueueOnce, Once, Pending, Indices
<1>2. resQ' = <<>> /\ worker' = worker /\ requested' = requested \ Answered
  BY DEF Poll
<1>3. requested \ Answered = Pending \cup Busy
  BY DEF OnePlace, InFlight
<1>4. QED BY <1>1, <1>2, <1>3, CollectedOnePlace

\* Nor does a frame, whatever it asks for.
LEMMA DrawsOnce == ASSUME Inv, OnePlace, DrawStack PROVE OnePlace'
<1> PICK F \in Looks : LET W == Needed(F, cache, requested)
                       IN  /\ \E q \in InOrder(W, Rank(section, FALSE)) : reqQ' = reqQ \o q
                           /\ requested' = requested \cup W
  BY DEF DrawStack
<1> DEFINE W == Needed(F, cache, requested)
           rank == Rank(section, FALSE)
<1>1. W \in SUBSET Sections /\ W \cap requested = {} /\ requested' = requested \cup W
  BY HelperTypes DEF Needed, Inv
<1>2. PICK q \in InOrder(W, rank) : reqQ' = reqQ \o q
  OBVIOUS
<1>3. rank \in [Sections -> Int]
  BY RankIsInt DEF Inv, TypeOK
<1> HIDE DEF W, rank
<1>4. QueueOnce /\ W \cap Pending = {}
  BY <1>1 DEF OnePlace, QueueOnce, Once, Indices, InFlight
<1>5. QueueOnce' /\ Pending' = Pending \cup W
  BY <1>1, <1>2, <1>3, <1>4, SendsOnce DEF Inv
<1>6. Answered' = Answered /\ Busy' = Busy /\ resQ' = resQ
  BY DEF DrawStack, Answered, Indices, Busy
<1>7. /\ Pending' \cap Busy' = {} /\ Pending' \cap Answered' = {} /\ Busy' \cap Answered' = {}
      /\ requested' = InFlight'
  BY <1>1, <1>5, <1>6 DEF OnePlace, InFlight
<1>8. \A i, j \in Indices(resQ') : resQ'[i].index = resQ'[j].index => i = j
  BY <1>6 DEF OnePlace
<1>9. QED BY <1>5, <1>7, <1>8 DEF OnePlace, QueueOnce, Once, Indices

(* The loader takes the first request out of the channel, and puts its answer *)
(* at the end of the other.                                                   *)
LEMMA RecvsOnce == ASSUME Inv, OnePlace, Recv PROVE OnePlace'
<1>1. reqQ \in Seq(Sections) /\ reqQ # <<>>
  BY DEF Recv, TypeOK, Inv
<1>2. /\ Len(reqQ') = Len(reqQ) - 1 /\ Head(reqQ) = reqQ[1] /\ Len(reqQ) \in Nat \ {0}
      /\ \A i \in 1 .. Len(reqQ') : reqQ'[i] = reqQ[i + 1]
  BY <1>1 DEF Recv
<1>3. Busy = {} /\ Busy' = {Head(reqQ)} /\ Answered' = Answered /\ resQ' = resQ
  BY DEF Recv, Busy, Answered, Indices, TypeOK, Inv
<1>4. \A i \in 1 .. Len(reqQ') : i + 1 \in 1 .. Len(reqQ) /\ i + 1 # 1
  BY <1>2
<1>5. Head(reqQ) \in Pending /\ Head(reqQ) \notin Pending'
  BY <1>2, <1>4 DEF OnePlace, Pending, Indices
<1>6. Pending = Pending' \cup {Head(reqQ)}
  <2>1. Pending' \subseteq Pending
    BY <1>2, <1>4 DEF Pending, Indices
  <2>2. ASSUME NEW i \in 1 .. Len(reqQ), i # 1
        PROVE  i - 1 \in 1 .. Len(reqQ') /\ reqQ'[i - 1] = reqQ[i]
    BY <1>2, <2>2
  <2>3. Pending \subseteq Pending' \cup {Head(reqQ)}
    BY <1>2, <2>2 DEF Pending, Indices
  <2>4. QED BY <1>5, <2>1, <2>3
<1>7. \A i, j \in Indices(reqQ') : reqQ'[i] = reqQ'[j] => i = j
  <2> SUFFICES ASSUME NEW i \in 1 .. Len(reqQ'), NEW j \in 1 .. Len(reqQ'), reqQ'[i] = reqQ'[j]
               PROVE  i = j
    BY DEF Indices
  <2>1. reqQ[i + 1] = reqQ[j + 1]
    BY <1>2
  <2>2. i + 1 = j + 1
    BY <1>4, <2>1 DEF OnePlace, Indices
  <2>3. QED BY <1>2, <2>2
<1>8. requested' = requested
  BY DEF Recv, mainVars
<1>9. QED BY <1>3, <1>5, <1>6, <1>7, <1>8 DEF OnePlace, InFlight, Indices

\* Nor does the loader at work.
LEMMA WorksOnce ==
    ASSUME Inv, OnePlace, Judge \/ Decode
    PROVE  OnePlace'
<1>1. /\ worker.pc \in {"judge", "decode"} /\ worker'.pc \in {"decode", "answer"}
      /\ worker'.index = worker.index
  BY DEF Judge, Decode, TypeOK, Inv
<1>2. UNCHANGED <<reqQ, resQ, requested>>
  BY DEF Judge, Decode, mainVars
<1>3. Busy' = Busy /\ Pending' = Pending /\ Answered' = Answered
  BY <1>1, <1>2 DEF Busy, Pending, Answered, Indices
<1>4. QED BY <1>2, <1>3 DEF OnePlace, InFlight, Indices

\* Nor does its answer.
LEMMA AnswersOnce == ASSUME Inv, OnePlace, open, Answer PROVE OnePlace'
<1> DEFINE a == [index |-> worker.index, answer |-> worker.answer]
           Answers == [index : Sections, answer : Content \cup {NoBlocks}]
<1>1. a \in Answers /\ resQ \in Seq(Answers) /\ resQ' = Append(resQ, a)
  BY DEF Answer, TypeOK, Inv
<1>2. /\ Len(resQ') = Len(resQ) + 1 /\ Len(resQ) \in Nat
      /\ \A i \in 1 .. Len(resQ) : resQ'[i] = resQ[i]
      /\ resQ'[Len(resQ) + 1] = a
  <2> HIDE DEF a, Answers
  <2>1. QED BY <1>1
<1>3. a.index = worker.index
  OBVIOUS
<1> HIDE DEF a, Answers
<1>4. Busy = {worker.index} /\ Busy' = {} /\ Pending' = Pending
  BY DEF Answer, Busy, Pending, Indices, TypeOK, Inv
<1>5. Answered' = Answered \cup {worker.index}
  <2>1. \A i \in 1 .. Len(resQ') : i \in 1 .. Len(resQ) \/ i = Len(resQ) + 1
    BY <1>2
  <2>2. Answered' \subseteq Answered \cup {worker.index}
    BY <1>2, <1>3, <2>1 DEF Answered, Indices
  <2>3. \A i \in 1 .. Len(resQ) : i \in 1 .. Len(resQ') /\ resQ'[i] = resQ[i]
    BY <1>2
  <2>4. Len(resQ) + 1 \in 1 .. Len(resQ')
    BY <1>2
  <2>5. Answered \cup {worker.index} \subseteq Answered'
    BY <1>2, <1>3, <2>3, <2>4 DEF Answered, Indices
  <2>6. QED BY <2>2, <2>5
<1>6. \A i \in 1 .. Len(resQ) : resQ[i].index # worker.index
  BY <1>4 DEF OnePlace, Answered, Indices
<1>7. \A i, j \in Indices(resQ') : resQ'[i].index = resQ'[j].index => i = j
  <2> SUFFICES ASSUME NEW i \in 1 .. Len(resQ'), NEW j \in 1 .. Len(resQ'),
                      resQ'[i].index = resQ'[j].index
               PROVE  i = j
    BY DEF Indices
  <2>1. /\ i \in 1 .. Len(resQ) \/ i = Len(resQ) + 1
        /\ j \in 1 .. Len(resQ) \/ j = Len(resQ) + 1
    BY <1>2
  <2>2. CASE i \in 1 .. Len(resQ) /\ j \in 1 .. Len(resQ)
    BY <1>2, <2>2 DEF OnePlace, Indices
  <2>3. CASE i = Len(resQ) + 1 /\ j = Len(resQ) + 1
    BY <2>3
  <2>4. QED BY <1>2, <1>3, <1>6, <2>1, <2>2, <2>3
<1>8. requested' = requested /\ reqQ' = reqQ
  BY DEF Answer, mainVars
<1>9. Pending' \cap Busy' = {} /\ Pending' \cap Answered' = {} /\ Busy' \cap Answered' = {}
  BY <1>4, <1>5 DEF OnePlace
<1>10. requested' = InFlight'
  BY <1>4, <1>5, <1>8 DEF OnePlace, InFlight
<1>11. QED BY <1>7, <1>8, <1>9, <1>10 DEF OnePlace, Indices

\* Nothing is under way at first.
LEMMA InitOnce == Init => OneFlight
<1> SUFFICES ASSUME Init PROVE OnePlace
  BY DEF OneFlight
<1> DEFINE rank == Rank(Start, FALSE)
<1>1. Start \in Sections /\ Window(Start) \in SUBSET Sections
  BY SectionLoaderAssumption DEF Window
<1>2. rank \in [Sections -> Int]
  BY <1>1, RankIsInt
<1>3. reqQ \in InOrder(Window(Start), rank) /\ requested = Window(Start)
  BY DEF Init
<1> HIDE DEF rank
<1>4. \A i, j \in Indices(reqQ) : reqQ[i] = reqQ[j] => i = j
  BY <1>1, <1>2, <1>3, InOrderOnce DEF Indices, Once
<1>5. Pending = Window(Start)
  BY <1>1, <1>2, <1>3, InOrderOnce, PendingIsHeld
<1>6. Busy = {} /\ Answered = {} /\ Indices(resQ) = {}
  BY DEF Init, Busy, Answered, Indices
<1>7. QED BY <1>3, <1>4, <1>5, <1>6 DEF OnePlace, InFlight

\* No step puts a section in two places.
LEMMA NextOnce == Inv /\ OneFlight /\ [Next]_vars => OneFlight'
<1> SUFFICES ASSUME Inv, OneFlight, [Next]_vars, Paged, open'
             PROVE  OnePlace'
  BY DEF OneFlight
<1>1. open
  BY DEF Next, Loader, Reader, Recv, Judge, Decode, Answer, Hangup, Go, Roll, ScanBook, Poll,
         DrawStack, DrawText, DrawNewSettings, DrawAfterShift, Close, vars
<1>2. OnePlace
  BY <1>1 DEF OneFlight
<1>3. CASE Loader
  BY <1>1, <1>2, <1>3, RecvsOnce, WorksOnce, AnswersOnce DEF Loader, Hangup
<1>4. CASE Reader
  BY <1>2, <1>4, GoesOnce, ScansOnce, PollsOnce, DrawsOnce
     DEF Reader, DrawText, DrawNewSettings, DrawAfterShift, Close
<1>5. CASE UNCHANGED vars
  <2>1. UNCHANGED <<reqQ, resQ, requested, worker>>
    BY <1>5 DEF vars, mainVars
  <2>2. /\ UNCHANGED <<Pending, Busy, Answered>>
        /\ Indices(reqQ') = Indices(reqQ) /\ Indices(resQ') = Indices(resQ)
    BY <2>1 DEF Pending, Busy, Answered, Indices
  <2> QED BY <1>2, <2>1, <2>2 DEF OnePlace, InFlight
<1>6. QED BY <1>3, <1>4, <1>5 DEF Next

(* Counting a value in a list that holds it at most once.                     *)
LEMMA CountedOnce ==
    ASSUME NEW n \in Nat, NEW at \in SUBSET (1 .. n), \A i, j \in at : i = j
    PROVE  Cardinality(at) = IF at = {} THEN 0 ELSE 1
<1>1. CASE at = {}
  BY <1>1, FS_EmptySet
<1>2. CASE at # {}
  <2>1. PICK i \in at : TRUE
    BY <1>2
  <2>2. at = {i}
    BY <2>1
  <2>3. QED BY <1>2, <2>2, FS_Singleton
<1>3. QED BY <1>1, <1>2

(* A PDF page is never asked for, rasterised or answered twice for one need,  *)
(* and the request channel, the loader and the answer channel together hold   *)
(* exactly the sections marked as requested, once each.                       *)
THEOREM OneCopyOfEach == Spec => []SingleFlight
<1>1. Inv /\ OneFlight => SingleFlight
  <2> SUFFICES ASSUME Inv, OnePlace, NEW s \in Sections
               PROVE  Copies(s) = IF s \in requested THEN 1 ELSE 0
    BY DEF OneFlight, SingleFlight
  <2> DEFINE asked == {i \in Indices(reqQ) : reqQ[i] = s}
             told == {i \in Indices(resQ) : resQ[i].index = s}
             held == Busy \cap {s}
  <2>1. Len(reqQ) \in Nat /\ Len(resQ) \in Nat
    BY DEF Inv, TypeOK
  <2>2. Cardinality(asked) = IF asked = {} THEN 0 ELSE 1
    <3>1. asked \in SUBSET (1 .. Len(reqQ)) /\ \A i, j \in asked : i = j
      BY DEF OnePlace, Indices
    <3> HIDE DEF asked
    <3>2. QED BY <2>1, <3>1, CountedOnce
  <2>3. Cardinality(told) = IF told = {} THEN 0 ELSE 1
    <3>1. told \in SUBSET (1 .. Len(resQ)) /\ \A i, j \in told : i = j
      BY DEF OnePlace, Indices
    <3> HIDE DEF told
    <3>2. QED BY <2>1, <3>1, CountedOnce
  <2>4. Cardinality(held) = IF s \in Busy THEN 1 ELSE 0
    <3>1. held = IF s \in Busy THEN {s} ELSE {}
      OBVIOUS
    <3> HIDE DEF held
    <3>2. QED BY <3>1, FS_Singleton, FS_EmptySet
  <2>5. (asked # {} <=> s \in Pending) /\ (told # {} <=> s \in Answered)
    BY DEF Pending, Answered
  <2>6. Copies(s) = Cardinality(asked) + Cardinality(told) + Cardinality(held)
    BY DEF Copies
  <2> HIDE DEF asked, told, held
  <2>7. /\ s \in requested <=> (s \in Pending \/ s \in Busy \/ s \in Answered)
        /\ ~(s \in Pending /\ s \in Busy) /\ ~(s \in Pending /\ s \in Answered)
        /\ ~(s \in Busy /\ s \in Answered)
    BY DEF OnePlace, InFlight
  <2>8. QED BY <2>2, <2>3, <2>4, <2>5, <2>6, <2>7
<1>2. Inv /\ OneFlight /\ [Next]_vars => OneFlight'
  BY NextOnce
<1>3. QED BY <1>1, <1>2, Invariance, InitOnce, PTL DEF Spec

-----------------------------------------------------------------------------
(* The marks on the page.  The lines as the wrapper makes them, and what the  *)
(* operators over them return.                                                *)

Row == [kind : STRING, idx : Nat, text : Seq(STRING), links : Seq(STRING)]
Positive == Nat \ {0}

(* A set of positions in order is a sequence of its elements.                 *)
LEMMA AscendingIs ==
    ASSUME NEW n \in Nat, NEW S \in SUBSET (1 .. n)
    PROVE  Ascending(S) \in Seq(S) /\ Cardinality(S) \in Nat /\ Len(Ascending(S)) = Cardinality(S)
<1> DEFINE s == [i \in 1 .. n |-> i]
<1>1. s \in Seq(Nat)
  OBVIOUS
<1>2. PositionsIn(s, S) = S
  BY DEF PositionsIn
<1>3. \A i : RankIn(s, S, i) = Cardinality({j \in S : j <= i})
  BY <1>2 DEF RankIn
<1> HIDE DEF s
<1>4. /\ Cardinality(S) \in Nat
      /\ \A k \in 1 .. Cardinality(S) : \E i \in S : RankIn(s, S, i) = k
  BY <1>1, <1>2, RanksArePositions
<1>5. \A k \in 1 .. Cardinality(S) : \E i \in S : Cardinality({j \in S : j <= i}) = k
  BY <1>3, <1>4
<1> DEFINE Nth(k) == CHOOSE i \in S : Cardinality({j \in S : j <= i}) = k
           m == Cardinality(S)
<1>6. \A k \in 1 .. m : Nth(k) \in S
  BY <1>5
<1>7. Ascending(S) = [k \in 1 .. m |-> Nth(k)]
  BY DEF Ascending
<1> HIDE DEF Nth, m
<1>8. m \in Nat /\ m = Cardinality(S)
  BY <1>4 DEF m
<1> QED BY <1>6, <1>7, <1>8

(* The wrapper's lines, and how far a chapter of them scrolls.                *)
LEMMA LaidLines ==
    ASSUME NEW w \in Widths, NEW c \in Chapters
    PROVE  Laid[w][c] \in Seq(Row) /\ Len(Laid[w][c]) \in Positive
<1>1. Laid[w][c] \in Seq(Row) /\ Laid[w][c] # <<>>
  BY MarksAssumption DEF Row
<1>2. Len(Laid[w][c]) # 0
  BY <1>1, EmptySeq
<1> QED BY <1>1, <1>2 DEF Positive

(* A page has rows, and half a page is a number.                              *)
LEMMA SpanIs == /\ PageLines \in Positive /\ Span \in Positive /\ PageLines <= Span
                /\ Greater(Span \div 2, 1) \in Nat
<1>1. PageLines \in Positive /\ Columns \in Positive
  BY MarksAssumption DEF Positive
<1>2. \A a \in Nat, b \in Nat : a * (b + 1) = a * b + a /\ a * b \in Nat
  OBVIOUS
<1>3. PICK b \in Nat : Columns = b + 1
  <2>1. Columns - 1 \in Nat /\ Columns = (Columns - 1) + 1
    BY <1>1 DEF Positive
  <2> QED BY <2>1
<1>4. Span = PageLines * b + PageLines /\ PageLines * b \in Nat
  BY <1>1, <1>2, <1>3 DEF Span, Positive
<1>5. Span \in Positive /\ PageLines <= Span
  BY <1>1, <1>4 DEF Positive
<1> QED BY <1>1, <1>5 DEF Positive, Greater

(* A chapter scrolls from its first line to the last that fills a column.     *)
LEMMA Scrolls ==
    ASSUME NEW n \in Nat
    PROVE  /\ MaxScroll(n) \in Positive /\ n <= MaxScroll(n) + PageLines - 1
           /\ \A l \in Int : Clamped(l, n) \in Positive
           /\ \A l \in Positive : l <= MaxScroll(n) => Clamped(l, n) = l
BY SpanIs DEF MaxScroll, Clamped, Greater, Lesser, Positive

(* The links of a chapter lead to places of the book, or out of it.           *)
Hit == {h \in [line : Positive, link : STRING] : Leads[h.link].sec \in {0} \cup Chapters}
\* The matches in a chapter are a sequence of them.
LEMMA HitsIn ==
    ASSUME NEW w \in Widths, NEW c \in Chapters
    PROVE  HitsOf(Laid[w][c]) \in Seq(Hit)
<1> DEFINE lines == Laid[w][c]
           cols(l) == Ascending(Starts(lines[l]))
           of(l) == [i \in 1 .. Len(cols(l)) |-> [line |-> l, link |-> lines[l].links[cols(l)[i]]]]
           ss == [l \in 1 .. Len(lines) |-> of(l)]
<1>1. lines \in Seq(Row) /\ Len(lines) \in Nat
  BY LaidLines DEF Positive
<1>2. ASSUME NEW l \in 1 .. Len(lines)
      PROVE  of(l) \in Seq(Hit)
  <2> DEFINE links == lines[l].links
  <2>1. l \in Positive /\ lines[l] \in Row
    BY <1>1, <1>2 DEF Positive
  <2>2. links \in Seq(STRING) /\ Len(links) \in Nat
    BY <2>1 DEF Row
  <2>3. Starts(lines[l]) \in SUBSET (1 .. Len(links))
    BY DEF Starts
  <2>4. cols(l) \in Seq(Starts(lines[l])) /\ Len(cols(l)) \in Nat
    BY <2>2, <2>3, AscendingIs
  <2>5. \A i \in 1 .. Len(cols(l)) : cols(l)[i] \in Starts(lines[l])
    BY <2>4
  <2>6. \A k \in Starts(lines[l]) : k \in 1 .. Len(links) /\ links[k] # NoLink
    BY DEF Starts
  <2>7. \A k \in Starts(lines[l]) : links[k] \in STRING /\ Leads[links[k]].sec \in {0} \cup Chapters
    <3>1. \A k \in 1 .. Len(links) : links[k] \in STRING
      BY <2>2
    <3> QED BY <1>2, <2>6, <3>1, BookAssumption
  <2>8. \A i \in 1 .. Len(cols(l)) : [line |-> l, link |-> links[cols(l)[i]]] \in Hit
    BY <2>1, <2>5, <2>7 DEF Hit
  <2> HIDE DEF cols
  <2> QED BY <2>4, <2>8
<1> HIDE DEF of
<1>3. ss \in Seq(Seq(Hit))
  BY <1>1, <1>2
<1>4. HitsOf(lines) = FlattenSeq(ss)
  BY DEF HitsOf, of
<1> QED BY <1>3, <1>4, FlattenedIs

(* What a search finds are lines of chapters.                                 *)
LEMMA MatchesAre ==
    ASSUME NEW w \in Widths, NEW q
    PROVE  MatchesOf(w, q) \in Seq(Chapters \X Positive)
<1> DEFINE n == Cardinality(Chapters)
           ss == [c \in 1 .. n |-> MatchesIn(w, c, q)]
<1>1. Chapters = 1 .. n /\ n \in Nat
  BY MarksAssumption, FS_CardinalityType
<1>2. ASSUME NEW c \in Chapters
      PROVE  MatchesIn(w, c, q) \in Seq(Chapters \X Positive)
  <2> DEFINE lines == Laid[w][c]
             kept == {l \in 1 .. Len(lines) :
                        lines[l].kind = "image" => l = 1 \/ lines[l - 1].idx # lines[l].idx}
             plain == Unfigured(lines)
             on == {l \in 1 .. Len(plain) : q \in ToSet(plain[l].text)}
             order == Ascending(on)
  <2>1. Len(lines) \in Nat
    BY LaidLines DEF Positive
  <2>2. Ascending(kept) \in Seq(kept) /\ Len(Ascending(kept)) \in Nat
    <3>1. kept \in SUBSET (1 .. Len(lines))
      OBVIOUS
    <3> HIDE DEF kept
    <3> QED BY <2>1, <3>1, AscendingIs
  <2>3. Len(plain) \in Nat
    <3>1. plain = [i \in 1 .. Len(Ascending(kept)) |-> lines[Ascending(kept)[i]]]
      BY DEF Unfigured
    <3> HIDE DEF kept, plain, lines
    <3> QED BY <2>2, <3>1
  <2> HIDE DEF plain
  <2>4. on \in SUBSET (1 .. Len(plain))
    OBVIOUS
  <2> HIDE DEF on
  <2>5. order \in Seq(on) /\ Len(order) \in Nat
    BY <2>3, <2>4, AscendingIs
  <2>6. \A i \in 1 .. Len(order) : order[i] \in 1 .. Len(plain)
    <3> HIDE DEF order
    <3>1. \A i \in 1 .. Len(order) : order[i] \in on
      BY <2>5
    <3> QED BY <2>4, <3>1
  <2>7. MatchesIn(w, c, q) = [i \in 1 .. Len(order) |-> <<c, order[i]>>]
    BY DEF MatchesIn, plain, on
  <2> HIDE DEF order
  <2>8. \A i \in 1 .. Len(order) : <<c, order[i]>> \in Chapters \X Positive
    BY <2>3, <2>6 DEF Positive
  <2> QED BY <2>5, <2>7, <2>8
<1>3. ss \in Seq(Seq(Chapters \X Positive))
  BY <1>1, <1>2
<1>4. MatchesOf(w, q) = FlattenSeq(ss)
  BY DEF MatchesOf
<1> HIDE DEF ss
<1> QED BY <1>3, <1>4, FlattenedIs

-----------------------------------------------------------------------------
(* The inductive invariant.  The caret that was just moved is in view: of a   *)
(* page that was drawn and is drawn yet, and at a place the frame leaves      *)
(* alone.                                                                     *)

PlaceFits ==
    /\ chapter \in Chapters /\ width \in Widths /\ laid \in [sec : Chapters, width : Widths]
    /\ scroll \in Positive /\ wrapped \in BOOLEAN /\ (wrapped => laid.sec = chapter)
CursorFits == anchorSel \in Nat /\ (anchorSel # 0 => wrapped /\ anchorSel <= Len(Hits))
SearchFits ==
    /\ found \in Seq(Chapters \X Positive)
    /\ match \in 0 .. Len(found) /\ (found # <<>> => match # 0)
CaretFits ==
    /\ select \in [caret : Nat \X Nat, anchor : Nat \X Nat]
    /\ select # NoSelect => Caret[1] # 0
    /\ Selecting => select.anchor[1] # 0
BadgesFit == \A i \in 1 .. Len(hint) : hint[i].kind = "image" => hint[i].idx \in Opens[chapter]
CaretSeen ==
    /\ Drawn /\ scroll <= MaxScroll(Len(Lines))
    /\ scroll <= Caret[1] /\ Caret[1] <= scroll + Span - 1
MarksInv ==
    /\ PlaceFits /\ CursorFits /\ SearchFits /\ CaretFits /\ BadgesFit
    /\ (moved /\ select # NoSelect) => CaretSeen

(* The lines at hand.                                                         *)
LEMMA LinesAre ==
    ASSUME PlaceFits
    PROVE  Lines \in Seq(Row) /\ Len(Lines) \in Positive
BY LaidLines DEF PlaceFits, Lines, LinesOf

(* A badge leads to a figure that opens.                                      *)
LEMMA BadgesOpen ==
    ASSUME PlaceFits, NEW kind
    PROVE  \A i \in 1 .. Len(InView(kind)) :
               InView(kind)[i].kind = "image" => InView(kind)[i].idx \in Opens[chapter]
<1> DEFINE seen == {l \in scroll .. Lesser(scroll + Span - 1, Len(Lines)) : Shows(Lines[l], kind)}
           first == {l \in seen : \A k \in seen : Lines[k].idx = Lines[l].idx => l <= k}
           order == Ascending(first)
           m == Lesser(Len(order), MaxBadges)
<1>1. Len(Lines) \in Nat /\ scroll \in Positive /\ Span \in Nat
  BY LinesAre, SpanIs DEF PlaceFits, Positive
<1>2. seen \in SUBSET (1 .. Len(Lines)) /\ \A l \in seen : Shows(Lines[l], kind)
  BY <1>1 DEF Lesser, Positive
<1> HIDE DEF seen
<1>3. first \in SUBSET seen
  OBVIOUS
<1> HIDE DEF first
<1>4. order \in Seq(first) /\ Len(order) \in Nat
  BY <1>1, <1>2, <1>3, AscendingIs
<1>5. \A i \in 1 .. Len(order) : Shows(Lines[order[i]], kind)
  <2> HIDE DEF order
  <2>1. \A i \in 1 .. Len(order) : order[i] \in first
    BY <1>4
  <2> QED BY <1>2, <1>3, <2>1
<1>6. m \in Nat /\ m <= Len(order)
  BY <1>4 DEF Lesser, MaxBadges
<1>7. InView(kind) = [i \in 1 .. m |-> [kind |-> kind, idx |-> Lines[order[i]].idx]]
  BY DEF InView, seen, first
<1> HIDE DEF order, m
<1>8. Len(InView(kind)) = m
  BY <1>6, <1>7
<1>9. \A i \in 1 .. m : i \in 1 .. Len(order)
  BY <1>4, <1>6
<1>10. \A i \in 1 .. m : Lines[order[i]].kind = kind
                        /\ (kind = "image" => Lines[order[i]].idx \in Opens[chapter])
  BY <1>5, <1>9 DEF Shows
<1>11. \A i \in 1 .. m : InView(kind)[i] = [kind |-> kind, idx |-> Lines[order[i]].idx]
  BY <1>7
<1> QED BY <1>8, <1>10, <1>11

(* The caret stays on the lines, wherever a motion takes it.                  *)
LEMMA OntoFits ==
    ASSUME PlaceFits
    PROVE  \A l \in 1 .. Len(Lines), c \in Nat : MaxCol(l) \in Positive /\ Onto(l, c) \in (1 .. Len(Lines)) \X Nat
<1> SUFFICES ASSUME NEW l \in 1 .. Len(Lines), NEW c \in Nat
             PROVE  MaxCol(l) \in Positive /\ Onto(l, c) \in (1 .. Len(Lines)) \X Nat
  OBVIOUS
<1>1. Lines[l] \in Row
  BY LinesAre
<1>2. Len(Lines[l].text) \in Nat
  BY <1>1 DEF Row
<1>3. MaxCol(l) \in Positive
  BY <1>2 DEF MaxCol, Greater, Positive
<1>4. Lesser(c, MaxCol(l)) \in Nat
  BY <1>3 DEF Lesser, Positive
<1> QED BY <1>3, <1>4 DEF Onto

(* A caret left behind by a shorter chapter is brought back.                  *)
LEMMA ClampedCaretFits ==
    ASSUME PlaceFits, NEW p \in Nat \X Nat, p[1] # 0
    PROVE  ClampedCaret(p) \in (1 .. Len(Lines)) \X Nat
<1>1. Lesser(p[1], Len(Lines)) \in 1 .. Len(Lines) /\ p[2] \in Nat
  BY LinesAre DEF Lesser, Positive
<1> QED BY <1>1, OntoFits DEF ClampedCaret

(* No motion leaves the lines.                                                *)
LEMMA MotionFits ==
    ASSUME PlaceFits, NEW p \in (1 .. Len(Lines)) \X Nat, NEW way \in Ways
    PROVE  Motion(p, way) \in (1 .. Len(Lines)) \X Nat
<1> DEFINE n == Len(Lines)
           l == p[1]
           c == p[2]
           half == Greater(Span \div 2, 1)
           to == (1 .. n) \X Nat
           ahead == {x \in WordStarts(l) : x > c}
           behind == {x \in WordStarts(l) : x < c}
<1>1. n \in Positive /\ l \in 1 .. n /\ c \in Nat /\ half \in Nat
  BY LinesAre, SpanIs
<1>2. p \in to /\ <<l, 1>> \in to
  BY <1>1
<1>3. \A k \in Nat : Onto(Lesser(l + k, n), c) \in to /\ Onto(Greater(l - k, 1), c) \in to
  <2> SUFFICES ASSUME NEW k \in Nat
               PROVE  Onto(Lesser(l + k, n), c) \in to /\ Onto(Greater(l - k, 1), c) \in to
    OBVIOUS
  <2>1. Lesser(l + k, n) \in 1 .. n /\ Greater(l - k, 1) \in 1 .. n
    BY <1>1 DEF Lesser, Greater, Positive
  <2> QED BY <1>1, <2>1, OntoFits
<1>4. /\ \A k \in 1 .. n : MaxCol(k) \in Nat
      /\ l > 1 => <<l - 1, MaxCol(l - 1)>> \in to
      /\ l < n => <<l + 1, 1>> \in to
      /\ <<l, MaxCol(l)>> \in to
  <2>1. \A k \in 1 .. n : MaxCol(k) \in Nat
    BY <1>1, OntoFits DEF Positive
  <2>2. (l > 1 => l - 1 \in 1 .. n) /\ (l < n => l + 1 \in 1 .. n)
    BY <1>1 DEF Positive
  <2> QED BY <1>1, <2>1, <2>2
<1>5. WordStarts(l) \in SUBSET Nat /\ \E m \in Nat : WordStarts(l) \in SUBSET (1 .. m)
  <2> DEFINE m == Len(Lines[l].text)
  <2>1. m \in Nat
    BY <1>1, LinesAre DEF Row
  <2>2. WordStarts(l) \in SUBSET (1 .. m)
    BY DEF WordStarts
  <2> HIDE DEF m
  <2> QED BY <2>1, <2>2
<1>6. ahead # {} => <<l, CHOOSE x \in ahead : \A y \in ahead : x <= y>> \in to
  <2>1. ahead \in SUBSET Nat
    BY <1>5
  <2> HIDE DEF ahead
  <2> DEFINE z == CHOOSE x \in ahead : \A y \in ahead : x <= y
  <2>2. ASSUME ahead # {} PROVE z \in Nat
    <3>1. \E x \in ahead : \A y \in ahead : x <= y
      BY <2>1, <2>2, LeastElement
    <3>2. z \in ahead
      BY <3>1
    <3> QED BY <2>1, <3>2
  <2> HIDE DEF z
  <2>3. ahead # {} => <<l, z>> \in to
    BY <1>1, <2>2
  <2> QED BY <2>3 DEF z
<1>7. behind # {} => <<l, CHOOSE x \in behind : \A y \in behind : x >= y>> \in to
  <2>1. PICK m \in Nat : behind \in SUBSET (1 .. m)
    BY <1>5
  <2> HIDE DEF behind
  <2> DEFINE z == CHOOSE x \in behind : \A y \in behind : x >= y
  <2>2. ASSUME behind # {} PROVE z \in Nat
    <3>1. PICK x \in behind : \A y \in behind : y <= x
      BY <2>1, <2>2, GreatestElement
    <3>2. \E u \in behind : \A y \in behind : u >= y
      BY <2>1, <3>1
    <3>3. z \in behind
      BY <3>2
    <3> HIDE DEF z
    <3>4. z \in 1 .. m
      BY <2>1, <3>3
    <3> QED BY <3>4
  <2> HIDE DEF z
  <2>3. behind # {} => <<l, z>> \in to
    BY <1>1, <2>2
  <2> QED BY <2>3 DEF z
<1>8. /\ c > 1 => <<l, c - 1>> \in to
      /\ <<l, c + 1>> \in to
  BY <1>1
<1>10. CASE way \in {"left", "right", "start", "end"}
  BY <1>2, <1>4, <1>8, <1>10 DEF Motion
<1>11. CASE way = "down"
  <2>1. Motion(p, way) = Onto(Lesser(l + 1, n), c)
    BY <1>11 DEF Motion
  <2> QED BY <1>3, <2>1
<1>12. CASE way = "up"
  <2>1. Motion(p, way) = Onto(Greater(l - 1, 1), c)
    BY <1>12 DEF Motion
  <2> QED BY <1>3, <2>1
<1>13. CASE way = "halfdown"
  <2>1. Motion(p, way) = Onto(Lesser(l + half, n), c)
    BY <1>13 DEF Motion
  <2> HIDE DEF half
  <2> QED BY <1>1, <1>3, <2>1
<1>14. CASE way = "halfup"
  <2>1. Motion(p, way) = Onto(Greater(l - half, 1), c)
    BY <1>14 DEF Motion
  <2> HIDE DEF half
  <2> QED BY <1>1, <1>3, <2>1
<1>15. CASE way = "wordforward"
  <2>1. Motion(p, way) =
            IF ahead # {} THEN <<l, CHOOSE x \in ahead : \A y \in ahead : x <= y>>
            ELSE IF l < n THEN (IF l < n THEN <<l + 1, 1>> ELSE p) ELSE <<l, MaxCol(l)>>
    BY <1>15 DEF Motion
  <2> HIDE DEF ahead, to
  <2>2. Motion(p, way) \in to
    BY <1>2, <1>4, <1>6, <2>1
  <2> QED BY <2>2 DEF to
<1>16. CASE way = "wordback"
  <2>1. Motion(p, way) =
            IF c = 1 THEN (IF l > 1 THEN <<l - 1, MaxCol(l - 1)>> ELSE p)
            ELSE IF behind # {} THEN <<l, CHOOSE x \in behind : \A y \in behind : x >= y>>
            ELSE <<l, 1>>
    BY <1>16 DEF Motion
  <2> HIDE DEF behind, to
  <2>2. Motion(p, way) \in to
    BY <1>2, <1>4, <1>7, <2>1
  <2> QED BY <2>2 DEF to
<1> QED BY <1>10, <1>11, <1>12, <1>13, <1>14, <1>15, <1>16 DEF Ways

(* Following the caret keeps it in view, at a place no frame will move.       *)
LEMMA FollowSees ==
    ASSUME PlaceFits, NEW l \in 1 .. Len(Lines)
    PROVE  /\ FollowCaret(l) \in Positive /\ FollowCaret(l) <= MaxScroll(Len(Lines))
           /\ FollowCaret(l) <= l /\ l <= FollowCaret(l) + Span - 1
<1> DEFINE n == Len(Lines)
           top == MaxScroll(n)
           near == IF l < scroll THEN l
                   ELSE IF l >= scroll + Span THEN l + 1 - Span ELSE scroll
<1>1. n \in Positive /\ scroll \in Positive /\ Span \in Positive /\ PageLines \in Nat /\ PageLines <= Span
  BY LinesAre, SpanIs DEF PlaceFits, Positive
<1>2. top \in Positive /\ n <= top + PageLines - 1
  BY <1>1, Scrolls DEF Positive
<1>3. l \in Positive /\ l <= n
  BY <1>1 DEF Positive
<1>4. FollowCaret(l) = IF near < top THEN near ELSE top
  BY DEF FollowCaret, Lesser
<1> HIDE DEF n, top
<1>5. near \in Positive /\ near <= l /\ l <= near + Span - 1
  BY <1>1, <1>3 DEF Positive
<1> HIDE DEF near
<1> QED BY <1>1, <1>2, <1>3, <1>4, <1>5 DEF Positive, n, top

-----------------------------------------------------------------------------
(* Each part where an action leaves its pointers alone.                       *)
LEMMA PartsStay ==
    ASSUME MarksInv
    PROVE  /\ UNCHANGED <<found, match>> => SearchFits'
           /\ UNCHANGED select => CaretFits'
           /\ UNCHANGED <<hint, chapter>> => BadgesFit'
           /\ hint' = <<>> => BadgesFit'
           /\ UNCHANGED place => PlaceFits' /\ Lines' = Lines /\ Hits' = Hits /\ Drawn' = Drawn
           /\ UNCHANGED <<place, anchorSel>> => CursorFits'
           /\ UNCHANGED <<anchorSel, laid, wrapped>> => CursorFits'
           /\ anchorSel' = 0 => CursorFits'
           /\ UNCHANGED <<place, select, moved>> => ((moved /\ select # NoSelect) => CaretSeen)'
<1>1. UNCHANGED place => PlaceFits' /\ Lines' = Lines /\ Hits' = Hits /\ Drawn' = Drawn
  BY DEF MarksInv, PlaceFits, place, Lines, LinesOf, Hits, Drawn
<1>2. UNCHANGED laid => Hits' = Hits
  BY DEF Lines, LinesOf, Hits
<1>3. UNCHANGED <<found, match>> => SearchFits'
  BY DEF MarksInv, SearchFits
<1>4. UNCHANGED select => CaretFits'
  BY DEF MarksInv, CaretFits, Caret, Selecting
<1>5. (UNCHANGED <<hint, chapter>> => BadgesFit') /\ (hint' = <<>> => BadgesFit')
  BY DEF MarksInv, BadgesFit
<1>6. /\ UNCHANGED <<place, anchorSel>> => CursorFits'
      /\ UNCHANGED <<anchorSel, laid, wrapped>> => CursorFits'
      /\ anchorSel' = 0 => CursorFits'
  BY <1>2 DEF MarksInv, CursorFits, place
<1>7. UNCHANGED <<place, select, moved>> => ((moved /\ select # NoSelect) => CaretSeen)'
  BY <1>1 DEF MarksInv, CaretSeen, Caret, place
<1> QED BY <1>1, <1>3, <1>4, <1>5, <1>6, <1>7

(* A wrap leaves the link cursor on a link of its lines, or nowhere.          *)
LEMMA WrappedFits ==
    ASSUME NEW c \in Chapters, NEW w \in Widths, NEW sel \in Nat, Wrapped(c, w, sel)
    PROVE  laid' = [sec |-> c, width |-> w] /\ wrapped' = TRUE /\ CursorFits'
<1>1. laid' = [sec |-> c, width |-> w] /\ wrapped' = TRUE
      /\ anchorSel' = IF sel <= Len(HitsOf(Laid[w][c])) THEN sel ELSE 0
  BY DEF Wrapped
<1>2. Hits' = HitsOf(Laid[w][c])
  BY <1>1 DEF Hits, Lines, LinesOf
<1> QED BY <1>1, <1>2 DEF CursorFits

(* Where a snapped frame starts is a number, and the lines of a chapter are.  *)
LEMMA FramesStart ==
    ASSUME NEW l \in Positive, NEW n \in Nat
    PROVE  Clamped(RestsAt(l), n) \in Positive /\ Clamped(l, n) \in Positive
<1>1. Snapped(l) \in Int /\ l \in Int
  BY SpanIs DEF Snapped, Positive
<1>2. RestsAt(l) \in Int
  BY <1>1 DEF RestsAt
<1> QED BY <1>1, <1>2, Scrolls

(* A book that opens has nothing on its pages.                                *)
LEMMA MarksStart == ASSUME MarksInit PROVE MarksInv
<1>1. PlaceFits
  BY DEF MarksInit, PlaceFits, Positive
<1>2. CursorFits
  BY DEF MarksInit, CursorFits
<1>3. SearchFits
  BY DEF MarksInit, SearchFits
<1>4. CaretFits
  BY DEF MarksInit, CaretFits, NoSelect, NoCaret, Selecting, Caret
<1>5. BadgesFit /\ ~moved
  BY DEF MarksInit, BadgesFit
<1> QED BY <1>1, <1>2, <1>3, <1>4, <1>5 DEF MarksInv

-----------------------------------------------------------------------------
(* What moves the page.                                                       *)
LEMMA ClickKeeps == ASSUME MarksInv, NEW c \in Chapters, ClickChapter(c) PROVE MarksInv'
<1>1. moved' = FALSE /\ UNCHANGED <<found, match>> /\ UNCHANGED select
  BY DEF ClickChapter, Moved, search
<1>2. PlaceFits' /\ CursorFits' /\ BadgesFit'
  <2>1. CASE c = chapter
    <3>1. UNCHANGED <<chapter, wrapped, hint, anchorSel, laid, width>> /\ scroll' = 1
      BY <2>1 DEF ClickChapter
    <3>2. CursorFits' /\ BadgesFit'
      BY <3>1, PartsStay
    <3> QED BY <3>1, <3>2 DEF MarksInv, PlaceFits, Positive
  <2>2. CASE c # chapter
    <3>1. /\ chapter' = c /\ wrapped' = FALSE /\ hint' = <<>> /\ anchorSel' = 0
          /\ UNCHANGED <<laid, width>> /\ scroll' = 1
      BY <2>2 DEF ClickChapter, Load
    <3>2. CursorFits' /\ BadgesFit'
      BY <3>1, PartsStay
    <3>3. c \in Chapters /\ width \in Widths /\ laid \in [sec : Chapters, width : Widths]
      BY DEF MarksInv, PlaceFits
    <3>4. 1 \in Positive
      BY DEF Positive
    <3>5. PlaceFits'
      BY <3>1, <3>3, <3>4 DEF PlaceFits
    <3> QED BY <3>2, <3>5
  <2> QED BY <2>1, <2>2
<1> QED BY <1>1, <1>2, PartsStay DEF MarksInv

(* The wheel stays on the lines.                                              *)
LEMMA WheelKeeps == ASSUME MarksInv, NEW l \in 1 .. Len(Lines), WheelTo(l) PROVE MarksInv'
<1>1. /\ scroll' = Clamped(l, Len(Lines)) /\ moved' = FALSE
      /\ UNCHANGED <<chapter, laid, wrapped, width>> /\ UNCHANGED <<found, match>>
      /\ UNCHANGED <<select, anchorSel, hint>>
  BY DEF WheelTo, Moved, search, pointers
<1>2. Len(Lines) \in Nat /\ l \in Positive
  BY LinesAre DEF MarksInv, Positive
<1>3. PlaceFits'
  BY <1>1, <1>2, FramesStart DEF MarksInv, PlaceFits
<1>4. CursorFits' /\ BadgesFit' /\ SearchFits' /\ CaretFits'
  BY <1>1, PartsStay
<1> QED BY <1>1, <1>3, <1>4 DEF MarksInv

(* A new width is for the next frame.                                         *)
LEMMA ResizeKeeps == ASSUME MarksInv, NEW w \in Widths, Resize(w) PROVE MarksInv'
<1>1. /\ width' = w /\ moved' = FALSE
      /\ UNCHANGED <<chapter, scroll, laid, wrapped>> /\ UNCHANGED <<found, match>>
      /\ UNCHANGED <<select, anchorSel, hint>>
  BY DEF Resize, Moved, search, pointers
<1>2. PlaceFits'
  BY <1>1 DEF MarksInv, PlaceFits
<1>3. CursorFits' /\ BadgesFit' /\ SearchFits' /\ CaretFits'
  BY <1>1, PartsStay
<1> QED BY <1>1, <1>2, <1>3 DEF MarksInv

(* A frame wraps the chapter, and rests at a line.                            *)
LEMMA DrawKeeps == ASSUME MarksInv, Draw PROVE MarksInv'
<1>1. /\ Wrapped(chapter, width, anchorSel) /\ moved' = FALSE
      /\ scroll' = Clamped(RestsAt(scroll), Len(Laid[width][chapter]))
      /\ UNCHANGED <<chapter, width, select, hint>> /\ UNCHANGED <<found, match>>
  BY DEF Draw, Moved, search
<1>2. chapter \in Chapters /\ width \in Widths /\ anchorSel \in Nat /\ scroll \in Positive
  BY DEF MarksInv, PlaceFits, CursorFits
<1>3. laid' = [sec |-> chapter, width |-> width] /\ wrapped' = TRUE /\ CursorFits'
  BY <1>1, <1>2, WrappedFits
<1>4. scroll' \in Positive
  BY <1>1, <1>2, LaidLines, FramesStart DEF Positive
<1>5. PlaceFits'
  BY <1>1, <1>2, <1>3, <1>4 DEF PlaceFits
<1>6. BadgesFit' /\ SearchFits' /\ CaretFits'
  BY <1>1, PartsStay
<1> QED BY <1>1, <1>3, <1>5, <1>6 DEF MarksInv

-----------------------------------------------------------------------------
(* The caret.                                                                 *)
LEMMA StartSelectionKeeps == ASSUME MarksInv, StartSelection PROVE MarksInv'
<1> DEFINE n == Len(Lines)
           seen == {l \in scroll .. n : ~Blank(Lines[l])}
           line == IF seen = {} THEN Lesser(scroll, n) ELSE CHOOSE l \in seen : \A k \in seen : l <= k
<1>1. /\ select' = [caret |-> <<line, 1>>, anchor |-> NoCaret] /\ moved' = FALSE
      /\ UNCHANGED place /\ UNCHANGED <<found, match>> /\ UNCHANGED <<anchorSel, hint>>
  BY DEF StartSelection, Moved, search
<1>2. line \in Positive
  <2>1. n \in Positive /\ scroll \in Positive
    BY LinesAre DEF MarksInv, PlaceFits
  <2>2. Lesser(scroll, n) \in Positive
    BY <2>1 DEF Lesser
  <2>3. seen \in SUBSET Positive /\ Positive \in SUBSET Nat
    BY <2>1 DEF Positive
  <2> HIDE DEF seen
  <2>4. ASSUME seen # {} PROVE (CHOOSE l \in seen : \A k \in seen : l <= k) \in Positive
    <3>1. \E l \in seen : \A k \in seen : l <= k
      BY <2>3, <2>4, LeastElement
    <3> QED BY <2>3, <3>1
  <2> QED BY <2>2, <2>4
<1> HIDE DEF line
<1>3. CaretFits'
  <2>1. select' \in [caret : Nat \X Nat, anchor : Nat \X Nat] /\ select'.caret[1] # 0
    BY <1>1, <1>2 DEF NoCaret, Positive
  <2>2. ~Selecting'
    BY <1>1 DEF Selecting
  <2> QED BY <2>1, <2>2 DEF CaretFits, Caret
<1>4. UNCHANGED <<hint, chapter>>
  BY <1>1 DEF place
<1> QED BY <1>1, <1>3, <1>4, PartsStay DEF MarksInv

(* A motion ends on a line in view.                                           *)
LEMMA MoveCaretKeeps == ASSUME MarksInv, NEW way \in Ways, MoveCaret(way) PROVE MarksInv'
<1> DEFINE p == Motion(ClampedCaret(Caret), way)
           a == IF Selecting THEN ClampedCaret(select.anchor) ELSE NoCaret
<1>1. /\ select # NoSelect /\ select' = [caret |-> p, anchor |-> a]
      /\ scroll' = FollowCaret(select'.caret[1]) /\ moved' = Drawn
      /\ UNCHANGED <<chapter, laid, wrapped, width, anchorSel, hint>> /\ UNCHANGED <<found, match>>
  BY DEF MoveCaret, Moved, search
<1>2. PlaceFits /\ CaretFits
  BY DEF MarksInv
<1>3. Caret \in Nat \X Nat /\ Caret[1] # 0
  BY <1>1, <1>2 DEF CaretFits, Caret
<1>4. p \in (1 .. Len(Lines)) \X Nat
  BY <1>2, <1>3, ClampedCaretFits, MotionFits
<1>5. Selecting => a \in (1 .. Len(Lines)) \X Nat
  BY <1>2, ClampedCaretFits DEF CaretFits
<1> HIDE DEF p
<1>6. p \in Nat \X Nat /\ p[1] \in 1 .. Len(Lines) /\ p[1] # 0
  BY <1>4, LinesAre, <1>2 DEF Positive
<1>7. a \in Nat \X Nat /\ (a # NoCaret => a[1] # 0)
  <2>1. CASE Selecting
    <3> HIDE DEF a
    <3> QED BY <1>2, <1>5, <2>1, LinesAre DEF Positive
  <2>2. CASE ~Selecting
    BY <2>2 DEF NoCaret
  <2> QED BY <2>1, <2>2
<1> HIDE DEF a
<1>8. select'.caret = p /\ select'.anchor = a
  BY <1>1
<1>9. CaretFits'
  <2>1. select' \in [caret : Nat \X Nat, anchor : Nat \X Nat]
    BY <1>1, <1>6, <1>7
  <2> QED BY <1>6, <1>7, <1>8, <2>1 DEF CaretFits, Caret, Selecting
<1>10. /\ scroll' \in Positive /\ scroll' <= MaxScroll(Len(Lines))
       /\ scroll' <= p[1] /\ p[1] <= scroll' + Span - 1
  BY <1>1, <1>2, <1>6, <1>8, FollowSees
<1>11. PlaceFits'
  BY <1>1, <1>2, <1>10 DEF PlaceFits
<1>12. Lines' = Lines /\ Drawn' = Drawn
  BY <1>1 DEF Lines, LinesOf, Drawn
<1>13. ((moved /\ select # NoSelect) => CaretSeen)'
  BY <1>1, <1>8, <1>10, <1>12 DEF CaretSeen, Caret
<1>14. CursorFits' /\ BadgesFit' /\ SearchFits'
  BY <1>1, PartsStay
<1> QED BY <1>9, <1>11, <1>13, <1>14 DEF MarksInv

(* The other keys of the caret, the marks and the notes leave the page alone. *)
LEMMA SelectKeeps ==
    ASSUME MarksInv, UNCHANGED <<place, anchorSel, hint, search>>,
           \/ UNCHANGED <<select, moved>>
           \/ select' = NoSelect
           \/ ToggleAnchor
    PROVE  MarksInv'
<1>1. PlaceFits' /\ Lines' = Lines /\ Drawn' = Drawn /\ CursorFits' /\ SearchFits' /\ BadgesFit'
  <2>1. UNCHANGED <<hint, chapter>> /\ UNCHANGED <<found, match>> /\ UNCHANGED <<place, anchorSel>>
    BY DEF place, search
  <2> QED BY <2>1, PartsStay
<1>2. CASE UNCHANGED <<select, moved>>
  BY <1>1, <1>2, PartsStay DEF MarksInv
<1>3. CASE select' = NoSelect
  <2>1. CaretFits'
    BY <1>3 DEF CaretFits, NoSelect, NoCaret, Caret, Selecting
  <2> QED BY <1>1, <1>3, <2>1 DEF MarksInv
<1>4. CASE ToggleAnchor
  <2>1. /\ select # NoSelect /\ select' = [select EXCEPT !.anchor = IF Selecting THEN NoCaret ELSE Caret]
        /\ UNCHANGED moved
    BY <1>4 DEF ToggleAnchor
  <2>2. select \in [caret : Nat \X Nat, anchor : Nat \X Nat] /\ Caret[1] # 0
    BY <2>1 DEF MarksInv, CaretFits
  <2>3. Caret \in Nat \X Nat /\ NoCaret \in Nat \X Nat
    BY <2>2 DEF Caret, NoCaret
  <2>4. select'.caret = Caret /\ select'.anchor \in {NoCaret, Caret}
        /\ select' \in [caret : Nat \X Nat, anchor : Nat \X Nat]
    BY <2>1, <2>2, <2>3 DEF Caret
  <2>5. Caret' = Caret
    BY <2>4 DEF Caret
  <2>6. CaretFits'
    BY <2>2, <2>4, <2>5 DEF CaretFits, Selecting
  <2>7. ((moved /\ select # NoSelect) => CaretSeen)'
    <3>1. moved => CaretSeen
      BY <2>1 DEF MarksInv
    <3>2. UNCHANGED scroll
      BY DEF place
    <3> QED BY <1>1, <2>1, <2>5, <3>1, <3>2 DEF CaretSeen
  <2> QED BY <1>1, <2>6, <2>7 DEF MarksInv
<1> QED BY <1>2, <1>3, <1>4

-----------------------------------------------------------------------------
(* The link cursor, and the jumps between elements.                           *)
LEMMA StepAnchorKeeps == ASSUME MarksInv, NEW forward \in BOOLEAN, StepAnchor(forward) PROVE MarksInv'
<1> DEFINE lines == Laid[laid.width][chapter]
           hits == HitsOf(lines)
           n == Len(hits)
           below == {i \in 1 .. n : hits[i].line >= scroll}
           above == {i \in 1 .. n : hits[i].line < scroll + PageLines}
           next == IF anchorSel # 0
                   THEN ((anchorSel - 1 + (IF forward THEN 1 ELSE n - 1)) % n) + 1
                   ELSE IF forward
                   THEN IF below = {} THEN 1 ELSE CHOOSE i \in below : \A j \in below : i <= j
                   ELSE IF above = {} THEN n ELSE CHOOSE i \in above : \A j \in above : i >= j
<1>1. /\ moved' = FALSE /\ UNCHANGED <<chapter, width, select, hint>> /\ UNCHANGED <<found, match>>
      /\ IF n = 0 THEN Wrapped(chapter, laid.width, anchorSel) /\ UNCHANGED scroll
         ELSE /\ Wrapped(chapter, laid.width, next)
              /\ scroll' = ScrollIntoView(hits[next].line, lines)
  BY DEF StepAnchor, Moved, search
<1>2. chapter \in Chapters /\ laid.width \in Widths /\ width \in Widths /\ anchorSel \in Nat
      /\ scroll \in Positive
  BY DEF MarksInv, PlaceFits, CursorFits
<1>3. hits \in Seq(Hit) /\ n \in Nat
  BY <1>2, HitsIn
<1>4. lines \in Seq(Row) /\ Len(lines) \in Nat
  BY <1>2, LaidLines DEF Positive
<1>5. ASSUME n # 0 PROVE next \in 1 .. n
  <2>1. n \in Positive
    BY <1>3, <1>5 DEF Positive
  <2>2. ((anchorSel - 1 + (IF forward THEN 1 ELSE n - 1)) % n) + 1 \in 1 .. n
    <3> DEFINE k == anchorSel - 1 + (IF forward THEN 1 ELSE n - 1)
    <3>1. k \in Int
      BY <1>2, <1>3
    <3> HIDE DEF k
    <3>2. k % n \in 0 .. n - 1
      BY <2>1, <3>1 DEF Positive
    <3>3. (k % n) + 1 \in 1 .. n
      BY <2>1, <3>2 DEF Positive
    <3> QED BY <3>3 DEF k
  <2>3. below # {} => (CHOOSE i \in below : \A j \in below : i <= j) \in 1 .. n
    <3>1. below \in SUBSET (1 .. n) /\ below \in SUBSET Nat
      BY <1>3
    <3> HIDE DEF below
    <3>2. below # {} => \E i \in below : \A j \in below : i <= j
      BY <3>1, LeastElement
    <3> QED BY <3>1, <3>2
  <2>4. above # {} => (CHOOSE i \in above : \A j \in above : i >= j) \in 1 .. n
    <3>1. above \in SUBSET (1 .. n)
      BY <1>3
    <3> HIDE DEF above
    <3>2. above # {} => \E i \in above : \A j \in above : j <= i
      BY <1>3, <3>1, GreatestElement
    <3>3. above # {} => \E i \in above : \A j \in above : i >= j
      <4>1. \A i \in 1 .. n : i \in Int
        BY <1>3
      <4> QED BY <3>1, <3>2, <4>1
    <3> QED BY <3>1, <3>3
  <2>5. 1 \in 1 .. n /\ n \in 1 .. n
    BY <2>1 DEF Positive
  <2> HIDE DEF below, above
  <2> QED BY <2>2, <2>3, <2>4, <2>5
<1> HIDE DEF next
<1>6. /\ CursorFits' /\ wrapped' = TRUE /\ laid' = [sec |-> chapter, width |-> laid.width]
      /\ scroll' \in Positive
  <2>1. CASE n = 0
    <3>1. Wrapped(chapter, laid.width, anchorSel) /\ UNCHANGED scroll
      BY <1>1, <2>1
    <3> QED BY <1>2, <3>1, WrappedFits
  <2>2. CASE n # 0
    <3>1. Wrapped(chapter, laid.width, next) /\ scroll' = ScrollIntoView(hits[next].line, lines)
      BY <1>1, <2>2
    <3>2. next \in 1 .. n /\ next \in Nat
      BY <1>3, <1>5, <2>2
    <3>3. hits[next] \in Hit
      BY <1>3, <3>2
    <3> DEFINE l == hits[next].line
               to == IF l < scroll THEN l
                     ELSE IF l >= scroll + PageLines THEN Greater(l - PageLines \div 2, 1) ELSE scroll
    <3>4. l \in Positive
      BY <3>3 DEF Hit
    <3>5. PageLines \div 2 \in Int
      BY SpanIs DEF Positive
    <3> HIDE DEF l
    <3>6. to \in Int
      BY <1>2, <3>4, <3>5 DEF Greater, Positive
    <3>7. ScrollIntoView(l, lines) = Clamped(to, Len(lines))
      BY DEF ScrollIntoView
    <3> HIDE DEF to
    <3>8. ScrollIntoView(l, lines) \in Positive
      BY <1>4, <3>6, <3>7, Scrolls
    <3>9. scroll' \in Positive
      BY <3>1, <3>8 DEF l
    <3> QED BY <1>2, <3>1, <3>2, <3>9, WrappedFits
  <2> QED BY <2>1, <2>2
<1>7. PlaceFits'
  BY <1>1, <1>2, <1>6 DEF PlaceFits
<1>8. SearchFits' /\ CaretFits' /\ BadgesFit'
  BY <1>1, PartsStay
<1> QED BY <1>1, <1>6, <1>7, <1>8 DEF MarksInv

(* No link is under the cursor.                                               *)
LEMMA ClearAnchorKeeps == ASSUME MarksInv, ClearAnchor PROVE MarksInv'
<1>1. /\ anchorSel' = 0 /\ moved' = FALSE
      /\ UNCHANGED place /\ UNCHANGED <<select, hint>> /\ UNCHANGED <<found, match>>
  BY DEF ClearAnchor, Moved, search
<1>2. UNCHANGED <<hint, chapter>>
  BY <1>1 DEF place
<1> QED BY <1>1, <1>2, PartsStay DEF MarksInv

(* A link's target is a place to rest at.                                     *)
LEMMA LinesOfChars ==
    ASSUME NEW w \in Widths, NEW c \in Chapters, NEW ch
    PROVE  Clamped(LineOfChar(Laid[w][c], ch), Len(Laid[w][c])) \in Positive
<1> DEFINE lines == Laid[w][c]
           on == {l \in 1 .. Len(lines) : ch \in ToSet(lines[l].text)}
<1>1. Len(lines) \in Nat
  BY LaidLines DEF Positive
<1>2. on \in SUBSET Nat
  BY <1>1
<1>3. LineOfChar(lines, ch) = IF on = {} THEN 1 ELSE CHOOSE l \in on : \A k \in on : l <= k
  BY DEF LineOfChar
<1> HIDE DEF on
<1>4. on # {} => \E l \in on : \A k \in on : l <= k
  BY <1>2, LeastElement
<1> HIDE DEF lines
<1>5. LineOfChar(lines, ch) \in Int
  <2> DEFINE z == CHOOSE l \in on : \A k \in on : l <= k
  <2>1. on # {} => z \in on
    BY <1>4
  <2> HIDE DEF z
  <2>2. on # {} => z \in Nat
    BY <1>2, <2>1
  <2>3. LineOfChar(lines, ch) = IF on = {} THEN 1 ELSE z
    BY <1>3 DEF z
  <2> QED BY <2>2, <2>3
<1>6. Clamped(LineOfChar(lines, ch), Len(lines)) \in Positive
  BY <1>1, <1>5, Scrolls
<1> QED BY <1>6 DEF lines

(* A link leaves the page, or lands on one of the book's.                     *)
LEMMA ActivateAnchorKeeps == ASSUME MarksInv, ActivateAnchor PROVE MarksInv'
<1> DEFINE to == Leads[Hits[anchorSel].link]
<1>1. /\ anchorSel \in 1 .. Len(Hits) /\ moved' = FALSE
      /\ UNCHANGED <<width, select>> /\ UNCHANGED <<found, match>>
      /\ IF to.sec = 0
         THEN anchorSel' = 0 /\ UNCHANGED <<chapter, scroll, laid, wrapped, hint>>
         ELSE IF to.sec = chapter
         THEN /\ anchorSel' = 0
              /\ scroll' = Clamped(LineOfChar(Lines, to.ch), Len(Lines))
              /\ UNCHANGED <<chapter, laid, wrapped, hint>>
         ELSE /\ chapter' = to.sec /\ hint' = <<>>
              /\ Wrapped(to.sec, laid.width, 0)
              /\ scroll' = Clamped(LineOfChar(Laid[laid.width][to.sec], to.ch),
                                   Len(Laid[laid.width][to.sec]))
  BY DEF ActivateAnchor, Moved, search
<1>2. PlaceFits /\ laid.width \in Widths /\ laid.sec \in Chapters
  BY DEF MarksInv, PlaceFits
<1>3. to.sec \in {0} \cup Chapters
  <2>1. Hits \in Seq(Hit)
    BY <1>2, HitsIn DEF Hits, Lines, LinesOf
  <2>2. Hits[anchorSel] \in Hit
    BY <1>1, <2>1
  <2> QED BY <2>2 DEF Hit
<1>4. PlaceFits' /\ CursorFits' /\ BadgesFit'
  <2>1. CASE to.sec = 0
    <3>1. anchorSel' = 0 /\ UNCHANGED <<chapter, scroll, laid, wrapped, hint, width>>
      BY <1>1, <2>1
    <3>2. UNCHANGED <<hint, chapter>> /\ anchorSel' = 0
      BY <3>1
    <3>3. CursorFits' /\ BadgesFit'
      BY <3>2, PartsStay
    <3> QED BY <1>2, <3>1, <3>3 DEF PlaceFits
  <2>2. CASE to.sec # 0 /\ to.sec = chapter
    <3>1. /\ anchorSel' = 0 /\ UNCHANGED <<chapter, laid, wrapped, hint, width>>
          /\ scroll' = Clamped(LineOfChar(Lines, to.ch), Len(Lines))
      BY <1>1, <2>2
    <3>2. scroll' \in Positive
      BY <1>2, <3>1, LinesOfChars DEF Lines, LinesOf
    <3>3. UNCHANGED <<hint, chapter>> /\ anchorSel' = 0
      BY <3>1
    <3>4. CursorFits' /\ BadgesFit'
      BY <3>3, PartsStay
    <3> QED BY <1>2, <3>1, <3>2, <3>4 DEF PlaceFits
  <2>3. CASE to.sec # 0 /\ to.sec # chapter
    <3>1. /\ chapter' = to.sec /\ hint' = <<>> /\ Wrapped(to.sec, laid.width, 0)
          /\ scroll' = Clamped(LineOfChar(Laid[laid.width][to.sec], to.ch),
                               Len(Laid[laid.width][to.sec]))
          /\ UNCHANGED width
      BY <1>1, <2>3
    <3>2. to.sec \in Chapters
      BY <1>3, <2>3
    <3> HIDE DEF to
    <3>3. scroll' \in Positive
      BY <1>2, <3>1, <3>2, LinesOfChars
    <3>4. laid' = [sec |-> to.sec, width |-> laid.width] /\ wrapped' = TRUE /\ CursorFits'
      BY <1>2, <3>1, <3>2, WrappedFits
    <3>5. BadgesFit'
      BY <3>1, PartsStay
    <3>6. width' \in Widths
      BY <1>2, <3>1 DEF PlaceFits
    <3> QED BY <1>2, <3>1, <3>2, <3>3, <3>4, <3>5, <3>6 DEF PlaceFits
  <2> QED BY <2>1, <2>2, <2>3
<1>5. SearchFits' /\ CaretFits'
  BY <1>1, PartsStay
<1> QED BY <1>1, <1>4, <1>5 DEF MarksInv

(* A jump lands where an element starts.                                      *)
LEMMA JumpElementKeeps == ASSUME MarksInv, NEW forward \in BOOLEAN, JumpElement(forward) PROVE MarksInv'
<1> DEFINE lines == Laid[laid.width][chapter]
           ahead == {l \in ElementStarts(lines) : l > scroll}
           behind == {l \in ElementStarts(lines) : l < scroll}
           to == IF forward THEN {l \in ahead : \A k \in ahead : l <= k}
                 ELSE {l \in behind : \A k \in behind : l >= k}
<1>1. /\ Wrapped(chapter, laid.width, anchorSel) /\ moved' = FALSE
      /\ UNCHANGED <<chapter, width, select, hint>> /\ UNCHANGED <<found, match>>
      /\ scroll' = IF to = {} THEN scroll ELSE Clamped(CHOOSE l \in to : TRUE, Len(lines))
  BY DEF JumpElement, Moved, search
<1>2. chapter \in Chapters /\ laid.width \in Widths /\ width \in Widths /\ anchorSel \in Nat
      /\ scroll \in Positive
  BY DEF MarksInv, PlaceFits, CursorFits
<1>3. Len(lines) \in Nat
  BY <1>2, LaidLines DEF Positive
<1>4. to \in SUBSET Int
  <2>1. ElementStarts(lines) \in SUBSET Int
    BY <1>3 DEF ElementStarts
  <2> QED BY <2>1
<1> HIDE DEF to
<1>5. to # {} => Clamped(CHOOSE l \in to : TRUE, Len(lines)) \in Positive
  <2>1. to # {} => (CHOOSE l \in to : TRUE) \in Int
    BY <1>4
  <2> QED BY <1>3, <2>1, Scrolls
<1>6. scroll' \in Positive
  BY <1>1, <1>2, <1>5
<1>7. laid' = [sec |-> chapter, width |-> laid.width] /\ wrapped' = TRUE /\ CursorFits'
  BY <1>1, <1>2, WrappedFits
<1>8. PlaceFits'
  BY <1>1, <1>2, <1>6, <1>7 DEF PlaceFits
<1>9. SearchFits' /\ CaretFits' /\ BadgesFit'
  BY <1>1, PartsStay
<1> QED BY <1>1, <1>7, <1>8, <1>9 DEF MarksInv

-----------------------------------------------------------------------------
(* The search.                                                                *)
LEMMA GotoFits ==
    ASSUME MarksInv, NEW to \in Chapters \X Positive, GotoMatch(to), UNCHANGED <<laid, width>>
    PROVE  PlaceFits' /\ CursorFits' /\ BadgesFit'
<1>1. to[1] \in Chapters /\ to[2] \in Positive /\ scroll' = to[2]
  BY DEF GotoMatch
<1>2. chapter \in Chapters /\ width \in Widths /\ laid \in [sec : Chapters, width : Widths]
      /\ wrapped \in BOOLEAN /\ (wrapped => laid.sec = chapter)
  BY DEF MarksInv, PlaceFits
<1>3. CASE to[1] = chapter
  <2>1. UNCHANGED <<chapter, wrapped, hint, anchorSel>>
    BY <1>3 DEF GotoMatch
  <2>2. UNCHANGED <<hint, chapter>> /\ UNCHANGED <<anchorSel, laid, wrapped>>
    BY <2>1
  <2>3. CursorFits' /\ BadgesFit'
    BY <2>2, PartsStay
  <2>4. PlaceFits'
    BY <1>1, <1>2, <2>1 DEF PlaceFits
  <2> QED BY <2>3, <2>4
<1>4. CASE to[1] # chapter
  <2>1. chapter' = to[1] /\ wrapped' = FALSE /\ hint' = <<>> /\ anchorSel' = 0
    BY <1>4 DEF GotoMatch, Load
  <2>2. CursorFits' /\ BadgesFit'
    BY <2>1, PartsStay
  <2>3. PlaceFits'
    BY <1>1, <1>2, <2>1 DEF PlaceFits
  <2> QED BY <2>2, <2>3
<1> QED BY <1>3, <1>4

(* A search lands on its first match.                                         *)
LEMMA RunSearchKeeps == ASSUME MarksInv, NEW q \in Queries, RunSearch(q) PROVE MarksInv'
<1>1. /\ moved' = FALSE /\ UNCHANGED <<laid, width>> /\ UNCHANGED select
      /\ found' = MatchesOf(laid.width, q)
      /\ IF found' = <<>>
         THEN match' = 0 /\ UNCHANGED <<chapter, scroll, wrapped, hint, anchorSel>>
         ELSE match' = 1 /\ GotoMatch(found'[1])
  BY DEF RunSearch, Searching, Moved
<1>2. laid.width \in Widths
  BY DEF MarksInv, PlaceFits
<1>3. found' \in Seq(Chapters \X Positive) /\ Len(found') \in Nat
  BY <1>1, <1>2, MatchesAre
<1>4. CASE found' = <<>>
  <2>1. match' = 0 /\ UNCHANGED <<chapter, scroll, wrapped, hint, anchorSel>>
    BY <1>1, <1>4
  <2>2. UNCHANGED <<hint, chapter>> /\ UNCHANGED <<anchorSel, laid, wrapped>>
    BY <1>1, <2>1
  <2>3. SearchFits'
    BY <1>3, <1>4, <2>1 DEF SearchFits
  <2>4. PlaceFits'
    BY <1>1, <2>1 DEF MarksInv, PlaceFits
  <2> QED BY <1>1, <2>2, <2>3, <2>4, PartsStay DEF MarksInv
<1>5. CASE found' # <<>>
  <2>1. match' = 1 /\ GotoMatch(found'[1])
    BY <1>1, <1>5
  <2>2. Len(found') # 0
    BY <1>3, <1>5, EmptySeq
  <2>3. 1 \in 1 .. Len(found')
    BY <1>3, <2>2
  <2>4. found'[1] \in Chapters \X Positive
    BY <1>3, <2>3
  <2>5. SearchFits'
    BY <1>3, <2>1, <2>3 DEF SearchFits
  <2>6. PlaceFits' /\ CursorFits' /\ BadgesFit'
    BY <1>1, <2>1, <2>4, GotoFits
  <2> QED BY <1>1, <2>5, <2>6, PartsStay DEF MarksInv
<1> QED BY <1>4, <1>5

(* It goes round its matches.                                                 *)
LEMMA SearchStepKeeps == ASSUME MarksInv, NEW forward \in BOOLEAN, SearchStep(forward) PROVE MarksInv'
<1> DEFINE n == Len(found)
           k == match - 1 + (IF forward THEN 1 ELSE n - 1)
<1>1. /\ moved' = FALSE /\ UNCHANGED <<laid, width>> /\ UNCHANGED select
      /\ found # <<>> /\ UNCHANGED found /\ match' = (k % n) + 1 /\ GotoMatch(found[match'])
  BY DEF SearchStep, Searching, Moved
<1>2. found \in Seq(Chapters \X Positive) /\ match \in 0 .. n
  BY DEF MarksInv, SearchFits
<1>3. n \in Positive
  <2>1. n # 0
    BY <1>1, <1>2, EmptySeq
  <2> QED BY <1>2, <2>1 DEF Positive
<1>4. k \in Int
  BY <1>2, <1>3 DEF Positive
<1> HIDE DEF k
<1>5. k % n \in 0 .. n - 1
  BY <1>3, <1>4 DEF Positive
<1>6. match' \in 1 .. n
  BY <1>1, <1>3, <1>5 DEF Positive
<1>7. SearchFits'
  <2>1. match' \in 0 .. n /\ match' # 0
    BY <1>3, <1>6 DEF Positive
  <2> QED BY <1>1, <1>2, <2>1 DEF SearchFits
<1>8. found[match'] \in Chapters \X Positive
  BY <1>2, <1>6
<1>9. PlaceFits' /\ CursorFits' /\ BadgesFit'
  BY <1>1, <1>8, GotoFits
<1> QED BY <1>1, <1>7, <1>9, PartsStay DEF MarksInv

(* Without matches there is no match.                                         *)
LEMMA ClearHighlightKeeps == ASSUME MarksInv, ClearHighlight PROVE MarksInv'
<1>1. /\ moved' = FALSE /\ found' = <<>> /\ match' = 0 /\ UNCHANGED select
      /\ UNCHANGED <<chapter, scroll, wrapped, hint, anchorSel, laid, width>>
  BY DEF ClearHighlight, Searching, Moved
<1>2. UNCHANGED <<hint, chapter>> /\ UNCHANGED <<anchorSel, laid, wrapped>>
  BY <1>1
<1>3. SearchFits'
  BY <1>1 DEF SearchFits
<1>4. PlaceFits'
  BY <1>1 DEF MarksInv, PlaceFits
<1> QED BY <1>1, <1>2, <1>3, <1>4, PartsStay DEF MarksInv

-----------------------------------------------------------------------------
(* The badges.                                                                *)
LEMMA BadgesKeep ==
    ASSUME MarksInv, UNCHANGED <<place, select, anchorSel, search>>, moved' = FALSE,
           hint' = <<>> \/ \E kind : hint' = InView(kind)
    PROVE  MarksInv'
<1>1. BadgesFit'
  <2>1. CASE hint' = <<>>
    BY <2>1, PartsStay
  <2>2. CASE \E kind : hint' = InView(kind)
    <3>1. PICK kind : hint' = InView(kind)
      BY <2>2
    <3>2. \A i \in 1 .. Len(hint') : hint'[i].kind = "image" => hint'[i].idx \in Opens[chapter]
      BY <3>1, BadgesOpen DEF MarksInv
    <3>3. UNCHANGED chapter
      BY DEF place
    <3> QED BY <3>2, <3>3 DEF BadgesFit
  <2> QED BY <2>1, <2>2
<1>2. UNCHANGED <<found, match>> /\ UNCHANGED select /\ UNCHANGED <<place, anchorSel>> /\ UNCHANGED place
  BY DEF search
<1> QED BY <1>1, <1>2, PartsStay DEF MarksInv

-----------------------------------------------------------------------------
(* Every step of the marks keeps it.                                          *)
LEMMA MarksStep == ASSUME MarksInv, [MarksNext]_marksVars PROVE MarksInv'
<1>1. ASSUME NEW c \in Chapters, ClickChapter(c) PROVE MarksInv'
  BY <1>1, ClickKeeps
<1>2. ASSUME NEW l \in 1 .. Len(Lines), WheelTo(l) PROVE MarksInv'
  BY <1>2, WheelKeeps
<1>3. ASSUME NEW w \in Widths, Resize(w) PROVE MarksInv'
  BY <1>3, ResizeKeeps
<1>4. CASE Draw
  BY <1>4, DrawKeeps
<1>5. CASE StartSelection
  BY <1>5, StartSelectionKeeps
<1>6. CASE ToggleAnchor
  <2>1. UNCHANGED <<place, anchorSel, hint, search>>
    BY <1>6 DEF ToggleAnchor
  <2> QED BY <1>6, <2>1, SelectKeeps
<1>7. CASE LeaveSelection
  <2>1. UNCHANGED <<place, anchorSel, hint, search>> /\ select' = NoSelect
    BY <1>7 DEF LeaveSelection
  <2> QED BY <2>1, SelectKeeps
<1>8. ASSUME NEW way \in Ways, MoveCaret(way) PROVE MarksInv'
  BY <1>8, MoveCaretKeeps
<1>9. CASE AddBookmark
  <2>1. UNCHANGED <<place, anchorSel, hint, search>> /\ UNCHANGED <<select, moved>>
    BY <1>9 DEF AddBookmark, Marking
  <2> QED BY <2>1, SelectKeeps
<1>10. CASE HighlightLine
  <2>1. UNCHANGED <<place, anchorSel, hint, search>> /\ UNCHANGED <<select, moved>>
    BY <1>10 DEF HighlightLine, Marking
  <2> QED BY <2>1, SelectKeeps
<1>11. CASE AddNote
  <2>1. UNCHANGED <<place, anchorSel, hint, search>> /\ select' = NoSelect
    BY <1>11 DEF AddNote, Marking
  <2> QED BY <2>1, SelectKeeps
<1>12. ASSUME NEW i \in 1 .. Len(Colors), HighlightSelection(Colors[i]) PROVE MarksInv'
  <2>1. UNCHANGED <<place, anchorSel, hint, search>> /\ UNCHANGED <<select, moved>>
    BY <1>12 DEF HighlightSelection, Marking
  <2> QED BY <2>1, SelectKeeps
<1>13. ASSUME NEW written \in BOOLEAN, CommitNote(written) PROVE MarksInv'
  <2>1. UNCHANGED <<place, anchorSel, hint, search>> /\ UNCHANGED <<select, moved>>
    BY <1>13 DEF CommitNote, pointers
  <2> QED BY <2>1, SelectKeeps
<1>14. ASSUME NEW forward \in BOOLEAN, StepAnchor(forward) PROVE MarksInv'
  BY <1>14, StepAnchorKeeps
<1>15. CASE ClearAnchor
  BY <1>15, ClearAnchorKeeps
<1>16. CASE ActivateAnchor
  BY <1>16, ActivateAnchorKeeps
<1>17. ASSUME NEW forward \in BOOLEAN, JumpElement(forward) PROVE MarksInv'
  BY <1>17, JumpElementKeeps
<1>18. ASSUME NEW forward \in BOOLEAN, SearchStep(forward) PROVE MarksInv'
  BY <1>18, SearchStepKeeps
<1>19. ASSUME NEW q \in Queries, RunSearch(q) PROVE MarksInv'
  BY <1>19, RunSearchKeeps
<1>20. CASE ClearHighlight
  BY <1>20, ClearHighlightKeeps
<1>21. ASSUME NEW kind \in {"image", "code"}, HintStart(kind) PROVE MarksInv'
  <2>1. /\ UNCHANGED <<place, select, anchorSel, search>> /\ moved' = FALSE
        /\ hint' = <<>> \/ hint' = InView(kind)
    BY <1>21 DEF HintStart, Moved
  <2> QED BY <2>1, BadgesKeep
<1>22. CASE HintCancel
  <2>1. UNCHANGED <<place, select, anchorSel, search>> /\ moved' = FALSE /\ hint' = <<>>
    BY <1>22 DEF HintCancel, Moved
  <2> QED BY <2>1, BadgesKeep
<1>23. ASSUME NEW n \in 1 .. MaxBadges, HintPick(n) PROVE MarksInv'
  <2>1. UNCHANGED <<place, select, anchorSel, search>> /\ moved' = FALSE /\ hint' = <<>>
    BY <1>23 DEF HintPick, Moved
  <2> QED BY <2>1, BadgesKeep
<1>24. CASE UNCHANGED marksVars
  <2>1. UNCHANGED <<place, anchorSel, hint, search>> /\ UNCHANGED <<select, moved>>
    BY <1>24 DEF marksVars, pointers
  <2> QED BY <2>1, SelectKeeps
<1> QED
  BY <1>1, <1>2, <1>3, <1>4, <1>5, <1>6, <1>7, <1>8, <1>9, <1>10, <1>11, <1>12, <1>13, <1>14,
     <1>15, <1>16, <1>17, <1>18, <1>19, <1>20, <1>21, <1>22, <1>23, <1>24 DEF MarksNext

(* The cursor and the badges of the figures are of the chapter shown.         *)
LEMMA PointersFit == ASSUME MarksInv PROVE PointersHere
<1>1. BadgesHere("image")
  <2> SUFFICES ASSUME NEW i \in 1 .. Len(hint), hint[i].kind = "image"
               PROVE  \E l \in 1 .. Len(Laid[width][chapter]) :
                          Laid[width][chapter][l].kind = "image"
                          /\ Laid[width][chapter][l].idx = hint[i].idx
    BY DEF BadgesHere
  <2>1. hint[i].idx \in Opens[chapter] /\ width \in Widths /\ chapter \in Chapters
    BY DEF MarksInv, BadgesFit, PlaceFits
  <2> QED BY <2>1, BookAssumption
<1> QED BY <1>1 DEF PointersHere, MarksInv, CursorFits, PlaceFits

(* A frame leaves the caret that was just moved in view.                      *)
LEMMA DrawSees ==
    ASSUME MarksInv, Draw, moved, select # NoSelect
    PROVE  Caret[1] \in scroll' .. (scroll' + Span - 1)
<1>1. /\ Drawn /\ scroll <= MaxScroll(Len(Lines))
      /\ scroll <= Caret[1] /\ Caret[1] <= scroll + Span - 1
  BY DEF MarksInv, CaretSeen
<1>2. PlaceFits /\ scroll \in Positive /\ laid.sec = chapter /\ laid.width = width
  BY <1>1 DEF MarksInv, PlaceFits, Drawn
<1>3. Lines = Laid[width][chapter]
  BY <1>2 DEF Lines, LinesOf
<1>4. scroll' = Clamped(RestsAt(scroll), Len(Lines))
  BY <1>3 DEF Draw
<1>5. RestsAt(scroll) = scroll
  BY DEF RestsAt
<1>6. scroll' = scroll
  BY <1>1, <1>2, <1>4, <1>5, LinesAre, Scrolls DEF Positive
<1>7. Caret[1] \in Nat /\ Span \in Nat
  <2>1. Caret \in Nat \X Nat
    BY DEF MarksInv, CaretFits, Caret
  <2> QED BY <2>1, SpanIs DEF Positive
<1> QED BY <1>1, <1>2, <1>6, <1>7 DEF Positive

(* The marks' inductive invariant holds of every behaviour.                   *)
THEOREM MarksInvariance == MarksSpec => []MarksInv
<1>1. MarksInit => MarksInv
  BY MarksStart
<1>2. MarksInv /\ [MarksNext]_marksVars => MarksInv'
  BY MarksStep
<1> QED BY <1>1, <1>2, PTL DEF MarksSpec

(* Whatever chapter the keys, the mouse and the frames lead to, the link      *)
(* cursor is on one of its links and the figures badged are its own; and the  *)
(* frame after a motion of the caret has the caret in view.                   *)
THEOREM PointersAreHere == MarksSpec => PagePointers
<1>1. MarksInv => PointersHere
  BY PointersFit
<1>2. MarksInv' => PointersHere'
  BY <1>1, PTL
<1>3. MarksInv /\ MarksInv' /\ [MarksNext]_marksVars =>
        [/\ PointersHere'
         /\ (Draw /\ moved /\ select # NoSelect) =>
              Caret[1] \in scroll'..(scroll' + Span - 1)]_marksVars
  BY <1>2, DrawSees
<1> QED BY <1>3, MarksInvariance, PTL DEF MarksSpec, PagePointers
=============================================================================
