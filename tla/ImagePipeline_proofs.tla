------------------------- MODULE ImagePipeline_proofs -------------------------
(***************************************************************************)
(* No picture of a reflowed book is forgotten while it is on its way: for  *)
(* any book, any pictures, any capacity and any number of workers, a key   *)
(* the reader has marked as requested is with the pool, or its answer is   *)
(* in the channel.                                                         *)
(*                                                                         *)
(* The property is nearly inductive.  What it needs besides the types is   *)
(* that nobody drops the pool while the loop runs: an answer nobody        *)
(* listens to would be lost.                                               *)
(*                                                                         *)
(* And what the inline deck believes to be on the screen is there: for any *)
(* books and layouts, any batch and any terminal that keeps or freezes a   *)
(* shape.                                                                  *)
(***************************************************************************)
EXTENDS ImagePipeline, InlineDeck, FiniteSetTheorems, DataLemmas

Inv ==
    /\ TypeOK
    /\ open
    /\ RequestedIsComing

USE ImagePipelineAssumption

-----------------------------------------------------------------------------
(* Keys, requests and what the frame asks for.                             *)

\* The pictures of a section at one geometry are keys, and finitely many.
LEMMA KeysAreKeys ==
    ASSUME NEW s \in Sections, NEW g \in Geoms
    PROVE  KeysOf(s, g) \subseteq Keys
BY DEF KeysOf, Keys, Slots

\* A section has finitely many keys.
LEMMA KeysAreFinite ==
    ASSUME NEW s \in Sections, NEW g
    PROVE  IsFiniteSet(KeysOf(s, g)) /\ Cardinality(KeysOf(s, g)) \in Nat
<1> DEFINE f == [i \in Pictures[s] |-> [sec |-> s, idx |-> i, geom |-> g]]
<1>1. IsFiniteSet(Pictures[s])
  OBVIOUS
<1>2. f \in Surjection(Pictures[s], KeysOf(s, g))
  BY DEF Surjection, KeysOf
<1>3. IsFiniteSet(KeysOf(s, g))
  BY <1>1, <1>2, FS_Surjection
<1> QED BY <1>3, FS_CardinalityType

\* An empty cache has the type of a cache.
LEMMA EmptyCache == DOMAIN <<>> = {} /\ <<>> \in [DOMAIN <<>> -> Books]
OBVIOUS

\* The request the frame makes for a key is a request for it, from this book.
LEMMA AskedFor ==
    ASSUME TypeOK, NEW K \in SUBSET Keys, \A k \in K : Copies(k) # {}
    PROVE  /\ Asked(K) \subseteq Requests
           /\ \A k \in K : \E r \in Asked(K) : r.key = k /\ r.book = book
<1> DEFINE First(k) == CHOOSE c \in Copies(k) : \A d \in Copies(k) : c <= d
           Ask(k) == [key |-> k, book |-> book, copy |-> First(k)]
<1>1. ASSUME NEW k \in K PROVE First(k) \in 1 .. MaxCopies
  <2>1. Copies(k) \in SUBSET Nat /\ Copies(k) # {}
    BY DEF Copies
  <2>2. \E c \in Copies(k) : \A d \in Copies(k) : c <= d
    BY <2>1, LeastElement
  <2>3. First(k) \in Copies(k)
    BY <2>2
  <2> QED BY <2>3 DEF Copies
<1>2. Asked(K) = {Ask(k) : k \in K}
  BY DEF Asked
<1>3. book \in Books
  BY DEF TypeOK
<1> HIDE DEF First
<1>4. \A k \in K : Ask(k) \in Requests /\ Ask(k).key = k /\ Ask(k).book = book
  BY <1>1, <1>3 DEF Requests
<1> HIDE DEF Ask
<1> QED BY <1>2, <1>4

-----------------------------------------------------------------------------
(* The workers.                                                            *)

\* What is in the pool stays in the pool until it is collected.
LEMMA ComingKept ==
    ASSUME RequestedIsComing, Pool!Outstanding \subseteq Pool!Outstanding',
           UNCHANGED <<reading, book, requested>>
    PROVE  RequestedIsComing'
BY DEF RequestedIsComing

\* Whether a section is far is a truth value.
LEMMA FarBoolean == ASSUME NEW a \in Nat, NEW b \in Nat PROVE Pool!Far(a, b) \in BOOLEAN
<1>1. CASE a > b
  <2>1. Pool!Far(a, b) = (a - b > KeepRadius)
    BY <1>1 DEF Pool!Far
  <2>2. (a - b > KeepRadius) \in BOOLEAN
    OBVIOUS
  <2> QED BY <2>1, <2>2
<1>2. CASE ~ (a > b)
  <2>1. Pool!Far(a, b) = (b - a > KeepRadius)
    BY <1>2 DEF Pool!Far
  <2>2. (b - a > KeepRadius) \in BOOLEAN
    OBVIOUS
  <2> QED BY <2>1, <2>2
<1> QED BY <1>1, <1>2

\* A request that a worker takes up, and one that is answered, stays in the pool.
LEMMA MovesOn ==
    ASSUME NEW r, NEW j, j.req = r,
           queued' = queued \ {r}, building' = building \cup {j}, answers' = answers
    PROVE  Pool!Outstanding \subseteq Pool!Outstanding'
<1> SUFFICES ASSUME NEW q \in Pool!Outstanding, q \notin Pool!Outstanding' PROVE FALSE
  OBVIOUS
<1>1. q # r
  <2>1. j \in building'
    OBVIOUS
  <2> QED BY <2>1 DEF Pool!Outstanding
<1> QED BY <1>1 DEF Pool!Outstanding

\* An answer delivered takes nothing from what is outstanding.
LEMMA Answered ==
    ASSUME NEW j, NEW a, a.req = j.req,
           building' = building \ {j}, answers' = answers \cup {a}, queued' = queued
    PROVE  Pool!Outstanding \subseteq Pool!Outstanding'
<1> SUFFICES ASSUME NEW q \in Pool!Outstanding, q \notin Pool!Outstanding' PROVE FALSE
  OBVIOUS
<1>1. q # j.req
  <2>1. a \in answers'
    OBVIOUS
  <2> QED BY <2>1 DEF Pool!Outstanding
<1> QED BY <1>1 DEF Pool!Outstanding

\* Nothing is asked for at first.
LEMMA InitInv == Init => Inv
<1> SUFFICES ASSUME Init PROVE Inv
  OBVIOUS
<1> USE DEF Init
<1>1. TypeOK
  <2>1. PICK s \in Sections : Fresh(s)
    OBVIOUS
  <2>2. 0 \in Sections /\ 0 \in Geoms /\ 1 \in Books
    BY DEF Sections, Geoms, Books
  <2>3. Pool!PoolTypeOK /\ open
    BY <2>2 DEF Pool!PoolInit, Pool!PoolTypeOK
  <2>4. DOMAIN cache \subseteq Keys /\ cache \in [DOMAIN cache -> Books]
    BY <2>1, EmptyCache DEF Fresh
  <2> QED BY <2>1, <2>2, <2>3, <2>4 DEF Fresh, TypeOK
<1>2. open
  BY DEF Pool!PoolInit
<1>3. RequestedIsComing
  BY DEF Fresh, RequestedIsComing
<1> QED BY <1>1, <1>2, <1>3 DEF Inv

\* A worker judges a request.
LEMMA JudgeInv == ASSUME Inv, NEW r \in queued, Judge(r) PROVE Inv'
<1> USE DEF Inv, Judge, place, images
<1>1. r \in Requests
  BY DEF TypeOK, Pool!PoolTypeOK
<1>2. TypeOK'
  <2>1. Pool!Far([q \in Requests |-> q.key.sec][r], current) \in BOOLEAN
    <3>1. [q \in Requests |-> q.key.sec][r] \in Nat /\ current \in Nat
      BY <1>1 DEF Requests, Keys, Sections, TypeOK, Pool!PoolTypeOK
    <3> QED BY <3>1, FarBoolean
  <2>2. building' \subseteq Pool!Jobs
    BY <1>1, <2>1 DEF Pool!Judge, Pool!Jobs, TypeOK, Pool!PoolTypeOK
  <2>3. Pool!PoolTypeOK'
    BY <2>2 DEF Pool!Judge, TypeOK, Pool!PoolTypeOK
  <2> QED BY <2>3 DEF TypeOK
<1>3. Pool!Outstanding \subseteq Pool!Outstanding'
  <2> DEFINE j == [req |-> r, stale |-> Pool!Far([q \in Requests |-> q.key.sec][r], current)]
  <2>1. building' = building \cup {j} /\ j.req = r
    BY DEF Pool!Judge
  <2> HIDE DEF j
  <2>2. queued' = queued \ {r} /\ answers' = answers
    BY DEF Pool!Judge
  <2> QED BY <2>1, <2>2, MovesOn
<1>4. RequestedIsComing'
  BY <1>3, ComingKept
<1> QED BY <1>2, <1>4 DEF Pool!Judge

\* A worker delivers a picture.
LEMMA DeliverInv == ASSUME Inv, NEW j \in building, Deliver(j) PROVE Inv'
<1> USE DEF Inv, Deliver, place, images
<1>1. j.req \in Requests
  BY DEF TypeOK, Pool!PoolTypeOK, Pool!Jobs
<1>2. PICK result \in Pool!Outcomes(j) : answers' = answers \cup {[req |-> j.req, result |-> result]}
  BY DEF Pool!Answer
<1>3. TypeOK'
  <2>1. [req |-> j.req, result |-> result] \in Pool!Answers
    BY <1>1, <1>2 DEF Pool!Outcomes, Pool!Answers, Pool!Results
  <2>2. Pool!PoolTypeOK'
    BY <1>2, <2>1 DEF Pool!Answer, TypeOK, Pool!PoolTypeOK
  <2> QED BY <2>2 DEF TypeOK
<1>4. Pool!Outstanding \subseteq Pool!Outstanding'
  <2> DEFINE a == [req |-> j.req, result |-> result]
  <2>1. answers' = answers \cup {a} /\ a.req = j.req
    BY <1>2
  <2>2. building' = building \ {j} /\ queued' = queued
    BY DEF Pool!Answer
  <2> QED BY <2>1, <2>2, Answered
<1>5. RequestedIsComing'
  BY <1>4, ComingKept
<1> QED BY <1>3, <1>5 DEF Pool!Answer

-----------------------------------------------------------------------------
(* Between frames.                                                         *)

\* What only moves the reader, or asks for a frame, leaves the pool and the
\* marks alone.
LEMMA PlaceInv ==
    ASSUME Inv, UNCHANGED <<pool, book, images, pushed, pc>>,
           section' \in Sections, geom' \in Geoms, dirty' \in BOOLEAN, reading' \in BOOLEAN,
           reading' => reading
    PROVE  Inv'
<1> USE DEF Inv, pool, images
<1>1. TypeOK'
  <2>1. Pool!PoolTypeOK'
    BY DEF TypeOK, Pool!PoolTypeOK
  <2> QED BY <2>1 DEF TypeOK
<1>2. RequestedIsComing'
  BY DEF RequestedIsComing, Pool!Outstanding
<1> QED BY <1>1, <1>2

\* The reader's moves, restylings and the book's end.
LEMMA EventInv ==
    ASSUME Inv, \/ \E s \in Sections : Move(s)
                \/ Restyle \/ Touch \/ CloseBook
    PROVE  Inv'
<1>1. /\ UNCHANGED <<pool, book, images, pushed, pc>>
      /\ section' \in Sections /\ dirty' \in BOOLEAN /\ reading' \in BOOLEAN
      /\ reading' => reading
  <2>1. reading \in BOOLEAN /\ dirty \in BOOLEAN /\ section \in Sections
    BY DEF Inv, TypeOK
  <2>2. CASE \E s \in Sections : Move(s)
    BY <2>1, <2>2 DEF Move
  <2>3. CASE Restyle
    BY <2>1, <2>3 DEF Restyle
  <2>4. CASE Touch
    BY <2>1, <2>4 DEF Touch, place
  <2>5. CASE CloseBook
    BY <2>1, <2>5 DEF CloseBook
  <2> QED BY <2>2, <2>3, <2>4, <2>5
<1>2. geom' \in Geoms
  BY DEF Inv, TypeOK, Move, Restyle, Touch, CloseBook, place, Geoms
<1> QED BY <1>1, <1>2, PlaceInv

\* What the page wants, staged anew.
LEMMA RestageInv == ASSUME Inv, Restage PROVE Inv'
<1> USE DEF Inv, Restage, pool, place
<1>1. TypeOK'
  <2>1. Pool!PoolTypeOK'
    BY DEF TypeOK, Pool!PoolTypeOK
  <2>2. DOMAIN cache' \subseteq Keys /\ cache' \in [DOMAIN cache' -> Books]
    BY DEF TypeOK
  <2> QED BY <2>1, <2>2 DEF TypeOK
<1>2. RequestedIsComing'
  BY DEF RequestedIsComing, Pool!Outstanding
<1> QED BY <1>1, <1>2

\* A new reader has asked for nothing.
LEMMA OpenBookInv == ASSUME Inv, OpenBook PROVE Inv'
<1> USE DEF Inv, OpenBook, pool
<1>1. TypeOK'
  <2>1. Pool!PoolTypeOK'
    BY DEF TypeOK, Pool!PoolTypeOK
  <2>2. DOMAIN cache' \subseteq Keys /\ cache' \in [DOMAIN cache' -> Books]
    BY EmptyCache
  <2>3. book' \in Books
    BY DEF TypeOK, Books
  <2> QED BY <2>1, <2>2, <2>3 DEF TypeOK
<1>2. RequestedIsComing'
  BY DEF RequestedIsComing
<1> QED BY <1>1, <1>2

-----------------------------------------------------------------------------
(* A frame.                                                                *)

\* A frame begun.
LEMMA BeginFrameInv == ASSUME Inv, BeginFrame PROVE Inv'
<1> USE DEF Inv, BeginFrame, place, images
<1>1. TypeOK'
  <2>1. Pool!PoolTypeOK'
    BY DEF TypeOK, Pool!PoolTypeOK, Pool!Steer
  <2> QED BY <2>1 DEF TypeOK
<1>2. RequestedIsComing'
  BY DEF RequestedIsComing, Pool!Outstanding, Pool!Steer
<1>3. open'
  BY DEF Pool!Steer
<1> QED BY <1>1, <1>2, <1>3

\* Collecting an answer takes back the mark of its key, whichever book the
\* picture is from; every other mark keeps what it is waiting for.
LEMMA DrainInv == ASSUME Inv, NEW a \in answers, Drain(a) PROVE Inv'
<1> USE DEF Inv, Drain, place
<1>1. a.req \in Requests /\ a.req.key \in Keys /\ a.req.book \in Books
  BY DEF TypeOK, Pool!PoolTypeOK, Pool!Answers, Requests
<1>2. TypeOK'
  <2>1. Pool!PoolTypeOK'
    BY DEF TypeOK, Pool!PoolTypeOK
  <2>2. DOMAIN cache' \subseteq Keys /\ cache' \in [DOMAIN cache' -> Books]
    <3>1. CASE UNCHANGED <<cache, pushed>>
      BY <3>1 DEF TypeOK
    <3>2. CASE Push(a.req.key, a.req.book)
      <4>1. PICK V : cache' = [j \in (DOMAIN cache \ V) \cup {a.req.key} |->
                                 IF j = a.req.key THEN a.req.book ELSE cache[j]]
        BY <3>2 DEF Push
      <4> QED BY <1>1, <4>1 DEF TypeOK
    <3> QED BY <3>1, <3>2
  <2>3. pushed' \subseteq Keys /\ failed' \subseteq Keys /\ requested' \subseteq Keys
    BY <1>1 DEF TypeOK
  <2> QED BY <2>1, <2>2, <2>3 DEF TypeOK
<1>3. RequestedIsComing'
  <2> SUFFICES ASSUME reading', NEW k \in requested'
               PROVE  \E r \in Pool!Outstanding' : r.key = k /\ r.book = book'
    BY DEF RequestedIsComing
  <2>1. PICK r \in Pool!Outstanding : r.key = k /\ r.book = book
    BY DEF RequestedIsComing
  <2>2. r # a.req
    BY <2>1
  <2>3. r \in Pool!Outstanding'
    BY <2>2 DEF Pool!Outstanding
  <2> QED BY <2>1, <2>3
<1> QED BY <1>2, <1>3

\* What the end of a frame asks for is marked, and is with the pool.
LEMMA EndFrameInv == ASSUME Inv, EndFrame PROVE Inv'
<1> USE DEF Inv, EndFrame
<1>1. section \in Sections /\ geom \in Geoms /\ Here \subseteq Keys
  BY KeysAreKeys DEF TypeOK, Here
<1>2. PICK own, K, sections :
        /\ own \subseteq Here /\ \A k \in own \cup K : Copies(k) # {}
        /\ sections \subseteq Sections
        /\ K \subseteq UNION {Figures(s, geom) : s \in sections}
        /\ requested' = requested \cup own \cup K
        /\ queued' = queued \cup Asked(own \cup K)
  <2> DEFINE own == IF forced \/ mapped # [sec |-> section, geom |-> geom] THEN Missing ELSE {}
             r == requested \cup own
             room == IF forced \/ mapped # [sec |-> section, geom |-> geom]
                     THEN Larger(cap, Cardinality(Here) + Spare) ELSE cap
             pending == \E k \in Here : k \notin DOMAIN cache /\ k \notin failed'
  <2>1. PICK loaded \in SUBSET Sections : \E around \in Around(pending) :
          \E K \in Prefetches((around \cap loaded) \ {section}, r, room) :
          /\ \A k \in own \cup K : Copies(k) # {}
          /\ requested' = r \cup K
          /\ queued' = queued \cup Asked(own \cup K)
    BY DEF Sections
  <2>2. PICK around \in Around(pending) :
          \E K \in Prefetches((around \cap loaded) \ {section}, r, room) :
          /\ \A k \in own \cup K : Copies(k) # {}
          /\ requested' = r \cup K
          /\ queued' = queued \cup Asked(own \cup K)
    BY <2>1
  <2>3. PICK K \in Prefetches((around \cap loaded) \ {section}, r, room) :
          /\ \A k \in own \cup K : Copies(k) # {}
          /\ requested' = r \cup K
          /\ queued' = queued \cup Asked(own \cup K)
    BY <2>2
  <2>4. own \subseteq Here
    BY DEF Missing
  <2>5. K \subseteq UNION {Figures(s, geom) : s \in (around \cap loaded) \ {section}}
    BY DEF Prefetches
  <2>6. (around \cap loaded) \ {section} \subseteq Sections
    OBVIOUS
  <2> HIDE DEF own, room
  <2> QED BY <2>3, <2>4, <2>5, <2>6
<1>3. own \cup K \in SUBSET Keys
  <2>1. \A s \in Sections : Figures(s, geom) \subseteq Keys
    BY <1>1, KeysAreKeys DEF Figures
  <2> QED BY <1>1, <1>2, <2>1
<1>4. /\ Asked(own \cup K) \subseteq Requests
      /\ \A k \in own \cup K : \E r \in Asked(own \cup K) : r.key = k /\ r.book = book
  BY <1>2, <1>3, AskedFor
<1>5. UNCHANGED <<building, answers, current, open, book, reading, section, geom, cache, pushed>>
  BY DEF place
<1>6. TypeOK'
  <2>1. Pool!PoolTypeOK'
    BY <1>2, <1>4, <1>5 DEF TypeOK, Pool!PoolTypeOK
  <2>2. cap' \in Nat \ {0}
    <3>1. Cardinality(Here) \in Nat
      BY <1>1, KeysAreFinite DEF Here
    <3> QED BY <3>1 DEF TypeOK, Larger
  <2>3. mapped' \in [sec : Sections, geom : Geoms] \cup {Unmapped}
    BY <1>1
  <2>4. failed' \subseteq Keys /\ requested' \subseteq Keys
    BY <1>2, <1>3 DEF TypeOK
  <2>5. pc' = "idle" /\ forced' = FALSE /\ dirty' = FALSE
    OBVIOUS
  <2> QED BY <1>5, <2>1, <2>2, <2>3, <2>4, <2>5 DEF TypeOK
<1>7. RequestedIsComing'
  <2> SUFFICES ASSUME reading', NEW k \in requested'
               PROVE  \E r \in Pool!Outstanding' : r.key = k /\ r.book = book'
    BY DEF RequestedIsComing
  <2>1. CASE k \in requested
    <3>1. PICK r \in Pool!Outstanding : r.key = k /\ r.book = book
      BY <1>5, <2>1 DEF RequestedIsComing
    <3>2. r \in Pool!Outstanding'
      BY <1>2, <1>5 DEF Pool!Outstanding
    <3> QED BY <1>5, <3>1, <3>2
  <2>2. CASE k \in own \cup K
    <3>1. PICK r \in Asked(own \cup K) : r.key = k /\ r.book = book
      BY <1>4, <2>2
    <3>2. r \in Pool!Outstanding'
      BY <1>2 DEF Pool!Outstanding
    <3> QED BY <1>5, <3>1, <3>2
  <2> QED BY <1>2, <2>1, <2>2
<1> QED BY <1>5, <1>6, <1>7

-----------------------------------------------------------------------------
(* The theorems.                                                           *)

\* Every step keeps the invariant.
LEMMA NextInv == ASSUME Inv, [Next]_vars PROVE Inv'
<1>1. CASE Workers
  BY <1>1, JudgeInv, DeliverInv DEF Workers, WorkersOn
<1>2. CASE Frame
  BY <1>2, BeginFrameInv, DrainInv, EndFrameInv DEF Frame
<1>3. CASE Events
  BY <1>3, EventInv, RestageInv, OpenBookInv DEF Events
<1>4. CASE UNCHANGED vars
  <2>1. UNCHANGED <<pool, book, images, pushed, pc, section, geom, dirty, reading>>
    BY <1>4 DEF vars, place
  <2>2. /\ section' \in Sections /\ geom' \in Geoms /\ dirty' \in BOOLEAN /\ reading' \in BOOLEAN
        /\ reading' => reading
    BY <2>1 DEF Inv, TypeOK
  <2> QED BY <2>1, <2>2, PlaceInv
<1> QED BY <1>1, <1>2, <1>3, <1>4 DEF Next

\* The inductive invariant of the picture pipeline.
THEOREM PipelineInvariance == Spec => []Inv
<1>1. Inv /\ [Next]_vars => Inv'
  BY NextInv
<1> QED BY InitInv, <1>1, PTL DEF Spec

\* Whatever is moved, restyled, restaged, closed or opened while workers
\* judge and answer in any order, a key of the open book that is marked as
\* requested (ImageState.requested, reader/images.rs) is with the pool or its
\* answer is in the channel: no picture waits for an answer that never comes.
THEOREM NoPictureForgotten == Spec => []RequestedIsComing
<1>1. Inv => RequestedIsComing
  BY DEF Inv
<1> QED BY PipelineInvariance, <1>1, PTL

\* Types of the pool, the reader's place and its pictures.
THEOREM PipelineTypes == Spec => []TypeOK
<1>1. Inv => TypeOK
  BY DEF Inv
<1> QED BY PipelineInvariance, <1>1, PTL

-----------------------------------------------------------------------------
(* The deck of the pictures inside the text.                                 *)

(* A picture that stays is at the places the page has it.                    *)
LEMMA PlacesStay ==
    ASSUME NEW ts, ts \in Seq(Range(ts)), NEW On, NEW k \in On
    PROVE  PlacesOf(Retained(ts, {t \in Range(ts) : t.key \in On}), k) = PlacesOf(ts, k)
<1> DEFINE A == {t \in Range(ts) : t.key \in On}
           B == {t \in Range(ts) : t.key = k}
           q == Retained(ts, A)
<1>1. Range(q) = A
  <2>1. Range(q) = Range(ts) \cap A
    BY RetainedIs
  <2> QED BY <2>1
<1> HIDE DEF q
<1>2. {t \in Range(q) : t.key = k} = B
  BY <1>1
<1>3. PlacesOf(q, k) = Retained(q, B)
  BY <1>2 DEF PlacesOf
<1>4. PlacesOf(ts, k) = Retained(ts, B)
  BY DEF PlacesOf
<1>5. B \subseteq A
  OBVIOUS
<1>6. Retained(Retained(ts, A), B) = Retained(ts, B)
  BY <1>5, RetainedTwice
<1> QED BY <1>3, <1>4, <1>6 DEF q

(* A key of the targets has a first one.                                     *)
LEMMA FirstOnes ==
    ASSUME NEW ts, ts \in Seq(Range(ts)), NEW k \in KeysIn(ts)
    PROVE  FirstAt(ts, k) \in DOMAIN ts /\ ts[FirstAt(ts, k)].key = k
<1> DEFINE S == {i \in DOMAIN ts : ts[i].key = k}
<1>1. DOMAIN ts = 1 .. Len(ts) /\ Len(ts) \in Nat
  OBVIOUS
<1>2. S \in SUBSET Nat /\ S # {}
  BY <1>1 DEF KeysIn
<1>3. PICK i \in S : \A j \in S : i <= j
  BY <1>2, LeastElement
<1>4. \A j \in 1 .. i - 1 : ts[j].key # k
  <2>1. ASSUME NEW j \in 1 .. i - 1, ts[j].key = k PROVE FALSE
    <3>1. i \in Int /\ j \in 1 .. Len(ts) /\ j < i
      BY <1>1, <1>3
    <3>2. j \in S
      BY <1>1, <2>1, <3>1
    <3> QED BY <1>3, <3>1, <3>2
  <2> QED BY <2>1
<1>5. i \in DOMAIN ts /\ ts[i].key = k
  BY <1>3
<1> HIDE DEF S
<1>6. \E m \in DOMAIN ts : ts[m].key = k /\ \A j \in 1 .. m - 1 : ts[j].key # k
  BY <1>4, <1>5
<1> QED BY <1>6 DEF FirstAt

(* What a frame sends is finite, and numbered from zero without repetition.  *)
LEMMA SentNumbers ==
    ASSUME NEW d, NEW ts, ts \in Seq(Range(ts)), NEW png, MaxUploads \in Nat
    PROVE  LET S == Sent(d, ts, png)
               no(k) == SentBefore(d, ts, png, FirstAt(ts, k))
           IN  /\ IsFiniteSet(S) /\ Cardinality(S) \in Nat
               /\ \A k \in S : no(k) \in Nat /\ no(k) < Cardinality(S)
               /\ \A k, l \in S : no(k) = no(l) => k = l
<1> DEFINE M == Sendable(d, ts, png)
           S == Sent(d, ts, png)
           first(k) == FirstAt(ts, k)
           before(i) == {k \in M : first(k) < i}
           no(k) == SentBefore(d, ts, png, first(k))
<1>1. DOMAIN ts = 1 .. Len(ts) /\ Len(ts) \in Nat
  OBVIOUS
<1>2. M \subseteq KeysIn(ts) /\ S \subseteq M /\ \A k \in M : k \in S <=> no(k) < MaxUploads
  BY DEF Sendable, Sent
<1>3. \A i : SentBefore(d, ts, png, i) = Cardinality(before(i))
  BY DEF SentBefore
<1>4. \A k \in M : first(k) \in 1 .. Len(ts) /\ ts[first(k)].key = k
  BY <1>1, <1>2, FirstOnes
<1> HIDE DEF M, S, first
<1>5. \A k, l \in M : first(k) = first(l) => k = l
  BY <1>4
<1>6. IsFiniteSet(M)
  <2> DEFINE f == [k \in M |-> first(k)]
  <2>1. f \in Injection(M, 1 .. Len(ts))
    <3>1. f \in [M -> 1 .. Len(ts)] /\ \A k \in M : f[k] = first(k)
      BY <1>4
    <3> QED BY <1>5, <3>1 DEF Injection, IsInjective
  <2>2. IsFiniteSet(1 .. Len(ts))
    BY <1>1, FS_Interval
  <2> QED BY <2>1, <2>2, FS_Injection
<1>7. IsFiniteSet(S) /\ Cardinality(S) \in Nat
  BY <1>2, <1>6, FS_Subset, FS_CardinalityType
<1>8. \A i : IsFiniteSet(before(i)) /\ Cardinality(before(i)) \in Nat
  BY <1>6, FS_Subset, FS_CardinalityType
<1>9. ASSUME NEW k \in M, NEW l \in M, first(k) < first(l) PROVE no(k) < no(l)
  <2>1. before(first(k)) \in SUBSET before(first(l))
    BY <1>4, <1>9
  <2>2. k \in before(first(l)) /\ k \notin before(first(k))
    BY <1>4, <1>9
  <2>3. Cardinality(before(first(k))) <= Cardinality(before(first(l)))
        /\ Cardinality(before(first(k))) # Cardinality(before(first(l)))
    BY <1>8, <2>1, <2>2, FS_Subset
  <2>4. no(k) = Cardinality(before(first(k))) /\ no(l) = Cardinality(before(first(l)))
    BY <1>3
  <2>5. Cardinality(before(first(k))) \in Nat /\ Cardinality(before(first(l))) \in Nat
    BY <1>8
  <2> HIDE DEF before, no
  <2> QED BY <2>3, <2>4, <2>5
<1> HIDE DEF before
<1>10. \A k \in M : no(k) \in Nat
  BY <1>3, <1>8
<1> HIDE DEF no
<1>11. \A k, l \in S : no(k) = no(l) => k = l
  <2> SUFFICES ASSUME NEW k \in S, NEW l \in S, no(k) = no(l), k # l PROVE FALSE
    OBVIOUS
  <2>1. k \in M /\ l \in M /\ first(k) # first(l) /\ first(k) \in Int /\ first(l) \in Int
    BY <1>1, <1>2, <1>4, <1>5
  <2>2. first(k) < first(l) \/ first(l) < first(k)
    BY <2>1
  <2> QED BY <1>9, <1>10, <2>1, <2>2
<1>12. ASSUME NEW k \in S PROVE no(k) < Cardinality(S)
  <2> DEFINE b == before(first(k))
  <2>1. k \in M /\ no(k) = Cardinality(b) /\ no(k) \in Nat /\ no(k) < MaxUploads
    BY <1>2, <1>3, <1>10 DEF no
  <2>2. b \in SUBSET S
    <3>1. ASSUME NEW l \in b PROVE l \in S
      <4>1. l \in M /\ first(l) < first(k)
        BY <3>1 DEF before
      <4>2. no(l) < no(k) /\ no(l) \in Nat
        BY <1>9, <1>10, <2>1, <4>1
      <4> QED BY <1>2, <2>1, <4>1, <4>2
    <3> QED BY <3>1
  <2>3. k \notin b
    BY <1>4, <2>1 DEF before
  <2>4. Cardinality(b) <= Cardinality(S) /\ Cardinality(b) # Cardinality(S)
    BY <1>7, <2>2, <2>3, FS_Subset
  <2> QED BY <1>7, <2>1, <2>4
<1> QED BY <1>2, <1>7, <1>10, <1>11, <1>12 DEF S, no, first

-----------------------------------------------------------------------------
(* The inductive invariant, of a deck and a terminal: records of the right   *)
(* shape, ids below the next one, a terminal that freezes known for it, and  *)
(* the two in agreement.                                                     *)
IsDeck(d) == d \in [shown : {d.shown}, resident : {d.resident}, next : {d.next},
                    deferred : {d.deferred}, moves : {d.moves}]
IsTerminal(s) == s \in [data : {s.data}, placed : {s.placed}, freezes : {s.freezes}]
InlineShapes(d, s) ==
    /\ IsDeck(d) /\ IsTerminal(s)
    /\ d.shown \in Seq(Range(d.shown))
    /\ d.next \in Nat
    /\ d.resident \in [DOMAIN d.resident -> 0 .. d.next - 1]
    /\ s.freezes => d.moves
InlineAgrees(d, s) ==
    /\ DOMAIN s.data = Range(d.resident) /\ IsInjective(d.resident)
    /\ \A k \in DOMAIN d.resident : s.data[d.resident[k]] = k
    /\ KeysIn(d.shown) \subseteq DOMAIN d.resident
    /\ DOMAIN s.placed = PlacesIn(d)
    /\ \A x \in PlacesIn(d) : s.placed[x] = AsPlacedAt(TargetAt(d, x))
InlineState(d, s) == InlineShapes(d, s) /\ InlineAgrees(d, s)

(* A terminal without some of its images.                                    *)
LEMMA WithoutIs ==
    ASSUME NEW s, IsTerminal(s), NEW ids
    PROVE  LET u == Without(s, ids)
               left == {y \in DOMAIN s.placed : y[1] \notin ids}
           IN  /\ u.data = [i \in DOMAIN s.data \ ids |-> s.data[i]]
               /\ u.placed = [x \in left |-> s.placed[x]]
               /\ u.freezes = s.freezes
               /\ IsTerminal(u)
<1> DEFINE X == [i \in DOMAIN s.data \ ids |-> s.data[i]]
           Y == [x \in {y \in DOMAIN s.placed : y[1] \notin ids} |-> s.placed[x]]
           u == Without(s, ids)
<1>1. u = [s EXCEPT !.data = X, !.placed = Y]
  BY DEF Without
<1> HIDE DEF X, Y, u
<1>2. u.data = X /\ u.placed = Y /\ u.freezes = s.freezes /\ IsTerminal(u)
  BY <1>1 DEF IsTerminal
<1> QED BY <1>2 DEF X, Y, u

(* A full redraw wipes the places and forgets them.                          *)
LEMMA RestageAgrees ==
    ASSUME NEW d, NEW s, InlineState(d, s)
    PROVE  InlineState(RestagedInline(d), Wiped(s))
<1> DEFINE e == RestagedInline(d)
           u == Wiped(s)
<1>1. /\ e.shown = <<>> /\ e.resident = d.resident /\ e.next = d.next /\ e.moves = d.moves
      /\ IsDeck(e)
  BY DEF InlineState, InlineShapes, IsDeck, RestagedInline
<1>2. u.data = s.data /\ u.placed = NoPlaces /\ u.freezes = s.freezes /\ IsTerminal(u)
  BY DEF InlineState, InlineShapes, IsTerminal, Wiped
<1> HIDE DEF e, u
<1>3. KeysIn(e.shown) = {}
  BY <1>1 DEF KeysIn
<1>4. PlacesIn(e) = {}
  BY <1>3 DEF PlacesIn
<1>5. DOMAIN u.placed = {}
  BY <1>2 DEF NoPlaces
<1>6. e.shown \in Seq(Range(e.shown))
  BY <1>1
<1>7. InlineShapes(e, u)
  BY <1>1, <1>2, <1>6 DEF InlineState, InlineShapes
<1>8. InlineAgrees(e, u)
  BY <1>1, <1>2, <1>3, <1>4, <1>5 DEF InlineState, InlineAgrees
<1> QED BY <1>7, <1>8 DEF InlineState, e, u

(* Clearing frees every image, and with it every place.                      *)
LEMMA ClearAgrees ==
    ASSUME NEW d, NEW s, InlineState(d, s)
    PROVE  InlineState(ClearedInline(d), Without(s, Range(d.resident)))
<1> DEFINE e == ClearedInline(d)
           u == Without(s, Range(d.resident))
           left == {y \in DOMAIN s.placed : y[1] \notin Range(d.resident)}
<1>1. /\ e.shown = <<>> /\ e.resident = NoPlaces /\ e.next = d.next /\ e.moves = d.moves
      /\ IsDeck(e)
  BY DEF InlineState, InlineShapes, IsDeck, ClearedInline
<1>2. /\ u.data = [i \in DOMAIN s.data \ Range(d.resident) |-> s.data[i]]
      /\ u.placed = [x \in left |-> s.placed[x]]
      /\ u.freezes = s.freezes
      /\ IsTerminal(u)
  BY WithoutIs DEF InlineState, InlineShapes
<1>3. left = {}
  <2>1. ASSUME NEW y \in DOMAIN s.placed PROVE y[1] \in Range(d.resident)
    <3>1. PICK k \in KeysIn(d.shown) : \E n \in DOMAIN PlacesOf(d.shown, k) : y = <<d.resident[k], n>>
      BY DEF InlineState, InlineAgrees, PlacesIn
    <3>2. y[1] = d.resident[k] /\ k \in DOMAIN d.resident
      BY <3>1 DEF InlineState, InlineAgrees
    <3> QED BY <3>2 DEF Range
  <2> QED BY <2>1
<1> HIDE DEF e, u, left
<1>4. KeysIn(e.shown) = {}
  BY <1>1 DEF KeysIn
<1>5. PlacesIn(e) = {}
  BY <1>4 DEF PlacesIn
<1>6. DOMAIN u.placed = {} /\ DOMAIN u.data = {}
  BY <1>2, <1>3 DEF InlineState, InlineAgrees
<1>7. DOMAIN e.resident = {} /\ Range(e.resident) = {}
  BY <1>1 DEF NoPlaces, Range
<1>8. InlineShapes(e, u)
  <2>1. e.shown \in Seq(Range(e.shown))
    BY <1>1
  <2>2. e.resident \in [DOMAIN e.resident -> 0 .. e.next - 1]
    BY <1>1, <1>7 DEF NoPlaces
  <2> QED BY <1>1, <1>2, <2>1, <2>2 DEF InlineState, InlineShapes
<1>9. InlineAgrees(e, u)
  BY <1>4, <1>5, <1>6, <1>7 DEF InlineAgrees, IsInjective
<1> QED BY <1>8, <1>9 DEF InlineState, e, u

(* What is of an injective deck is found again by its id.                    *)
LEMMA KeyFound ==
    ASSUME NEW d, IsInjective(d.resident), NEW k \in DOMAIN d.resident
    PROVE  KeyUnder(d, d.resident[k]) = k
BY DEF KeyUnder, IsInjective

(* What of the deck a render that sends nothing changes.                     *)
LEMMA UnchangedAgrees ==
    ASSUME NEW d, NEW s, InlineState(d, s)
    PROVE  InlineState([d EXCEPT !.deferred = FALSE], s)
<1> DEFINE e == [d EXCEPT !.deferred = FALSE]
<1>1. /\ e.shown = d.shown /\ e.resident = d.resident /\ e.next = d.next /\ e.moves = d.moves
      /\ IsDeck(e)
  BY DEF InlineState, InlineShapes, IsDeck
<1> HIDE DEF e
<1>2. PlacesIn(e) = PlacesIn(d)
  BY <1>1 DEF PlacesIn
<1>3. \A x : TargetAt(e, x) = TargetAt(d, x)
  BY <1>1 DEF TargetAt, KeyUnder
<1>4. InlineShapes(e, s)
  BY <1>1 DEF InlineState, InlineShapes
<1>5. InlineAgrees(e, s)
  BY <1>1, <1>2, <1>3 DEF InlineState, InlineAgrees
<1> QED BY <1>4, <1>5 DEF InlineState, e

(* The ids after a render: what was still good keeps its own, what is sent   *)
(* gets new ones, and no two have the same.                                  *)
LEMMA RenderedIds ==
    ASSUME NEW d, NEW s, InlineState(d, s), NEW ts, ts \in Seq(Range(ts)), d.shown # ts, NEW png,
           MaxUploads \in Nat
    PROVE  LET e == RenderedInline(d, ts, png)
               G == StillGood(d, ts)
               S == Sent(d, ts, png)
           IN  /\ IsDeck(e) /\ e.moves = d.moves /\ e.next \in Nat
               /\ e.shown = Retained(ts, {t \in Range(ts) : t.key \in Onscreen(d, ts, png)})
               /\ e.resident \in [G \cup S -> 0 .. e.next - 1]
               /\ IsInjective(e.resident)
               /\ \A k \in G : e.resident[k] = d.resident[k]
               /\ \A k \in S : e.resident[k] >= d.next
               /\ G \subseteq DOMAIN d.resident \cap KeysIn(ts) /\ S \subseteq KeysIn(ts)
               /\ G \cap S = {}
<1> DEFINE e == RenderedInline(d, ts, png)
           G == StillGood(d, ts)
           S == Sent(d, ts, png)
           On == Onscreen(d, ts, png)
           no(k) == SentBefore(d, ts, png, FirstAt(ts, k))
           X == Retained(ts, {t \in Range(ts) : t.key \in On})
           Y == [k \in On |-> IF k \in G THEN d.resident[k] ELSE d.next + no(k)]
           N == d.next + Cardinality(S)
           D == Deferred(d, ts, png)
<1>1. e = [d EXCEPT !.shown = X, !.resident = Y, !.next = N, !.deferred = D]
  BY DEF RenderedInline
<1>2. /\ G \subseteq DOMAIN d.resident \cap KeysIn(ts) /\ S \subseteq KeysIn(ts)
      /\ G \cap S = {} /\ On = G \cup S
  BY DEF StillGood, Sent, Sendable, Onscreen
<1>3. /\ Cardinality(S) \in Nat
      /\ \A k \in S : no(k) \in Nat /\ no(k) < Cardinality(S)
      /\ \A k, l \in S : no(k) = no(l) => k = l
  BY SentNumbers
<1>4. d.next \in Nat /\ IsInjective(d.resident) /\ \A k \in DOMAIN d.resident : d.resident[k] \in 0 .. d.next - 1
  BY DEF InlineState, InlineShapes, InlineAgrees
<1> HIDE DEF G, S, On, no, X, D
<1>5. \A k \in G : Y[k] = d.resident[k] /\ Y[k] \in 0 .. d.next - 1
  BY <1>2, <1>4
<1>6. \A k \in S : Y[k] = d.next + no(k)
  BY <1>2
<1>7. DOMAIN Y = G \cup S /\ Y \in [On -> {Y[k] : k \in On}]
  BY <1>2
<1> HIDE DEF Y
<1>8. N \in Nat /\ N >= d.next
  BY <1>3, <1>4
<1>9. \A k \in S : Y[k] \in d.next .. N - 1
  <2>1. ASSUME NEW k \in S PROVE Y[k] \in d.next .. N - 1
    <3>1. no(k) \in Nat /\ no(k) < Cardinality(S) /\ Y[k] = d.next + no(k)
      BY <1>3, <1>6
    <3> QED BY <1>3, <1>4, <3>1
  <2> QED BY <2>1
<1> HIDE DEF N
<1>10. Y \in [G \cup S -> 0 .. N - 1]
  <2>1. ASSUME NEW k \in G \cup S PROVE Y[k] \in 0 .. N - 1
    <3>1. CASE k \in G
      <4>1. Y[k] \in 0 .. d.next - 1
        BY <1>5, <3>1
      <4> QED BY <1>4, <1>8, <4>1
    <3>2. CASE k \in S
      <4>1. Y[k] \in d.next .. N - 1
        BY <1>9, <3>2
      <4> QED BY <1>4, <1>8, <4>1
    <3> QED BY <3>1, <3>2
  <2> QED BY <1>2, <1>7, <2>1
<1>11. ASSUME NEW k \in G \cup S, NEW l \in G \cup S, Y[k] = Y[l] PROVE k = l
  <2>1. CASE k \in G /\ l \in G
    BY <1>2, <1>4, <1>5, <1>11, <2>1 DEF IsInjective
  <2>2. CASE k \in S /\ l \in S
    <3>1. d.next + no(k) = d.next + no(l) /\ no(k) \in Nat /\ no(l) \in Nat
      BY <1>3, <1>6, <1>11, <2>2
    <3>2. no(k) = no(l)
      BY <1>4, <3>1
    <3> QED BY <1>3, <2>2, <3>2
  <2>3. CASE k \in G /\ l \in S
    <3>1. Y[k] \in 0 .. d.next - 1 /\ Y[l] \in d.next .. N - 1
      BY <1>5, <1>9, <2>3
    <3> QED BY <1>4, <1>8, <1>11, <3>1
  <2>4. CASE k \in S /\ l \in G
    <3>1. Y[l] \in 0 .. d.next - 1 /\ Y[k] \in d.next .. N - 1
      BY <1>5, <1>9, <2>4
    <3> QED BY <1>4, <1>8, <1>11, <3>1
  <2> QED BY <2>1, <2>2, <2>3, <2>4
<1>12. IsInjective(Y)
  BY <1>7, <1>11 DEF IsInjective
<1>13. /\ e.shown = X /\ e.resident = Y /\ e.next = N /\ e.moves = d.moves /\ IsDeck(e)
  <2> HIDE DEF e
  <2> QED BY <1>1 DEF InlineState, InlineShapes, IsDeck
<1> HIDE DEF e
<1>14. \A k \in S : e.resident[k] >= d.next
  BY <1>4, <1>8, <1>9, <1>13
<1>15. e.shown = Retained(ts, {t \in Range(ts) : t.key \in On})
  BY <1>13 DEF X
<1> QED BY <1>2, <1>5, <1>8, <1>10, <1>12, <1>13, <1>14, <1>15 DEF e, G, S, On

(* A render brings the terminal to what it shows: nothing is left of what    *)
(* it frees, and what it places again is where and as it says.               *)
LEMMA RenderAgrees ==
    ASSUME NEW d, NEW s, InlineState(d, s), NEW ts, ts \in Seq(Range(ts)), NEW png,
           MaxUploads \in Nat
    PROVE  InlineState(RenderedInline(d, ts, png), RenderedScreen(d, s, ts, png))
<1>1. CASE d.shown = ts
  BY <1>1, UnchangedAgrees DEF RenderedInline, RenderedScreen
<1>2. CASE d.shown # ts
  <2> DEFINE e == RenderedInline(d, ts, png)
             u == RenderedScreen(d, s, ts, png)
             G == StillGood(d, ts)
             S == Sent(d, ts, png)
             gone == {d.resident[k] : k \in DOMAIN d.resident \ G}
             left == Without(s, gone)
             new == {e.resident[k] : k \in S}
             X == [i \in DOMAIN left.data \cup new |->
                     IF i \in new THEN KeyUnder(e, i) ELSE left.data[i]]
             Y == [x \in DOMAIN left.placed \cup PlacesIn(e) |->
                     IF x \in PlacesIn(e) THEN Redrawn(left, x, TargetAt(e, x)) ELSE left.placed[x]]
  <2>1. u = [s EXCEPT !.data = X, !.placed = Y]
    BY <1>2 DEF RenderedScreen
  <2>2. /\ IsDeck(e) /\ e.moves = d.moves /\ e.next \in Nat
        /\ e.shown = Retained(ts, {t \in Range(ts) : t.key \in G \cup S})
        /\ e.resident \in [G \cup S -> 0 .. e.next - 1]
        /\ IsInjective(e.resident)
        /\ \A k \in G : e.resident[k] = d.resident[k]
        /\ \A k \in S : e.resident[k] >= d.next
        /\ G \subseteq DOMAIN d.resident \cap KeysIn(ts) /\ S \subseteq KeysIn(ts)
        /\ G \cap S = {}
    BY <1>2, RenderedIds DEF Onscreen
  <2>3. /\ left.data = [i \in DOMAIN s.data \ gone |-> s.data[i]]
        /\ left.placed = [x \in {y \in DOMAIN s.placed : y[1] \notin gone} |-> s.placed[x]]
        /\ left.freezes = s.freezes
    <3>1. IsTerminal(s)
      BY DEF InlineState, InlineShapes
    <3> HIDE DEF gone
    <3> QED BY <3>1, WithoutIs
  <2>4. \A k \in G : k \in KeysIn(ts) /\ (d.moves => ShapesOf(ts, k) = ShapesOf(d.shown, k))
                     /\ (~ d.moves => Len(ShapesOf(ts, k)) >= Len(ShapesOf(d.shown, k)))
    BY DEF StillGood
  <2>5. /\ DOMAIN s.data = Range(d.resident) /\ IsInjective(d.resident)
        /\ \A k \in DOMAIN d.resident : s.data[d.resident[k]] = k
        /\ KeysIn(d.shown) \subseteq DOMAIN d.resident
        /\ DOMAIN s.placed = PlacesIn(d)
        /\ \A x \in PlacesIn(d) : s.placed[x] = AsPlacedAt(TargetAt(d, x))
        /\ \A k \in DOMAIN d.resident : d.resident[k] \in Nat /\ d.resident[k] < d.next
        /\ d.next \in Nat /\ IsTerminal(s) /\ d.shown \in Seq(Range(d.shown)) /\ (s.freezes => d.moves)
    BY DEF InlineState, InlineShapes, InlineAgrees
  <2> HIDE DEF e, G, S, left
  <2>6. DOMAIN left.data \cup new = Range(e.resident)
    <3>1. DOMAIN left.data = {d.resident[k] : k \in G}
      <4>1. ASSUME NEW k \in DOMAIN d.resident PROVE d.resident[k] \in gone <=> k \notin G
        BY <2>2, <2>5 DEF IsInjective
      <4>2. DOMAIN left.data = Range(d.resident) \ gone
        BY <2>3, <2>5
      <4>3. DOMAIN left.data \subseteq {d.resident[k] : k \in G}
        BY <4>1, <4>2 DEF Range
      <4>4. {d.resident[k] : k \in G} \subseteq DOMAIN left.data
        BY <2>2, <4>1, <4>2 DEF Range
      <4> QED BY <4>3, <4>4
    <3>2. {d.resident[k] : k \in G} = {e.resident[k] : k \in G}
      BY <2>2
    <3>3. Range(e.resident) = {e.resident[k] : k \in G \cup S}
      BY <2>2 DEF Range
    <3> QED BY <3>1, <3>2, <3>3
  <2>7. ASSUME NEW k \in G PROVE e.resident[k] \notin new
    <3>1. e.resident[k] = d.resident[k] /\ k \in DOMAIN d.resident
      BY <2>2
    <3>2. e.resident[k] \in Nat /\ e.resident[k] < d.next
      BY <2>5, <3>1
    <3>3. \A l \in S : e.resident[l] >= d.next /\ e.resident[l] \in 0 .. e.next - 1
      BY <2>2
    <3>4. \A l \in S : e.resident[l] # e.resident[k]
      BY <2>2, <2>5, <3>2, <3>3
    <3> QED BY <3>4
  <2>8. ASSUME NEW k \in G \cup S PROVE X[e.resident[k]] = k
    <3>1. e.resident[k] \in Range(e.resident) /\ KeyUnder(e, e.resident[k]) = k
      <4>1. k \in DOMAIN e.resident
        BY <2>2
      <4> QED BY <2>2, <4>1, KeyFound DEF Range
    <3>2. CASE k \in S
      <4>1. e.resident[k] \in new
        BY <3>2
      <4>2. X[e.resident[k]] = KeyUnder(e, e.resident[k])
        BY <4>1
      <4> QED BY <3>1, <4>2
    <3>3. CASE k \in G
      <4>1. e.resident[k] \in DOMAIN left.data
        BY <2>6, <2>7, <3>1, <3>3
      <4>2. X[e.resident[k]] = left.data[e.resident[k]]
        BY <2>7, <3>3, <4>1
      <4>3. left.data[e.resident[k]] = s.data[d.resident[k]]
        BY <2>2, <2>3, <3>3, <4>1
      <4> QED BY <2>2, <2>5, <3>3, <4>2, <4>3
    <3> QED BY <3>2, <3>3
  <2>9. ASSUME NEW k \in G \cup S PROVE PlacesOf(e.shown, k) = PlacesOf(ts, k)
    BY <2>2, PlacesStay
  <2>10. KeysIn(e.shown) = G \cup S
    <3>1. Range(e.shown) = {t \in Range(ts) : t.key \in G \cup S}
      <4>1. Range(e.shown) = Range(ts) \cap {t \in Range(ts) : t.key \in G \cup S}
        BY <2>2, RetainedIs
      <4> QED BY <4>1
    <3>2. \A q : KeysIn(q) = {t.key : t \in Range(q)}
      BY DEF KeysIn, Range
    <3>3. G \cup S \subseteq KeysIn(ts)
      BY <2>2
    <3> QED BY <3>1, <3>2, <3>3
  <2>11. PlacesIn(e) = UNION {{<<e.resident[k], n>> : n \in DOMAIN PlacesOf(ts, k)} : k \in G \cup S}
    <3>1. \A k \in G \cup S : {<<e.resident[k], n>> : n \in DOMAIN PlacesOf(e.shown, k)}
                               = {<<e.resident[k], n>> : n \in DOMAIN PlacesOf(ts, k)}
      BY <2>9
    <3> QED BY <2>10, <3>1 DEF PlacesIn
  \* Every place the terminal keeps is of a picture that stays.
  <2>12. ASSUME NEW y \in DOMAIN left.placed
         PROVE  \E k \in G : \E n \in DOMAIN PlacesOf(d.shown, k) :
                    y = <<d.resident[k], n>> /\ left.placed[y] = AsPlacedAt(PlacesOf(d.shown, k)[n])
    <3>1. y \in PlacesIn(d) /\ y[1] \notin gone /\ left.placed[y] = s.placed[y]
      BY <2>3, <2>5
    <3>2. PICK k \in KeysIn(d.shown) : \E n \in DOMAIN PlacesOf(d.shown, k) : y = <<d.resident[k], n>>
      BY <3>1 DEF PlacesIn
    <3>3. PICK n \in DOMAIN PlacesOf(d.shown, k) : y = <<d.resident[k], n>>
      BY <3>2
    <3>4. k \in DOMAIN d.resident /\ y[1] = d.resident[k] /\ y[2] = n
      BY <2>5, <3>3
    <3>5. k \in G
      BY <3>1, <3>4
    <3>6. TargetAt(d, y) = PlacesOf(d.shown, k)[n]
      BY <2>5, <3>4, KeyFound DEF TargetAt
    <3> QED BY <2>5, <3>1, <3>3, <3>5, <3>6
  \* It is asked for again, and where shapes freeze in the same one.
  <2>13. ASSUME NEW k \in G, NEW n \in DOMAIN PlacesOf(d.shown, k)
         PROVE  /\ n \in DOMAIN PlacesOf(ts, k)
                /\ s.freezes => PlacesOf(ts, k)[n].shape = PlacesOf(d.shown, k)[n].shape
    <3> DEFINE P == PlacesOf(ts, k)
               Q == PlacesOf(d.shown, k)
    <3>1. P \in Seq(Range(ts)) /\ Q \in Seq(Range(d.shown))
      BY <2>5, RetainedIs DEF PlacesOf
    <3>2. ShapesOf(ts, k) = [m \in DOMAIN P |-> P[m].shape] /\ ShapesOf(d.shown, k) = [m \in DOMAIN Q |-> Q[m].shape]
      BY DEF ShapesOf
    <3>3. k \in KeysIn(ts) /\ (d.moves => ShapesOf(ts, k) = ShapesOf(d.shown, k))
          /\ (~ d.moves => Len(ShapesOf(ts, k)) >= Len(ShapesOf(d.shown, k)))
      BY <2>4
    <3> HIDE DEF P, Q
    <3>4. /\ DOMAIN P = 1 .. Len(P) /\ Len(P) \in Nat /\ DOMAIN Q = 1 .. Len(Q) /\ Len(Q) \in Nat
      BY <3>1
    <3>5. CASE d.moves
      <4>1. [m \in DOMAIN P |-> P[m].shape] = [m \in DOMAIN Q |-> Q[m].shape]
        BY <3>2, <3>3, <3>5
      <4>2. DOMAIN P = DOMAIN Q
        BY <4>1
      <4>3. \A m \in DOMAIN Q : P[m].shape = Q[m].shape
        BY <4>1, <4>2
      <4> QED BY <4>2, <4>3 DEF P, Q
    <3>6. CASE ~ d.moves
      <4>1. Len(ShapesOf(ts, k)) = Len(P) /\ Len(ShapesOf(d.shown, k)) = Len(Q)
        BY <3>2, <3>4
      <4>2. Len(P) >= Len(Q)
        BY <3>3, <3>6, <4>1
      <4>3. n \in 1 .. Len(P)
        BY <3>4, <4>2 DEF Q
      <4> QED BY <2>5, <3>4, <3>6, <4>3 DEF P
    <3> QED BY <3>5, <3>6
  <2>14. DOMAIN left.placed \subseteq PlacesIn(e)
    <3>1. ASSUME NEW y \in DOMAIN left.placed PROVE y \in PlacesIn(e)
      <4>1. PICK k \in G : \E n \in DOMAIN PlacesOf(d.shown, k) : y = <<d.resident[k], n>>
        BY <2>12
      <4>2. PICK n \in DOMAIN PlacesOf(d.shown, k) : y = <<d.resident[k], n>>
        BY <4>1
      <4>3. n \in DOMAIN PlacesOf(ts, k) /\ e.resident[k] = d.resident[k]
        BY <2>2, <2>13
      <4> QED BY <2>11, <4>2, <4>3
    <3> QED BY <3>1
  <2>15. ASSUME NEW x \in PlacesIn(e)
         PROVE  Y[x] = AsPlacedAt(TargetAt(e, x))
    <3>1. PICK k \in G \cup S : \E n \in DOMAIN PlacesOf(ts, k) : x = <<e.resident[k], n>>
      BY <2>11
    <3>2. PICK n \in DOMAIN PlacesOf(ts, k) : x = <<e.resident[k], n>>
      BY <3>1
    <3>3. x[1] = e.resident[k] /\ x[2] = n /\ k \in DOMAIN e.resident
      BY <2>2, <3>2
    <3>4. TargetAt(e, x) = PlacesOf(ts, k)[n]
      BY <2>2, <2>9, <3>3, KeyFound DEF TargetAt
    <3>5. Y[x] = Redrawn(left, x, TargetAt(e, x))
      OBVIOUS
    <3> HIDE DEF Y
    <3>6. CASE left.freezes /\ x \in DOMAIN left.placed
      <4>1. PICK l \in G : \E m \in DOMAIN PlacesOf(d.shown, l) :
                x = <<d.resident[l], m>> /\ left.placed[x] = AsPlacedAt(PlacesOf(d.shown, l)[m])
        BY <2>12, <3>6
      <4>2. PICK m \in DOMAIN PlacesOf(d.shown, l) :
                x = <<d.resident[l], m>> /\ left.placed[x] = AsPlacedAt(PlacesOf(d.shown, l)[m])
        BY <4>1
      <4>3. e.resident[l] = e.resident[k] /\ l \in DOMAIN e.resident /\ m = n
        BY <2>2, <3>3, <4>2
      <4>4. l = k
        BY <2>2, <3>3, <4>3 DEF IsInjective
      <4>5. PlacesOf(ts, k)[n].shape = PlacesOf(d.shown, k)[n].shape
        BY <2>3, <2>13, <3>6, <4>2, <4>3, <4>4
      <4>6. left.placed[x].shape = TargetAt(e, x).shape
        BY <3>4, <4>2, <4>3, <4>4, <4>5 DEF AsPlacedAt
      <4> QED BY <3>5, <4>6 DEF Redrawn, AsPlacedAt
    <3>7. CASE ~ (left.freezes /\ x \in DOMAIN left.placed)
      BY <3>5, <3>7 DEF Redrawn, AsPlacedAt
    <3> QED BY <3>6, <3>7
  <2>16. DOMAIN Y = PlacesIn(e) /\ DOMAIN X = Range(e.resident)
    BY <2>6, <2>14
  <2> HIDE DEF X, Y, u
  <2>17. u.data = X /\ u.placed = Y /\ u.freezes = s.freezes /\ IsTerminal(u)
    BY <2>1, <2>5 DEF IsTerminal
  <2>18. e.shown \in Seq(Range(e.shown))
    <3>1. e.shown \in Seq(Range(ts))
      BY <2>2, RetainedIs
    <3> HIDE DEF e
    <3> QED BY <3>1 DEF Range
  <2>19. InlineShapes(e, u)
    BY <2>2, <2>5, <2>17, <2>18 DEF InlineShapes
  <2>20. InlineAgrees(e, u)
    BY <2>2, <2>8, <2>10, <2>15, <2>16, <2>17 DEF InlineAgrees
  <2> QED BY <2>19, <2>20 DEF InlineState, e, u
<1> QED BY <1>1, <1>2

-----------------------------------------------------------------------------
(* What a frame wants is a sequence.                                         *)
LEMMA WantedIsSequence ==
    ASSUME InlineAssumption, NEW n \in Nat, NEW flow \in [1 .. n -> Picture], NEW top, NEW built
    PROVE  LET ts == WantedInline(flow, top, built) IN ts \in Seq(Range(ts))
<1> DEFINE m == Len(flow)
           at == [i \in 1 .. InlColumns * m |->
                    [p |-> flow[((i - 1) % m) + 1], col |-> ((i - 1) \div m) + 1]]
           seen == Retained(at, {x \in Range(at) : x.p.key \in built /\ InColumn(x.p, TopOf(top, x.col))})
           ts == WantedInline(flow, top, built)
<1>1. m \in Nat /\ InlColumns \in Nat
  BY DEF InlineAssumption
<1>2. InlColumns * m \in Nat
  BY <1>1
<1>3. at \in Seq(Range(at))
  <2> DEFINE N == InlColumns * m
             item(i) == [p |-> flow[((i - 1) % m) + 1], col |-> ((i - 1) \div m) + 1]
  <2>1. at = [i \in 1 .. N |-> item(i)] /\ N \in Nat
    BY <1>2
  <2> HIDE DEF N, item, at
  <2>2. at = [i \in 1 .. N |-> at[i]]
    BY <2>1
  <2> QED BY <2>1, <2>2, SequenceOfValues
<1>4. seen \in Seq(Range(at))
  <2> HIDE DEF at
  <2> QED BY <1>3, RetainedIs
<1>5. ts = [i \in DOMAIN seen |-> InlineTarget(seen[i].p, TopOf(top, seen[i].col), seen[i].col)]
  BY DEF WantedInline
<1> HIDE DEF seen, ts
<1>6. ts \in Seq(Range(ts))
  <2> DEFINE N == Len(seen)
             item(i) == InlineTarget(seen[i].p, TopOf(top, seen[i].col), seen[i].col)
  <2>1. ts = [i \in 1 .. N |-> item(i)] /\ N \in Nat
    BY <1>4, <1>5
  <2> HIDE DEF N, item
  <2>2. ts = [i \in 1 .. N |-> ts[i]]
    BY <2>1
  <2> QED BY <2>1, <2>2, SequenceOfValues
<1> QED BY <1>6 DEF ts

(* The invariant of the whole: also the book in sight and its layout are     *)
(* among those there are.                                                    *)
SightShapes ==
    /\ sight.book \in InlBooks \cup {NoBook} /\ sight.laid \in InlLayouts
    /\ sight \in [book : {sight.book}, laid : {sight.laid}, top : {sight.top}, built : {sight.built},
                   clear : {sight.clear}, repaint : {sight.repaint}, modal : {sight.modal},
                   modalShown : {sight.modalShown}, full : {sight.full}]
InlineInv == SightShapes /\ InlineState(inl, screen)

(* It holds of a deck nothing was asked of.                                  *)
LEMMA InlineInitSound == InlineInit => InlineInv
<1> SUFFICES ASSUME InlineInit PROVE InlineInv
  OBVIOUS
<1>1. PICK moves \in BOOLEAN, freezes \in BOOLEAN :
          /\ inl = [shown |-> <<>>, resident |-> NoPlaces, next |-> 0, deferred |-> FALSE, moves |-> moves]
          /\ screen = [data |-> NoPlaces, placed |-> NoPlaces, freezes |-> freezes]
          /\ freezes => moves
  BY DEF InlineInit
<1>2. PICK laid \in InlLayouts, top \in InlTops :
          sight = [book |-> NoBook, laid |-> laid, top |-> top, built |-> {}, clear |-> FALSE,
                   repaint |-> FALSE, modal |-> FALSE, modalShown |-> FALSE, full |-> FALSE]
  BY DEF InlineInit
<1>3. SightShapes
  BY <1>2 DEF SightShapes
<1>4. DOMAIN NoPlaces = {} /\ Range(NoPlaces) = {}
  BY DEF NoPlaces, Range
<1>5. KeysIn(inl.shown) = {}
  BY <1>1 DEF KeysIn
<1>6. PlacesIn(inl) = {}
  BY <1>5 DEF PlacesIn
<1>7. InlineShapes(inl, screen)
  <2>1. IsDeck(inl) /\ IsTerminal(screen) /\ (screen.freezes => inl.moves)
    BY <1>1 DEF IsDeck, IsTerminal
  <2>2. inl.shown \in Seq(Range(inl.shown)) /\ inl.next \in Nat
    BY <1>1
  <2>3. inl.resident \in [DOMAIN inl.resident -> 0 .. inl.next - 1]
    BY <1>1, <1>4 DEF NoPlaces
  <2> QED BY <2>1, <2>2, <2>3 DEF InlineShapes
<1>8. InlineAgrees(inl, screen)
  BY <1>1, <1>4, <1>5, <1>6 DEF InlineAgrees, IsInjective
<1> QED BY <1>3, <1>7, <1>8 DEF InlineInv, InlineState

(* A frame keeps it: a full redraw, a clearing and a render one after        *)
(* another, as far as the frame has them.                                    *)
LEMMA InlineFrameSound ==
    ASSUME InlineAssumption, InlineInv, InlineFrame
    PROVE  InlineState(inl, screen)'
<1> DEFINE d == IF FullAsked THEN RestagedInline(inl) ELSE inl
           s == IF FullAsked THEN Wiped(screen) ELSE screen
           e == ClearedInline(d)
           u == Without(s, Range(d.resident))
           ts == WantedInline(InlFlow[sight.book][sight.laid], sight.top, sight.built)
<1>1. InlineState(d, s)
  BY RestageAgrees DEF InlineInv
<1> HIDE DEF d, s
<1>2. InlineState(e, u)
  BY <1>1, ClearAgrees
<1>3. CASE ~ Reading \/ sight.modal
  <2>1. /\ inl' = IF DOMAIN d.resident = {} /\ d.shown = <<>> THEN d ELSE e
        /\ screen' = IF DOMAIN d.resident = {} /\ d.shown = <<>> THEN s ELSE u
    BY <1>3 DEF InlineFrame, d, s
  <2> HIDE DEF e, u
  <2> QED BY <1>1, <1>2, <2>1
<1>4. CASE Reading /\ ~ sight.modal
  <2> DEFINE dd == IF sight.clear THEN e ELSE d
             ss == IF sight.clear THEN u ELSE s
  <2>1. /\ inl' = RenderedInline(dd, ts, sight.built)
        /\ screen' = RenderedScreen(dd, ss, ts, sight.built)
    BY <1>4 DEF InlineFrame, d, s
  <2>2. InlineState(dd, ss)
    <3> HIDE DEF e, u
    <3> QED BY <1>1, <1>2
  <2>3. ts \in Seq(Range(ts))
    <3>1. InlFlow[sight.book][sight.laid] \in Seq(Picture)
      BY <1>4 DEF InlineAssumption, InlineInv, SightShapes, Reading
    <3>2. PICK n \in Nat : InlFlow[sight.book][sight.laid] \in [1 .. n -> Picture]
      BY <3>1
    <3> QED BY <3>2, WantedIsSequence
  <2> HIDE DEF dd, ss, ts
  <2>4. MaxUploads \in Nat
    BY DEF InlineAssumption
  <2>5. InlineState(RenderedInline(dd, ts, sight.built), RenderedScreen(dd, ss, ts, sight.built))
    BY <2>2, <2>3, <2>4, RenderAgrees
  <2> QED BY <2>1, <2>5
<1> QED BY <1>3, <1>4

(* So does every step between frames, which touches neither.                 *)
LEMMA InlineNextSound ==
    ASSUME InlineAssumption, InlineInv, [InlineNext]_inlineVars
    PROVE  InlineInv'
<1>1. CASE UNCHANGED inlineVars
  BY <1>1 DEF InlineInv, SightShapes, inlineVars
<1>2. CASE InlineFrame
  <2>1. SightShapes'
    BY <1>2 DEF InlineFrame, Turned, InlineInv, SightShapes
  <2> QED BY <1>2, <2>1, InlineFrameSound DEF InlineInv
<1>3. CASE UNCHANGED <<inl, screen>> /\ ~ InlineFrame /\ InlineNext
  <2>1. SightShapes'
    <3>1. \A top \in InlTops : ScrollTo(top) => SightShapes'
      BY DEF ScrollTo, InlineInv, SightShapes
    <3>2. \A laid \in InlLayouts, folded \in BOOLEAN : Relay(laid, folded) => SightShapes'
      BY DEF Relay, Restaged, InlineInv, SightShapes
    <3>3. \A k \in InlKeys : (Built(k) \/ Forgotten(k)) => SightShapes'
      BY DEF Built, Forgotten, InlineInv, SightShapes
    <3>4. PopUp \/ LeaveForPage \/ DrawHeld => SightShapes'
      BY DEF PopUp, LeaveForPage, Restaged, DrawHeld, Turned, InlineInv, SightShapes
    <3>5. CloseReader => SightShapes'
      BY DEF CloseReader, InlineInv, SightShapes
    <3>6. \A b \in InlBooks : OpenReader(b) => SightShapes'
      BY DEF OpenReader, InlineInv, SightShapes
    <3> QED BY <1>3, <3>1, <3>2, <3>3, <3>4, <3>5, <3>6 DEF InlineNext
  <2>2. InlineState(inl, screen)'
    BY <1>3 DEF InlineInv
  <2> QED BY <2>1, <2>2 DEF InlineInv
<1> QED BY <1>1, <1>2, <1>3 DEF InlineNext

(* The deck and the terminal keep agreeing, whatever the books hold, however *)
(* they are laid out and whatever is sent in a frame.                        *)
THEOREM InlineInvariance == InlineSpec => []InlineInv
<1>1. InlineInit => InlineInv
  BY InlineInitSound
<1>2. InlineInv /\ [InlineNext]_inlineVars => InlineInv'
  BY InlineNextSound, InlineAssumption
<1> QED BY <1>1, <1>2, PTL DEF InlineSpec

(* What the deck believes to be on the screen is there, where and as it was  *)
(* last asked for, and nothing besides (app/inline_deck.rs, render).         *)
THEOREM TheInlineScreenIsTrue == InlineSpec => []InlineTrue
<1>1. InlineInv => InlineTrue
  BY DEF InlineInv, InlineState, InlineAgrees, InlineTrue
<1> QED BY <1>1, InlineInvariance, PTL
=============================================================================
