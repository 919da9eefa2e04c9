-------------------------- MODULE Background_proofs --------------------------
(***************************************************************************)
(* Two places where worker threads serve the event loop, proved for every  *)
(* value of their constants.                                               *)
(*                                                                         *)
(* The covers of the library's grid.  The workers hold each book once and  *)
(* the terminal holds each image once, for any shelf, screen, cache and    *)
(* number of workers.  CoversAccounted is not inductive: it needs that the *)
(* queue never names a book being decoded (Queues), that a worker's mark   *)
(* is there for as long as it decodes (Marked), and that two covers never  *)
(* share an image (Images), without which deleting one would blank the     *)
(* other.                                                                  *)
(*                                                                         *)
(* The metadata editor.  What it shows belongs to the editor and to the    *)
(* seed that is on screen, for any list of books, any number of hits and   *)
(* of key presses: one receiver serves every kind of request, it outlives  *)
(* the editor that asked, and nothing in an answer says which editor it    *)
(* was for.  The invariant adds JobOfThisSeed: a search still running for  *)
(* this editor was started under the seed its tabs show.  That is kept     *)
(* only because a changed seed empties both lists, and an empty tab        *)
(* searches at once and so replaces the receiver.                          *)
(***************************************************************************)
EXTENDS CoverLoader, OnlineEditor, DataLemmas

(* What the program queues, decodes and caches has no book twice; what is  *)
(* queued is not being decoded.                                            *)
Queues ==
    /\ wanted \in Seq(Covers) /\ IsInjective(wanted)
    /\ decoding \subseteq Covers /\ ToSet(wanted) \cap decoding = {}
    /\ decoded \in Seq(Covers)
    /\ covers \in Seq(Covers) /\ IsInjective(covers) /\ Len(covers) <= CoverCap

WorkersTyped ==
    cw \in [CWorkers -> [at : {"enter", "wait", "decode", "send", "dead", "done"},
                         book : Covers \cup {Nothing}]]

LoopTyped ==
    /\ shut \in BOOLEAN /\ gridPending \in BOOLEAN /\ navDown \in BOOLEAN
    /\ isGrid \in BOOLEAN /\ cdirty \in BOOLEAN /\ landed \in BOOLEAN
    /\ top \in Covers /\ mainAt \in {"drain", "settle", "draw", "pend"}

(* What a worker decodes, or died of, has its mark; what it sends is a book. *)
Marked ==
    \A w \in CWorkers :
        /\ cw[w].at \in {"decode", "dead"} => cw[w].book \in decoding
        /\ cw[w].at = "send" => cw[w].book \in Covers

(* Two covers have two images, and only a cached cover has one.            *)
Images ==
    /\ imageOf \in [Covers -> Nat]
    /\ \A b \in Covers : b \notin Cached => imageOf[b] = NoId
    /\ \A a, b \in Covers : imageOf[a] = imageOf[b] /\ imageOf[a] # NoId => a = b
    /\ inTerminal \subseteq Nat /\ IsFiniteSet(inTerminal)
    /\ doomed \subseteq Nat

CoverInv ==
    /\ Queues /\ WorkersTyped /\ LoopTyped /\ Marked /\ PanicCostsOneWorker
    /\ Images /\ ImagesAccounted

-----------------------------------------------------------------------------
(* What the screen and its margin are made of.                             *)

\* What the assumption says of the sizes.
LEMMA CoverNumbers ==
    /\ Shelf \in Nat /\ Page \in Nat /\ CoverCap \in Nat
    /\ Shelf > 0 /\ Page > 0 /\ CoverCap > 0
BY CoverAssumption

\* A run of the shelf is a sequence of covers, each once, within its ends.
LEMMA BooksInOrder ==
    ASSUME NEW lo \in Covers, NEW hi \in Int, hi <= Shelf
    PROVE  /\ Books(lo, hi) \in Seq(Covers) /\ IsInjective(Books(lo, hi))
           /\ \A b \in Range(Books(lo, hi)) : lo <= b /\ b <= hi
<1> DEFINE n == IF hi < lo THEN 0 ELSE hi - lo + 1
           q == [i \in 1 .. n |-> lo + i - 1]
<1>1. n \in Nat /\ lo \in Int /\ 1 <= lo /\ Shelf \in Nat
  BY CoverNumbers DEF Covers
<1>2. \A i \in 1 .. n : lo + i - 1 \in Int /\ lo <= lo + i - 1 /\ lo + i - 1 <= hi
  BY <1>1
<1>3. Books(lo, hi) = q
  BY DEF Books
<1> HIDE DEF n
<1>4. \A i \in 1 .. n : lo + i - 1 \in Covers
  BY <1>1, <1>2 DEF Covers
<1>5. q \in Seq(Covers)
  BY <1>1, <1>4
<1>6. IsInjective(q)
  BY <1>1 DEF IsInjective
<1>7. \A b \in Range(q) : lo <= b /\ b <= hi
  BY <1>2 DEF Range
<1> QED BY <1>3, <1>5, <1>6, <1>7

\* A run that ends before it begins is empty.
LEMMA NoBooks ==
    ASSUME NEW lo, NEW hi, lo \in Int, hi \in Int, hi < lo
    PROVE  Books(lo, hi) = <<>>
BY DEF Books

(* A sequence read backwards.                                              *)
LEMMA Reversed ==
    ASSUME NEW T, NEW s \in Seq(T)
    PROVE  /\ Reverse(s) \in Seq(T) /\ Range(Reverse(s)) = Range(s)
           /\ IsInjective(s) => IsInjective(Reverse(s))
<1> DEFINE n == Len(s)
           q == Reverse(s)
<1>1. n \in Nat /\ DOMAIN s = 1 .. n /\ \A i \in 1 .. n : s[i] \in T
  OBVIOUS
<1>2. q = [i \in 1 .. n |-> s[n - i + 1]]
  BY DEF Reverse
<1>3. \A i \in 1 .. n : n - i + 1 \in 1 .. n /\ n - (n - i + 1) + 1 = i
  BY <1>1
<1> HIDE DEF n, q
<1>4. q \in Seq(T) /\ DOMAIN q = 1 .. n
  BY <1>1, <1>2, <1>3
<1>5. Range(q) \subseteq Range(s)
  BY <1>1, <1>2, <1>3 DEF Range
<1>6. \A i \in 1 .. n : s[i] = q[n - i + 1]
  BY <1>2, <1>3
<1>7. Range(s) \subseteq Range(q)
  BY <1>1, <1>3, <1>4, <1>6 DEF Range
<1>8. ASSUME IsInjective(s) PROVE IsInjective(q)
  <2> SUFFICES ASSUME NEW i \in 1 .. n, NEW j \in 1 .. n, q[i] = q[j] PROVE i = j
    BY <1>4 DEF IsInjective
  <2>1. s[n - i + 1] = s[n - j + 1]
    BY <1>2
  <2>2. n - i + 1 = n - j + 1
    BY <1>1, <1>3, <1>8, <2>1 DEF IsInjective
  <2> QED BY <1>1, <2>2
<1> QED BY <1>4, <1>5, <1>7, <1>8 DEF q


(* The screen and the margin hold every book once, and no other.           *)
LEMMA ScreenAndAhead ==
    ASSUME top \in Covers
    PROVE  /\ Screen \in Seq(Covers) /\ IsInjective(Screen)
           /\ Screen \o Ahead \in Seq(Covers) /\ IsInjective(Screen \o Ahead)
<1>1. top \in Int /\ 1 <= top /\ top <= Shelf /\ Shelf \in Int /\ Page \in Int /\ Page > 0
  BY CoverNumbers DEF Covers
<1>2. \A a \in Int : Least(a, Shelf) \in Int /\ Least(a, Shelf) <= Shelf /\ Least(a, Shelf) <= a
  BY <1>1 DEF Least
<1>3. /\ Screen \in Seq(Covers) /\ IsInjective(Screen)
      /\ \A b \in Range(Screen) : top <= b /\ b <= Least(top + Page - 1, Shelf)
  <2>1. Least(top + Page - 1, Shelf) \in Int /\ Least(top + Page - 1, Shelf) <= Shelf
    BY <1>1, <1>2
  <2> QED BY <2>1, BooksInOrder DEF Screen
<1>4. \A b \in Range(Screen) : b \in Int /\ top <= b /\ b < top + Page
  <2>1. Least(top + Page - 1, Shelf) <= top + Page - 1
    BY <1>1, <1>2
  <2>2. \A b \in Range(Screen) : b \in Covers
    BY <1>3 DEF Range
  <2>3. \A b \in Covers : b \in Int
    BY DEF Covers
  <2>4. Least(top + Page - 1, Shelf) \in Int
    BY <1>1, <1>2
  <2>5. \A b \in Int : b <= Least(top + Page - 1, Shelf) => b < top + Page
    BY <1>1, <2>1, <2>4
  <2> QED BY <1>3, <2>2, <2>3, <2>5
<1>5. /\ Ahead \in Seq(Covers) /\ IsInjective(Ahead)
      /\ \A b \in Range(Ahead) : b >= top + Page \/ b < top
  <2>1. CASE navDown
    <3> DEFINE hi == Least(top + 2 * Page - 1, Shelf)
    <3>1. hi \in Int /\ hi <= Shelf
      BY <1>1, <1>2
    <3>2. Ahead = Books(top + Page, hi)
      BY <2>1 DEF Ahead
    <3> HIDE DEF hi
    <3>3. CASE top + Page \in Covers
      BY <3>1, <3>2, <3>3, BooksInOrder
    <3>4. CASE top + Page \notin Covers
      <4>1. hi < top + Page
        BY <1>1, <3>1, <3>4 DEF Covers
      <4>2. Ahead = <<>>
        BY <1>1, <3>1, <3>2, <4>1, NoBooks
      <4> QED BY <4>2 DEF Range, IsInjective
    <3> QED BY <3>3, <3>4
  <2>2. CASE ~navDown
    <3> DEFINE lo == IF top > Page THEN top - Page ELSE 1
               q == Books(lo, top - 1)
    <3>1. lo \in Covers /\ top - 1 \in Int /\ top - 1 <= Shelf
      BY <1>1 DEF Covers
    <3>2. Ahead = Reverse(q)
      BY <2>2 DEF Ahead
    <3> HIDE DEF lo
    <3>3. q \in Seq(Covers) /\ IsInjective(q) /\ \A b \in Range(q) : lo <= b /\ b <= top - 1
      BY <3>1, BooksInOrder
    <3> HIDE DEF q
    <3>4. Ahead \in Seq(Covers) /\ IsInjective(Ahead) /\ Range(Ahead) = Range(q)
      BY <3>2, <3>3, Reversed
    <3>5. \A b \in Range(q) : b \in Covers
      BY <3>3 DEF Range
    <3>6. \A b \in Covers : b \in Int
      BY DEF Covers
    <3>7. \A b \in Int : b <= top - 1 => b < top
      BY <1>1
    <3> QED BY <3>3, <3>4, <3>5, <3>6, <3>7
  <2> QED BY <2>1, <2>2
<1>6. Range(Screen) \cap Range(Ahead) = {}
  BY <1>1, <1>4, <1>5
<1> QED BY <1>3, <1>5, <1>6, Joined

-----------------------------------------------------------------------------
(* The pool's part of the invariant.                                       *)
Pool == WorkersTyped /\ Marked /\ PanicCostsOneWorker

(* A step that moves no worker to another book keeps it, if the marks of   *)
(* those that decode stay.                                                 *)
LEMMA WakingKeepsThePool ==
    ASSUME Pool
    PROVE  cw' = WakeAll /\ decoding' = decoding => Pool'
<1> SUFFICES ASSUME cw' = WakeAll, decoding' = decoding PROVE Pool'
  OBVIOUS
<1>1. cw \in [CWorkers -> [at : {"enter", "wait", "decode", "send", "dead", "done"},
                           book : Covers \cup {Nothing}]]
  BY DEF Pool, WorkersTyped
<1>2. \A w \in CWorkers :
         /\ cw'[w].book = cw[w].book
         /\ cw'[w].at \in {"enter", "wait", "decode", "send", "dead", "done"}
         /\ cw'[w].at \in {"decode", "dead", "send"} => cw'[w].at = cw[w].at
         /\ cw'[w] \in [at : {"enter", "wait", "decode", "send", "dead", "done"},
                        book : Covers \cup {Nothing}]
  BY <1>1 DEF WakeAll
<1>3. WorkersTyped'
  BY <1>1, <1>2 DEF WakeAll, WorkersTyped
<1>4. Marked'
  BY <1>2 DEF Pool, Marked
<1>5. PanicCostsOneWorker'
  BY <1>2 DEF Pool, PanicCostsOneWorker
<1> QED BY <1>3, <1>4, <1>5 DEF Pool


\* A worker's claim of the next cover wanted.
LEMMA ClaimKeeps ==
    ASSUME CoverInv, NEW w \in CWorkers, Claim(w)
    PROVE  Pool' /\ wanted' \in Seq(Covers) /\ IsInjective(wanted')
           /\ decoding' \subseteq Covers /\ ToSet(wanted)' \cap decoding' = {}
<1> DEFINE Ats == {"enter", "wait", "decode", "send", "dead", "done"}
<1>1. /\ cw \in [CWorkers -> [at : Ats, book : Covers \cup {Nothing}]]
      /\ wanted \in Seq(Covers) /\ IsInjective(wanted)
      /\ decoding \subseteq Covers /\ Range(wanted) \cap decoding = {}
      /\ Marked /\ PanicCostsOneWorker /\ cw[w].at = "enter"
  BY DEF CoverInv, Queues, WorkersTyped, ToSet, Range, Claim
<1>2. ToSet(wanted)' = Range(wanted')
  BY DEF ToSet, Range
<1>3. CASE ~shut /\ wanted # <<>>
  <2> DEFINE b == Head(wanted)
  <2>1. /\ cw' = [cw EXCEPT ![w] = [at |-> "decode", book |-> b]]
        /\ wanted' = Tail(wanted) /\ decoding' = decoding \cup {b}
    BY <1>3 DEF Claim
  <2>2. /\ b \in Covers /\ b \in Range(wanted) /\ wanted' \in Seq(Covers)
        /\ Range(wanted') \subseteq Range(wanted) /\ IsInjective(wanted') /\ b \notin Range(wanted')
    BY <1>1, <1>3, <2>1, FrontTaken
  <2> HIDE DEF b
  <2>3. b \notin decoding
    BY <1>1, <2>2
  <2>4. \A v \in CWorkers : v # w => cw'[v] = cw[v]
    BY <1>1, <2>1
  <2>5. cw'[w].at = "decode" /\ cw'[w].book = b
    BY <1>1, <2>1
  <2>6. WorkersTyped'
    BY <1>1, <2>1, <2>2 DEF WorkersTyped
  <2>7. Marked'
    BY <1>1, <2>1, <2>4, <2>5 DEF Marked
  <2>8. PanicCostsOneWorker'
    <3> SUFFICES ASSUME NEW u \in CWorkers, NEW v \in CWorkers, u # v,
                        {cw'[u].at, cw'[v].at} \subseteq {"decode", "dead"}
                 PROVE  cw'[u].book # cw'[v].book
      BY DEF PanicCostsOneWorker
    <3>1. \A x \in CWorkers : x # w /\ cw'[x].at \in {"decode", "dead"} => cw'[x].book \in decoding
      BY <1>1, <2>4 DEF Marked
    <3>2. CASE u # w /\ v # w
      BY <1>1, <2>4, <3>2 DEF PanicCostsOneWorker
    <3> QED BY <2>3, <2>5, <3>1, <3>2
  <2> QED BY <1>1, <1>2, <2>1, <2>2, <2>6, <2>7, <2>8 DEF Pool
<1>4. CASE shut \/ wanted = <<>>
  <2>1. /\ wanted' = wanted /\ decoding' = decoding
        /\ cw' = [cw EXCEPT ![w].at = "done"] \/ cw' = [cw EXCEPT ![w].at = "wait"]
    BY <1>4 DEF Claim
  <2>2. /\ cw'[w].at \in {"done", "wait"}
        /\ \A v \in CWorkers : v # w => cw'[v] = cw[v]
        /\ cw' \in [CWorkers -> [at : Ats, book : Covers \cup {Nothing}]]
    BY <1>1, <2>1
  <2>3. WorkersTyped'
    BY <2>2 DEF WorkersTyped
  <2>4. Marked'
    BY <1>1, <2>1, <2>2 DEF Marked
  <2>5. PanicCostsOneWorker'
    BY <1>1, <2>2 DEF PanicCostsOneWorker
  <2> QED BY <1>1, <1>2, <2>1, <2>3, <2>4, <2>5 DEF Pool
<1> QED BY <1>3, <1>4

(* A worker that leaves its book to another place keeps the others'.       *)
LEMMA WorkerMoves ==
    ASSUME CoverInv, NEW w \in CWorkers
    PROVE  Spurious(w) \/ Unmark(w) \/ Panic(w) \/ SendCover(w) =>
             /\ Pool' /\ decoding' \subseteq decoding /\ decoded' \in Seq(Covers)
             /\ wanted' = wanted
<1> DEFINE Ats == {"enter", "wait", "decode", "send", "dead", "done"}
<1>1. /\ cw \in [CWorkers -> [at : Ats, book : Covers \cup {Nothing}]]
      /\ Marked /\ PanicCostsOneWorker /\ decoded \in Seq(Covers) /\ decoding \subseteq Covers
  BY DEF CoverInv, Queues, WorkersTyped
<1>2. CASE Unmark(w)
  <2>1. /\ cw' = [cw EXCEPT ![w].at = "send"] /\ decoding' = decoding \ {cw[w].book}
        /\ cw[w].at = "decode" /\ decoded' = decoded /\ wanted' = wanted
    BY <1>2 DEF Unmark
  <2>2. /\ cw'[w].at = "send" /\ cw'[w].book = cw[w].book
        /\ \A v \in CWorkers : v # w => cw'[v] = cw[v]
        /\ cw' \in [CWorkers -> [at : Ats, book : Covers \cup {Nothing}]]
    BY <1>1, <2>1
  <2>3. WorkersTyped'
    BY <2>2 DEF WorkersTyped
  <2>4. Marked'
    BY <1>1, <2>1, <2>2 DEF Marked, PanicCostsOneWorker
  <2>5. PanicCostsOneWorker'
    BY <1>1, <2>2 DEF PanicCostsOneWorker
  <2> QED BY <1>1, <2>1, <2>3, <2>4, <2>5 DEF Pool
<1>3. CASE Panic(w)
  <2>1. /\ cw' = [cw EXCEPT ![w].at = "dead"] /\ decoding' = decoding
        /\ cw[w].at = "decode" /\ decoded' = decoded /\ wanted' = wanted
    BY <1>3 DEF Panic
  <2>2. /\ cw'[w].at = "dead" /\ cw'[w].book = cw[w].book
        /\ \A v \in CWorkers : v # w => cw'[v] = cw[v]
        /\ cw' \in [CWorkers -> [at : Ats, book : Covers \cup {Nothing}]]
    BY <1>1, <2>1
  <2>3. WorkersTyped'
    BY <2>2 DEF WorkersTyped
  <2>4. Marked'
    BY <1>1, <2>1, <2>2 DEF Marked
  <2>5. PanicCostsOneWorker'
    BY <1>1, <2>1, <2>2 DEF PanicCostsOneWorker
  <2> QED BY <1>1, <2>1, <2>3, <2>4, <2>5 DEF Pool
<1>4. CASE Spurious(w) \/ SendCover(w)
  <2>1. /\ cw' = [cw EXCEPT ![w].at = "done"] \/ cw' = [cw EXCEPT ![w] = [at |-> "enter", book |-> Nothing]]
        /\ decoding' = decoding /\ wanted' = wanted
    BY <1>4 DEF Spurious, SendCover, Entering
  <2>2. /\ cw'[w].at \in {"done", "enter"}
        /\ \A v \in CWorkers : v # w => cw'[v] = cw[v]
        /\ cw' \in [CWorkers -> [at : Ats, book : Covers \cup {Nothing}]]
    BY <1>1, <2>1
  <2>3. WorkersTyped'
    BY <2>2 DEF WorkersTyped
  <2>4. Marked'
    BY <1>1, <2>1, <2>2 DEF Marked
  <2>5. PanicCostsOneWorker'
    BY <1>1, <2>2 DEF PanicCostsOneWorker
  <2>6. decoded' \in Seq(Covers)
    <3>1. cw[w].at = "send" => cw[w].book \in Covers
      BY <1>1 DEF Marked
    <3> QED BY <1>1, <1>4, <3>1 DEF Spurious, SendCover
  <2> QED BY <1>1, <2>1, <2>3, <2>4, <2>5, <2>6 DEF Pool
<1> QED BY <1>2, <1>3, <1>4

-----------------------------------------------------------------------------
(* The wall.                                                               *)

(* The image given to a cover is one the terminal does not hold.           *)
LEMMA FreshIsNew ==
    ASSUME inTerminal \subseteq Nat, IsFiniteSet(inTerminal), NEW b \in Covers
    PROVE  FreshImage(b) \in Nat /\ (FreshImage(b) = NoId \/ FreshImage(b) \notin inTerminal)
<1> DEFINE n == Cardinality(inTerminal)
           I == 1 .. (n + 1)
<1>1. n \in Nat
  BY FS_CardinalityType
<1>2. IsFiniteSet(I) /\ Cardinality(I) = n + 1
  <2>1. n + 1 \in Int /\ 1 \in Int /\ 1 <= n + 1 /\ (n + 1) - 1 + 1 = n + 1
    BY <1>1
  <2> HIDE DEF n
  <2> QED BY <2>1, FS_Interval
<1>3. \E i \in I : i \notin inTerminal
  <2>1. SUFFICES ASSUME I \subseteq inTerminal PROVE FALSE
    OBVIOUS
  <2>2. n + 1 <= n
    BY <1>2, <2>1, FS_Subset
  <2> QED BY <1>1, <2>2
<1>4. CASE b \in Coverless
  BY <1>4 DEF FreshImage, NoId
<1>5. CASE b \notin Coverless
  <2>1. FreshImage(b) = CHOOSE i \in I : i \notin inTerminal
    BY <1>5 DEF FreshImage
  <2>2. \A i \in I : i \in Nat
    BY <1>1
  <2> HIDE DEF I
  <2> QED BY <1>3, <2>1, <2>2
<1> QED BY <1>4, <1>5

\* The cache is below its capacity or at it, and then not empty.
LEMMA AtCapacity ==
    ASSUME NEW n \in Nat, n <= CoverCap
    PROVE  n < CoverCap \/ (n = CoverCap /\ n \in 1 .. n)
BY CoverNumbers

(* The cache has a book once and no more than its capacity, and what       *)
(* leaves it is the book itself or one that was cached.                    *)
LEMMA LandedCovers ==
    ASSUME NEW b \in Covers, covers \in Seq(Covers), IsInjective(covers), Len(covers) <= CoverCap,
           covers' = <<b>> \o Retained(covers, Covers \ {b, Leaving(b)})
    PROVE  /\ covers' \in Seq(Covers) /\ IsInjective(covers') /\ Len(covers') <= CoverCap
           /\ Range(covers') = {b} \cup (Range(covers) \ {Leaving(b)})
           /\ Leaving(b) \in Covers
           /\ Leaving(b) # b => b \notin Range(covers)
<1> DEFINE L == Leaving(b)
           rest == Retained(covers, Covers \ {b, L})
<1>1. Len(covers) \in Nat /\ DOMAIN covers = 1 .. Len(covers) /\ Range(covers) \subseteq Covers
  BY DEF Range
<1>2. L = b \/ (b \notin Range(covers) /\ Len(covers) = CoverCap /\ L \in Range(covers))
  <2>1. CASE b \in Range(covers) \/ Len(covers) < CoverCap
    BY <2>1 DEF Leaving, Cached, ToSet, Range
  <2>2. CASE b \notin Range(covers) /\ ~ (Len(covers) < CoverCap)
    <3>1. L = Last(covers)
      BY <2>2 DEF Leaving, Cached, ToSet, Range
    <3>2. Len(covers) = CoverCap /\ Len(covers) \in 1 .. Len(covers)
      BY <1>1, <2>2, AtCapacity
    <3>3. Last(covers) \in Range(covers)
      BY <1>1, <3>2 DEF Last, Range
    <3> QED BY <2>2, <3>1, <3>2, <3>3
  <2> QED BY <2>1, <2>2
<1> HIDE DEF L
<1>3. /\ rest \in Seq(Covers) /\ IsInjective(rest)
      /\ Range(rest) = Range(covers) \cap (Covers \ {b, L})
  BY RetainedIs
<1>4. <<b>> \in Seq(Covers) /\ IsInjective(<<b>>) /\ Range(<<b>>) = {b}
  BY DEF IsInjective, Range
<1>5. covers' = <<b>> \o rest
  BY DEF L
<1> HIDE DEF rest
<1>6. covers' \in Seq(Covers) /\ IsInjective(covers') /\ Range(covers') = {b} \cup Range(rest)
  <2>1. Range(<<b>>) \cap Range(rest) = {}
    BY <1>3, <1>4
  <2> DEFINE one == <<b>>
  <2>2. one \in Seq(Covers) /\ IsInjective(one) /\ Range(one) = {b} /\ Range(one) \cap Range(rest) = {}
        /\ covers' = one \o rest
    BY <1>4, <1>5, <2>1
  <2> HIDE DEF one
  <2>3. /\ one \o rest \in Seq(Covers) /\ Range(one \o rest) = Range(one) \cup Range(rest)
        /\ IsInjective(one \o rest)
    <3>1. rest \in Seq(Covers) /\ one \in Seq(Covers)
      BY <1>3, <2>2
    <3> QED BY <1>3, <2>2, <3>1, Joined
  <2> QED BY <2>2, <2>3
<1>7. Range(covers') = {b} \cup (Range(covers) \ {L})
  BY <1>1, <1>3, <1>6
<1>8. /\ IsFiniteSet(Range(covers)) /\ Len(covers) = Cardinality(Range(covers))
      /\ Len(covers') = Cardinality(Range(covers'))
  BY <1>6, LengthOfInjective
<1>9. Len(covers') <= CoverCap
  <2> DEFINE C == Range(covers)
  <2>1. Len(covers) = Cardinality(C) /\ Len(covers') = Cardinality({b} \cup (C \ {L})) /\ IsFiniteSet(C)
    BY <1>7, <1>8
  <2> HIDE DEF C
  <2>2. CASE L = b /\ b \in C
    <3>1. {b} \cup (C \ {L}) = C
      BY <2>2
    <3> QED BY <2>1, <3>1
  <2>3. CASE L = b /\ b \notin C
    <3>1. {b} \cup (C \ {L}) = C \cup {b}
      BY <2>3
    <3>2. Len(covers') = Len(covers) + 1
      <4>1. Cardinality(C \cup {b}) = Cardinality(C) + 1
        BY <2>1, <2>3, FS_AddElement
      <4> QED BY <2>1, <3>1, <4>1
    <3>3. Len(covers) < CoverCap
      <4> SUFFICES ASSUME ~ (Len(covers) < CoverCap) PROVE FALSE
        OBVIOUS
      <4>1. L = Last(covers)
        BY <2>3 DEF L, C, Leaving, Cached, ToSet, Range
      <4>2. Len(covers) \in 1 .. Len(covers)
        BY <1>1, AtCapacity
      <4>3. Last(covers) \in C
        BY <1>1, <4>2 DEF Last, Range, C
      <4> QED BY <2>3, <4>1, <4>3
    <3> QED BY <1>1, <3>2, <3>3, CoverNumbers
  <2>4. CASE L # b
    <3>1. b \notin C /\ L \in C
      BY <1>2, <2>4 DEF C
    <3>2. IsFiniteSet(C \ {L}) /\ Cardinality(C \ {L}) = Cardinality(C) - 1
      BY <2>1, <3>1, FS_RemoveElement
    <3>3. {b} \cup (C \ {L}) = (C \ {L}) \cup {b} /\ b \notin C \ {L}
      BY <3>1
    <3>4. Cardinality((C \ {L}) \cup {b}) = Cardinality(C \ {L}) + 1
      BY <3>2, <3>3, FS_AddElement
    <3>5. Len(covers') = Cardinality(C) - 1 + 1
      BY <2>1, <3>2, <3>3, <3>4
    <3>6. Cardinality(C) \in Nat
      BY <2>1, FS_CardinalityType
    <3> QED BY <2>1, <3>5, <3>6
  <2> QED BY <1>2, <2>2, <2>3, <2>4 DEF C
<1>10. L \in Covers
  BY <1>1, <1>2
<1> QED BY <1>2, <1>6, <1>7, <1>9, <1>10 DEF L

\* A decoded cover received, the oldest of a full cache thrown out.
LEMMA LandKeeps ==
    ASSUME CoverInv, Land
    PROVE  Images' /\ ImagesAccounted' /\ decoded' \in Seq(Covers)
           /\ covers' \in Seq(Covers) /\ IsInjective(covers') /\ Len(covers') <= CoverCap
<1> DEFINE b == Head(decoded)
           L == Leaving(b)
           F == FreshImage(b)
<1>1. /\ decoded # <<>> /\ decoded \in Seq(Covers) /\ decoded' = Tail(decoded)
      /\ covers \in Seq(Covers) /\ IsInjective(covers) /\ Len(covers) <= CoverCap
      /\ imageOf \in [Covers -> Nat] /\ inTerminal \subseteq Nat /\ IsFiniteSet(inTerminal)
      /\ doomed \subseteq Nat
  BY DEF Land, CoverInv, Queues, Images
<1>2. \A x \in Covers : x \notin Range(covers) => imageOf[x] = NoId
  BY DEF CoverInv, Images, Cached, ToSet, Range
<1>3. \A x, y \in Covers : imageOf[x] = imageOf[y] /\ imageOf[x] # NoId => x = y
  BY DEF CoverInv, Images
<1>4. /\ covers' = <<b>> \o Retained(covers, Covers \ {b, L})
      /\ imageOf' = [imageOf EXCEPT ![L] = NoId, ![b] = F]
      /\ inTerminal' = inTerminal \cup ({F} \ {NoId})
      /\ doomed' = doomed \cup Doomed(b)
  BY DEF Land
<1>5. b \in Covers /\ decoded' \in Seq(Covers)
  BY <1>1
<1> HIDE DEF b
<1>6. /\ covers' \in Seq(Covers) /\ IsInjective(covers') /\ Len(covers') <= CoverCap
      /\ Range(covers') = {b} \cup (Range(covers) \ {L})
      /\ L \in Covers /\ (L # b => b \notin Range(covers))
  BY <1>1, <1>4, <1>5, LandedCovers
<1>7. F \in Nat /\ (F = NoId \/ F \notin inTerminal)
  BY <1>1, <1>5, FreshIsNew
<1>8. Doomed(b) = {imageOf[L]} \ {NoId}
  BY <1>6 DEF Doomed, ImagesLeaving
<1> HIDE DEF L, F
<1>9. inTerminal = ({imageOf[x] : x \in Covers} \ {NoId}) \cup doomed
      /\ ({imageOf[x] : x \in Covers} \ {NoId}) \cap doomed = {}
  <2>1. Range(covers) \subseteq Covers
    BY <1>1 DEF Range
  <2>2. WallImages = {imageOf[x] : x \in Covers} \ {NoId}
    BY <1>2, <2>1 DEF WallImages, Cached, ToSet, Range
  <2> QED BY <2>2 DEF CoverInv, ImagesAccounted
<1>10. /\ imageOf' \in [Covers -> Nat] /\ imageOf'[b] = F
       /\ L # b => imageOf'[L] = NoId
       /\ \A x \in Covers : x # b /\ x # L => imageOf'[x] = imageOf[x]
  BY <1>1, <1>4, <1>5, <1>6, <1>7 DEF NoId
<1>11. \A x \in Covers : x # b /\ imageOf'[x] # NoId => imageOf'[x] = imageOf[x] /\ x # L
  BY <1>10
<1>12. \A x \in Covers : imageOf[x] = NoId \/ imageOf[x] \in inTerminal
  BY <1>9
<1>13. \A x, y \in Covers : imageOf'[x] = imageOf'[y] /\ imageOf'[x] # NoId => x = y
  <2> SUFFICES ASSUME NEW x \in Covers, NEW y \in Covers,
                      imageOf'[x] = imageOf'[y], imageOf'[x] # NoId
               PROVE  x = y
    OBVIOUS
  <2>1. CASE x # b /\ y # b
    BY <1>3, <1>11, <2>1
  <2>2. CASE x = b /\ y # b
    BY <1>7, <1>10, <1>11, <1>12, <2>2
  <2>3. CASE x # b /\ y = b
    BY <1>7, <1>10, <1>11, <1>12, <2>3
  <2> QED BY <2>1, <2>2, <2>3
<1>14. \A x \in Covers : x \notin Range(covers') => imageOf'[x] = NoId
  BY <1>2, <1>6, <1>10
<1>15. IsFiniteSet(inTerminal') /\ inTerminal' \subseteq Nat /\ doomed' \subseteq Nat
  <2>1. IsFiniteSet({F} \ {NoId})
    BY FS_Singleton, FS_Difference
  <2>2. IsFiniteSet(inTerminal \cup ({F} \ {NoId}))
    BY <1>1, <2>1, FS_Union
  <2>3. imageOf[L] \in Nat
    BY <1>1, <1>6
  <2> QED BY <1>1, <1>4, <1>7, <1>8, <2>2, <2>3
<1>16. Cached' = Range(covers') /\ Range(covers') \subseteq Covers
  BY <1>6 DEF Cached, ToSet, Range
<1>17. Images'
  BY <1>10, <1>13, <1>14, <1>15, <1>16 DEF Images
<1>18. WallImages' = {imageOf'[x] : x \in Covers} \ {NoId}
  <2>1. WallImages' = {imageOf'[x] : x \in Range(covers')} \ {NoId}
    BY <1>16 DEF WallImages
  <2> QED BY <1>14, <1>16, <2>1
<1>19. {imageOf'[x] : x \in Covers} \ {NoId}
         = (({imageOf[x] : x \in Covers} \ {NoId, imageOf[L]}) \cup {F}) \ {NoId}
  <2> DEFINE W == {imageOf[x] : x \in Covers}
             V == {imageOf'[x] : x \in Covers}
  <2>1. \A v \in V \ {NoId} : v = F \/ (v \in W /\ v # imageOf[L])
    BY <1>3, <1>6, <1>10, <1>11
  <2>2. ASSUME NEW x \in Covers, imageOf[x] # NoId, imageOf[x] # imageOf[L]
        PROVE  imageOf[x] \in V
    <3>1. x # L
      BY <2>2
    <3>2. x # b
      BY <1>2, <1>5, <1>6, <2>2, <3>1
    <3> QED BY <1>10, <3>1, <3>2
  <2>3. F \in V
    BY <1>5, <1>10
  <2>4. V \ {NoId} \subseteq ((W \ {NoId, imageOf[L]}) \cup {F}) \ {NoId}
    BY <2>1
  <2>5. ((W \ {NoId, imageOf[L]}) \cup {F}) \ {NoId} \subseteq V \ {NoId}
    BY <2>2, <2>3
  <2> QED BY <2>4, <2>5
<1>20. ImagesAccounted'
  <2> DEFINE W == {imageOf[x] : x \in Covers}
  <2>1. imageOf[L] \in W
    BY <1>6
  <2>2. /\ inTerminal = (W \ {NoId}) \cup doomed /\ (W \ {NoId}) \cap doomed = {}
        /\ WallImages' = ((W \ {NoId, imageOf[L]}) \cup {F}) \ {NoId}
        /\ inTerminal' = inTerminal \cup ({F} \ {NoId})
        /\ doomed' = doomed \cup ({imageOf[L]} \ {NoId})
    BY <1>4, <1>8, <1>9, <1>18, <1>19
  <2> HIDE DEF W
  <2>3. inTerminal' = WallImages' \cup doomed'
    BY <2>1, <2>2
  <2>4. WallImages' \cap doomed' = {}
    BY <1>7, <2>1, <2>2
  <2> QED BY <2>3, <2>4 DEF ImagesAccounted
<1> QED BY <1>5, <1>6, <1>17, <1>20

(* A frame of the grid queues what is neither cached nor being decoded,    *)
(* and brings the visible covers to the front of the cache.                *)
LEMMA DrawKeeps ==
    ASSUME CoverInv, DrawGrid
    PROVE  Queues' /\ Images' /\ ImagesAccounted'
<1>1. /\ top \in Covers /\ covers \in Seq(Covers) /\ IsInjective(covers) /\ Len(covers) <= CoverCap
      /\ decoding \subseteq Covers /\ decoded \in Seq(Covers)
      /\ Range(covers) \subseteq Covers
  BY DEF CoverInv, Queues, LoopTyped, Range
<1>2. /\ wanted' = Retained(Screen \o Ahead, Covers \ (Cached \cup decoding))
      /\ covers' = Reverse(Retained(Screen, Cached)) \o Retained(covers, Covers \ Visible)
      /\ decoding' = decoding /\ decoded' = decoded /\ imageOf' = imageOf
      /\ inTerminal' = inTerminal /\ doomed' = doomed
  BY DEF DrawGrid, Wanted, Touched
<1>3. /\ Screen \in Seq(Covers) /\ IsInjective(Screen)
      /\ Screen \o Ahead \in Seq(Covers) /\ IsInjective(Screen \o Ahead)
  BY <1>1, ScreenAndAhead
<1>4. /\ wanted' \in Seq(Covers) /\ IsInjective(wanted')
      /\ Range(wanted') = Range(Screen \o Ahead) \cap (Covers \ (Cached \cup decoding))
  <2> DEFINE q == Screen \o Ahead
  <2>1. q \in Seq(Covers) /\ IsInjective(q) /\ wanted' = Retained(q, Covers \ (Cached \cup decoding))
    BY <1>2, <1>3
  <2> HIDE DEF q
  <2>2. /\ Retained(q, Covers \ (Cached \cup decoding)) \in Seq(Covers)
        /\ Range(Retained(q, Covers \ (Cached \cup decoding))) = Range(q) \cap (Covers \ (Cached \cup decoding))
        /\ IsInjective(Retained(q, Covers \ (Cached \cup decoding)))
    BY <2>1, RetainedIs
  <2> QED BY <2>1, <2>2 DEF q
<1>5. ToSet(wanted)' \cap decoding' = {}
  <2>1. ToSet(wanted)' = Range(wanted')
    BY DEF ToSet, Range
  <2> QED BY <1>2, <1>4, <2>1
<1> DEFINE seen == Retained(Screen, Cached)
           rest == Retained(covers, Covers \ Visible)
<1>6. seen \in Seq(Covers) /\ IsInjective(seen) /\ Range(seen) = Range(Screen) \cap Range(covers)
  <2>1. Cached = Range(covers)
    BY DEF Cached, ToSet, Range
  <2> QED BY <1>3, <2>1, RetainedIs
<1>7. rest \in Seq(Covers) /\ IsInjective(rest) /\ Range(rest) = Range(covers) \cap (Covers \ Range(Screen))
  <2>1. Visible = Range(Screen)
    BY DEF Visible, ToSet, Range
  <2> QED BY <1>1, <2>1, RetainedIs
<1>8. covers' = Reverse(seen) \o rest
  BY <1>2
<1> HIDE DEF seen, rest
<1>9. Reverse(seen) \in Seq(Covers) /\ IsInjective(Reverse(seen)) /\ Range(Reverse(seen)) = Range(seen)
  BY <1>6, Reversed
<1>10. /\ Reverse(seen) \o rest \in Seq(Covers) /\ IsInjective(Reverse(seen) \o rest)
       /\ Range(Reverse(seen) \o rest) = Range(seen) \cup Range(rest)
  <2> DEFINE q == Reverse(seen)
  <2>1. q \in Seq(Covers) /\ IsInjective(q) /\ Range(q) \cap Range(rest) = {} /\ Range(q) = Range(seen)
    BY <1>6, <1>7, <1>9
  <2> HIDE DEF q
  <2>2. /\ q \o rest \in Seq(Covers) /\ IsInjective(q \o rest) /\ Range(q \o rest) = Range(q) \cup Range(rest)
    BY <1>7, <2>1, Joined
  <2> QED BY <2>1, <2>2 DEF q
<1>11. Range(covers') = Range(covers)
  BY <1>1, <1>6, <1>7, <1>8, <1>10
<1>12. covers' \in Seq(Covers) /\ IsInjective(covers')
  BY <1>8, <1>10
<1>13. Len(covers') = Len(covers)
  BY <1>1, <1>11, <1>12, LengthOfInjective
<1>14. Queues'
  BY <1>1, <1>2, <1>4, <1>5, <1>12, <1>13 DEF Queues
<1>15. Cached' = Cached
  BY <1>11 DEF Cached, ToSet, Range
<1>16. Images'
  BY <1>2, <1>15 DEF CoverInv, Images
<1>17. ImagesAccounted'
  BY <1>2, <1>15 DEF CoverInv, ImagesAccounted, WallImages
<1> QED BY <1>14, <1>16, <1>17

(* The terminal forgets what left the cache, and nothing on the wall.      *)
LEMMA SettleKeeps ==
    ASSUME CoverInv, Settle
    PROVE  Images' /\ ImagesAccounted'
<1>1. /\ inTerminal' = inTerminal \ doomed /\ doomed' = {}
      /\ covers' = covers /\ imageOf' = imageOf
  BY DEF Settle
<1>2. Cached' = Cached /\ WallImages' = WallImages
  BY <1>1 DEF Cached, WallImages
<1>3. IsFiniteSet(inTerminal \ doomed)
  BY FS_Difference DEF CoverInv, Images
<1>4. Images'
  BY <1>1, <1>2, <1>3 DEF CoverInv, Images
<1>5. ImagesAccounted'
  BY <1>1, <1>2 DEF CoverInv, ImagesAccounted
<1> QED BY <1>4, <1>5

-----------------------------------------------------------------------------
\* Before the wall is first drawn nothing is wanted, decoded or held.
LEMMA CoverStart == CoverInit => CoverInv
<1> SUFFICES ASSUME CoverInit PROVE CoverInv
  OBVIOUS
<1> USE DEF CoverInit
<1>1. Queues
  <2>1. <<>> \in Seq(Covers) /\ Len(<<>>) = 0
    OBVIOUS
  <2>2. IsInjective(<<>>) /\ ToSet(<<>>) = {}
    BY DEF IsInjective, ToSet
  <2>3. 0 <= CoverCap
    BY CoverNumbers
  <2> QED BY <2>1, <2>2, <2>3 DEF Queues
<1>2. WorkersTyped
  BY DEF WorkersTyped
<1>3. LoopTyped
  <2>1. 1 \in Covers
    BY CoverNumbers DEF Covers
  <2>2. TRUE \in BOOLEAN /\ FALSE \in BOOLEAN
    OBVIOUS
  <2> QED BY <2>1, <2>2 DEF LoopTyped
<1>4. Marked /\ PanicCostsOneWorker
  BY DEF Marked, PanicCostsOneWorker
<1>5. Images
  BY FS_EmptySet DEF Images, NoId
<1>6. ImagesAccounted
  BY DEF ImagesAccounted, WallImages, Cached, ToSet
<1> QED BY <1>1, <1>2, <1>3, <1>4, <1>5, <1>6 DEF CoverInv

(* What a step does not touch.                                             *)
LEMMA PoolStays ==
    ASSUME CoverInv, UNCHANGED <<cw, decoding>>
    PROVE  Pool'
BY DEF CoverInv, Pool, WorkersTyped, Marked, PanicCostsOneWorker

\* A step that leaves the wall alone keeps what is said of it.
LEMMA WallStays ==
    ASSUME CoverInv, UNCHANGED wallVars
    PROVE  /\ Images' /\ ImagesAccounted'
           /\ covers' \in Seq(Covers) /\ IsInjective(covers') /\ Len(covers') <= CoverCap
BY DEF CoverInv, Queues, wallVars, Images, ImagesAccounted, WallImages, Cached

\* A step that leaves the queues alone keeps what is said of them.
LEMMA QueuesStay ==
    ASSUME CoverInv, UNCHANGED <<wanted, decoding, decoded, covers>>
    PROVE  Queues'
BY DEF CoverInv, Queues, ToSet

\* Every step of the loader keeps its invariant.
LEMMA CoverStep == CoverInv /\ [CoverNext]_coverVars => CoverInv'
<1> SUFFICES ASSUME CoverInv, [CoverNext]_coverVars PROVE CoverInv'
  OBVIOUS
<1> USE DEF poolVars, loopVars
<1>0. LoopTyped
  BY DEF CoverInv
<1>1. ASSUME NEW w \in CWorkers, Claim(w) PROVE CoverInv'
  <2>1. UNCHANGED <<shut, decoded, wallVars, loopVars>>
    BY <1>1 DEF Claim
  <2>2. Images' /\ ImagesAccounted' /\ covers' \in Seq(Covers) /\ IsInjective(covers') /\ Len(covers') <= CoverCap
    BY <2>1, WallStays
  <2>3. /\ Pool' /\ wanted' \in Seq(Covers) /\ IsInjective(wanted')
        /\ decoding' \subseteq Covers /\ ToSet(wanted)' \cap decoding' = {}
    BY <1>1, ClaimKeeps
  <2>4. Queues'
    BY <2>1, <2>2, <2>3 DEF CoverInv, Queues
  <2>5. LoopTyped'
    BY <2>1 DEF CoverInv, LoopTyped, wallVars
  <2> QED BY <2>2, <2>3, <2>4, <2>5 DEF CoverInv, Pool
<1>2. ASSUME NEW w \in CWorkers, Spurious(w) \/ Unmark(w) \/ Panic(w) \/ SendCover(w) PROVE CoverInv'
  <2>1. UNCHANGED <<wanted, shut, wallVars, loopVars>>
    BY <1>2 DEF Spurious, Unmark, Panic, SendCover
  <2>2. Images' /\ ImagesAccounted' /\ covers' \in Seq(Covers) /\ IsInjective(covers') /\ Len(covers') <= CoverCap
    BY <2>1, WallStays
  <2>3. Pool' /\ decoding' \subseteq decoding /\ decoded' \in Seq(Covers)
    BY <1>2, WorkerMoves
  <2>4. Queues'
    BY <2>1, <2>2, <2>3 DEF CoverInv, Queues, ToSet
  <2>5. LoopTyped'
    BY <2>1 DEF CoverInv, LoopTyped, wallVars
  <2> QED BY <2>2, <2>3, <2>4, <2>5 DEF CoverInv, Pool
<1>3. CASE Land
  <2>1. UNCHANGED <<wanted, decoding, shut, cw, gridPending, top, navDown, isGrid, cdirty, mainAt>> /\ landed' = TRUE
    BY <1>3 DEF Land
  <2>2. /\ Images' /\ ImagesAccounted' /\ decoded' \in Seq(Covers)
        /\ covers' \in Seq(Covers) /\ IsInjective(covers') /\ Len(covers') <= CoverCap
    BY <1>3, LandKeeps
  <2>3. Pool'
    BY <2>1, PoolStays
  <2>4. Queues'
    BY <2>1, <2>2 DEF CoverInv, Queues, ToSet
  <2>5. LoopTyped'
    BY <2>1 DEF CoverInv, LoopTyped
  <2> QED BY <2>2, <2>3, <2>4, <2>5 DEF CoverInv, Pool
<1>4. CASE Drained \/ NotePending \/ SkipGrid \/ (\E t \in Covers : ScrollTo(t)) \/ ToggleGrid
  <2>1. /\ UNCHANGED <<poolVars, covers, imageOf, doomed, inTerminal>>
        /\ top' \in Covers /\ mainAt' \in {"drain", "settle", "draw", "pend"}
    BY <1>0, <1>4 DEF Drained, NotePending, SkipGrid, ScrollTo, ToggleGrid, LoopTyped, wallVars
  <2>2. UNCHANGED <<cw, decoding>> /\ UNCHANGED <<wanted, decoding, decoded, covers>> /\ shut' = shut
    BY <2>1
  <2>3. gridPending' \in BOOLEAN /\ landed' \in BOOLEAN
    BY <1>0, <1>4 DEF Drained, NotePending, SkipGrid, ScrollTo, ToggleGrid, LoopTyped, wallVars, Pending
  <2>4. navDown' \in BOOLEAN /\ isGrid' \in BOOLEAN /\ cdirty' \in BOOLEAN
    <3>1. CASE Drained \/ NotePending
      BY <1>0, <3>1 DEF Drained, NotePending, LoopTyped
    <3>2. CASE SkipGrid
      BY <1>0, <3>2 DEF SkipGrid, LoopTyped
    <3>3. ASSUME NEW t \in Covers, ScrollTo(t)
          PROVE  navDown' \in BOOLEAN /\ isGrid' \in BOOLEAN /\ cdirty' \in BOOLEAN
      <4>1. (t > top) \in BOOLEAN
        OBVIOUS
      <4>2. navDown' = (t > top) /\ isGrid' = isGrid /\ cdirty' = TRUE
        BY <3>3 DEF ScrollTo
      <4> QED BY <1>0, <4>1, <4>2 DEF LoopTyped
    <3>4. CASE ToggleGrid
      BY <1>0, <3>4 DEF ToggleGrid, LoopTyped
    <3> QED BY <1>4, <3>1, <3>2, <3>3, <3>4
  <2>5. LoopTyped'
    BY <1>0, <2>1, <2>2, <2>3, <2>4 DEF LoopTyped
  <2>6. Pool' /\ Queues'
    BY <2>2, PoolStays, QueuesStay
  <2>7. Images' /\ ImagesAccounted'
    BY <2>1 DEF CoverInv, Images, ImagesAccounted, WallImages, Cached
  <2> QED BY <2>5, <2>6, <2>7 DEF CoverInv, Pool
<1>5. CASE Settle
  <2>1. /\ UNCHANGED <<poolVars, covers, imageOf, top, navDown, isGrid>>
        /\ mainAt' = "draw" /\ landed' = FALSE
    BY <1>5 DEF Settle
  <2>2. UNCHANGED <<cw, decoding>> /\ UNCHANGED <<wanted, decoding, decoded, covers>> /\ shut' = shut
    BY <2>1
  <2>3. gridPending' \in BOOLEAN
    BY <1>0, <1>5 DEF Settle, Pending, LoopTyped
  <2>4. cdirty' \in BOOLEAN
    BY <1>0, <1>5 DEF Settle, LoopTyped
  <2>5. LoopTyped'
    BY <1>0, <2>1, <2>2, <2>3, <2>4 DEF LoopTyped
  <2>6. Pool' /\ Queues'
    BY <2>2, PoolStays, QueuesStay
  <2>7. Images' /\ ImagesAccounted'
    BY <1>5, SettleKeeps
  <2> QED BY <2>5, <2>6, <2>7 DEF CoverInv, Pool
<1>6. CASE DrawGrid
  <2>1. /\ UNCHANGED <<shut, gridPending, top, navDown, isGrid, landed>>
        /\ mainAt' = "pend" /\ cdirty' = FALSE
    BY <1>6 DEF DrawGrid
  <2>2. LoopTyped'
    BY <1>0, <2>1 DEF LoopTyped
  <2>3. Pool'
    <3>1. decoding' = decoding /\ (cw' = WakeAll \/ cw' = cw)
      BY <1>6 DEF DrawGrid
    <3>2. Pool
      BY DEF CoverInv, Pool
    <3>3. CASE cw' = WakeAll
      BY <3>1, <3>2, <3>3, WakingKeepsThePool
    <3>4. CASE cw' = cw
      BY <3>1, <3>4, PoolStays
    <3> QED BY <3>1, <3>3, <3>4
  <2>4. Queues' /\ Images' /\ ImagesAccounted'
    BY <1>6, DrawKeeps
  <2> QED BY <2>2, <2>3, <2>4 DEF CoverInv, Pool
<1>7. CASE DropLoader
  <2>1. /\ UNCHANGED <<wanted, decoding, wallVars, loopVars>> /\ shut' = TRUE
        /\ cw' = WakeAll /\ decoded' = <<>>
    BY <1>7 DEF DropLoader
  <2>2. LoopTyped'
    BY <1>0, <2>1 DEF LoopTyped, wallVars
  <2>3. Pool'
    BY <2>1, WakingKeepsThePool DEF CoverInv, Pool
  <2>4. Images' /\ ImagesAccounted' /\ covers' \in Seq(Covers) /\ IsInjective(covers') /\ Len(covers') <= CoverCap
    BY <2>1, WallStays
  <2>5. <<>> \in Seq(Covers)
    OBVIOUS
  <2>6. Queues'
    BY <2>1, <2>4, <2>5 DEF CoverInv, Queues, ToSet
  <2> QED BY <2>2, <2>3, <2>4, <2>6 DEF CoverInv, Pool
<1>8. CASE UNCHANGED coverVars
  <2>1. UNCHANGED <<cw, decoding>> /\ UNCHANGED <<wanted, decoding, decoded, covers>> /\ UNCHANGED wallVars
        /\ shut' = shut /\ UNCHANGED <<top, navDown, isGrid, cdirty, mainAt, landed>>
    <3>1. UNCHANGED poolVars /\ UNCHANGED wallVars /\ UNCHANGED loopVars
      BY <1>8 DEF coverVars
    <3>2. UNCHANGED <<cw, decoding>> /\ UNCHANGED <<wanted, decoding, decoded>> /\ shut' = shut
      BY <3>1
    <3>3. covers' = covers
      BY <3>1 DEF wallVars
    <3>4. UNCHANGED <<top, navDown, isGrid, cdirty, mainAt, landed>>
      BY <3>1
    <3> QED BY <3>1, <3>2, <3>3, <3>4
  <2>2. Pool' /\ Queues' /\ Images' /\ ImagesAccounted'
    BY <2>1, PoolStays, QueuesStay, WallStays
  <2>3. LoopTyped'
    BY <1>0, <2>1 DEF LoopTyped, wallVars
  <2> QED BY <2>2, <2>3 DEF CoverInv, Pool
<1> QED BY <1>1, <1>2, <1>3, <1>4, <1>5, <1>6, <1>7, <1>8 DEF CoverNext

(* The inductive invariant of the covers' pool and of the wall, whatever   *)
(* the shelf, the screen, the cache and the number of workers              *)
(* (decode_loop, poll_grid_covers and ensure_grid_covers).                 *)
THEOREM CoverInvariance == CoverSpec => []CoverInv
<1>1. CoverInv /\ UNCHANGED coverVars => CoverInv'
  BY CoverStep
<1> QED BY CoverStart, CoverStep, PTL DEF CoverSpec

(* No two workers decode one book, a cover that makes the decoder panic    *)
(* costs one worker and no more, and every image the terminal holds is a   *)
(* cached cover's or about to be deleted (cover_loader.rs, library.rs).    *)
THEOREM NoImageLost == CoverSpec => []CoversAccounted
<1>1. CoverInv => CoversAccounted
  BY DEF CoverInv, CoversAccounted
<1> QED BY <1>1, CoverInvariance, PTL

(* The covers' variables have their types, and the cache never exceeds     *)
(* COVER_CAP nor holds a book twice (cover_loader.rs, library.rs).         *)
THEOREM CoverTypes == CoverSpec => []CoverTypeOK
<1>1. CoverInv => CoverTypeOK
  <2> SUFFICES ASSUME CoverInv PROVE CoverTypeOK
    OBVIOUS
  <2>1. ToSet(decoded) \subseteq Covers /\ Cached \subseteq Covers
    BY DEF CoverInv, Queues, ToSet, Cached
  <2>2. {shut, gridPending, navDown, isGrid, cdirty, landed} \subseteq BOOLEAN
    BY DEF CoverInv, LoopTyped
  <2> QED BY <2>1, <2>2 DEF CoverInv, CoverTypeOK, Queues, WorkersTyped, LoopTyped
<1> QED BY <1>1, CoverInvariance, PTL

-----------------------------------------------------------------------------
(* The metadata editor.                                                    *)

\* No request or list is of an editor still to come.
Openings ==
    /\ nth \in Nat
    /\ slot.nth \in 0 .. nth

\* The search under way is of the seed the tabs show, unless that one has
\* nothing to search for: then it is of any seed before it.
JobOfThisSeed ==
    (seedFrom # Blank /\ slot.kind \in {"Online", "Cover"} /\ slot.nth = nth) => slot.ver = seedFrom

EditorInv ==
    /\ Openings
    /\ JobOfThisSeed
    /\ ListedOfThisSeed
    /\ StagesWhatIsShown

-----------------------------------------------------------------------------
(* The shapes a step can have.                                             *)

\* A fresh editor has no lists and no preview, and the request the last one
\* left behind is not its own.
LEMMA FreshInv ==
    ASSUME EditorInv, NEW b, Fresh(b), UNCHANGED slot
    PROVE  EditorInv'
<1> USE DEF EditorInv, Fresh
<1>1. Openings'
  BY DEF Openings
<1>2. slot'.nth # nth'
  BY DEF Openings
<1>3. JobOfThisSeed'
  BY <1>2 DEF JobOfThisSeed
<1>4. ListedOfThisSeed' /\ StagesWhatIsShown'
  BY DEF ListedOfThisSeed, StagesWhatIsShown
<1> QED BY <1>1, <1>3, <1>4

\* What touches neither list, seed, receiver nor preview.
LEMMA ApartInv ==
    ASSUME EditorInv, UNCHANGED <<nth, seedFrom, results, hits, slot, previewCover, shown>>,
           editing' # NoBook => editing # NoBook
    PROVE  EditorInv'
BY DEF EditorInv, Openings, JobOfThisSeed, ListedOfThisSeed, StagesWhatIsShown

\* Esc and a save go to the next book of a bulk edit, stay, or close.
LEMMA AdvanceInv ==
    ASSUME EditorInv, UNCHANGED <<slot, shown>>,
           \/ Fresh(Head(queue))
           \/ Closed
           \/ UNCHANGED <<editing, nth, seedFrom, searches, previewCover>>
    PROVE  EditorInv'
<1>1. CASE Fresh(Head(queue))
  BY <1>1, FreshInv
<1>2. CASE Closed
  BY <1>2, ApartInv DEF Closed, searches
<1>3. CASE UNCHANGED <<editing, nth, seedFrom, searches, previewCover>>
  BY <1>3, ApartInv DEF searches
<1> QED BY <1>1, <1>2, <1>3

\* A new request is of this editor and this seed; the lists are kept or emptied.
LEMMA AskInv ==
    ASSUME EditorInv, NEW kind, NEW pic, slot' = Job(kind, pic),
           results' \in {results, NoHits}, hits' \in {hits, NoHits},
           \/ seedFrom' = seedFrom
           \/ results' = NoHits /\ hits' = NoHits,
           UNCHANGED <<nth, editing>>,
           \/ UNCHANGED <<previewCover, shown>>
           \/ previewCover' = NoPic
    PROVE  EditorInv'
<1> USE DEF EditorInv
<1>1. slot'.nth = nth' /\ slot'.ver = seedFrom'
  BY DEF Job
<1>2. Openings' /\ JobOfThisSeed'
  BY <1>1 DEF Openings, JobOfThisSeed
<1>3. ListedOfThisSeed'
  BY DEF ListedOfThisSeed
<1>4. StagesWhatIsShown'
  BY DEF StagesWhatIsShown
<1> QED BY <1>2, <1>3, <1>4

-----------------------------------------------------------------------------
(* The keys.                                                               *)

\* Keys that touch neither list, seed, receiver nor preview.
LEMMA ApartKeys ==
    ASSUME EditorInv,
           \/ ChangeDetails \/ OpenDiff \/ CancelDiff \/ MoveRow \/ StagePreview
           \/ AskSave \/ AnswerNo \/ \E b \in EBooks : Unlist(b)
    PROVE  EditorInv'
<1>1. /\ UNCHANGED <<nth, seedFrom, results, hits, slot, previewCover, shown>>
      /\ editing' = editing
  <2> USE DEF searches, preview, book
  <2>1. CASE ChangeDetails \/ OpenDiff \/ CancelDiff
    BY <2>1 DEF ChangeDetails, OpenDiff, CancelDiff
  <2>2. CASE MoveRow \/ StagePreview \/ AskSave \/ AnswerNo
    BY <2>2 DEF MoveRow, StagePreview, AskSave, AnswerNo
  <2>3. CASE \E b \in EBooks : Unlist(b)
    BY <2>3 DEF Unlist
  <2> QED BY <2>1, <2>2, <2>3
<1> QED BY <1>1, ApartInv

\* The keys that open the editor, on one book or on several.
LEMMA OpeningKeys ==
    ASSUME EditorInv, StartBulkEdit \/ \E b \in EBooks : OpenMetaEdit(b)
    PROVE  EditorInv'
<1>1. UNCHANGED slot /\ \E b : Fresh(b)
  BY DEF StartBulkEdit, OpenMetaEdit
<1> QED BY <1>1, FreshInv

\* The keys that leave the book being edited.
LEMMA LeavingKeys == ASSUME EditorInv, Skip \/ SaveMetaEdit PROVE EditorInv'
<1>1. UNCHANGED <<slot, shown>>
  BY DEF Skip, SaveMetaEdit
<1>2. CASE Skip
  <2>1. \/ Fresh(Head(queue)) \/ Closed
        \/ UNCHANGED <<editing, nth, seedFrom, searches, previewCover>>
    BY <1>2 DEF Skip, Advance
  <2> QED BY <1>1, <2>1, AdvanceInv
<1>3. CASE SaveMetaEdit
  <2>1. Fresh(Head(queue)) \/ Closed
    BY <1>3 DEF SaveMetaEdit, Advance
  <2> QED BY <1>1, <2>1, AdvanceInv
<1> QED BY <1>2, <1>3

\* A new search, which makes the answer under way stale, or one of a blank
\* query, which does nothing.
LEMMA SearchAgainInv == ASSUME EditorInv, SearchAgain PROVE EditorInv'
<1>1. UNCHANGED <<seedFrom, nth, editing, previewCover, shown>>
  BY DEF SearchAgain, book, preview
<1>2. CASE UNCHANGED <<searches, slot>>
  BY <1>1, <1>2, ApartInv DEF searches
<1>3. CASE Search(tab, [results |-> results, hits |-> hits])
  <2>1. /\ slot' = Job(tab, NoPic)
        /\ results' \in {results, NoHits} /\ hits' \in {hits, NoHits}
    BY <1>3 DEF Search
  <2> QED BY <1>1, <2>1, AskInv
<1> QED BY <1>2, <1>3 DEF SearchAgain

\* A tab of another seed has nothing, so it is searched, or its seed has
\* nothing to search for.
LEMMA GotoTabInv == ASSUME EditorInv, NEW t \in Tabs, GotoTab(t) PROVE EditorInv'
<1>1. UNCHANGED <<editing, nth, previewCover, shown>>
  BY DEF GotoTab, preview
<1>2. CASE t = "Details"
  BY <1>1, <1>2, ApartInv DEF GotoTab, searches
<1>3. CASE t # "Details"
  <2>1. seedFrom' = details
    BY <1>3 DEF GotoTab
  <2>2. CASE Search(t, Reseed)
    <3>1. slot' = Job(t, NoPic)
      BY <2>2 DEF Search
    <3>2. results' \in {results, NoHits} /\ hits' \in {hits, NoHits}
      BY <2>2 DEF Search, Reseed
    <3>3. seedFrom' = seedFrom \/ (results' = NoHits /\ hits' = NoHits)
      BY <2>1, <2>2 DEF Search, Reseed
    <3> QED BY <1>1, <3>1, <3>2, <3>3, AskInv
  <2>3. CASE ~ Search(t, Reseed)
    <3>1. /\ results' = Reseed.results /\ hits' = Reseed.hits /\ UNCHANGED slot
          /\ seedFrom = details \/ details = Blank
      BY <1>3, <2>3 DEF GotoTab, Reseed, Queries, Tabs
    <3>2. CASE seedFrom = details
      <4>1. UNCHANGED <<nth, seedFrom, results, hits, slot, previewCover, shown>>
        BY <1>1, <2>1, <3>1, <3>2 DEF Reseed
      <4> QED BY <1>1, <4>1, ApartInv
    <3>3. CASE details = Blank
      <4>1. seedFrom' = Blank
        BY <2>1, <3>3
      <4>2. Openings'
        BY <1>1, <3>1 DEF EditorInv, Openings
      <4>3. StagesWhatIsShown'
        BY <1>1 DEF EditorInv, StagesWhatIsShown
      <4> QED BY <4>1, <4>2, <4>3 DEF EditorInv, JobOfThisSeed, ListedOfThisSeed
    <3> QED BY <3>1, <3>2, <3>3
  <2> QED BY <2>2, <2>3
<1> QED BY <1>2, <1>3

\* The comparison applied, its cover chosen or not.
LEMMA ApplyDiffInv == ASSUME EditorInv, NEW c \in BOOLEAN, ApplyDiff(c) PROVE EditorInv'
<1>1. UNCHANGED <<editing, nth, seedFrom, results, hits, previewCover, shown>>
  BY DEF ApplyDiff, preview
<1>2. CASE slot' = Job("Chosen", <<diff, 0>>)
  BY <1>1, <1>2, AskInv
<1>3. CASE UNCHANGED slot
  BY <1>1, <1>3, ApartInv
<1> QED BY <1>2, <1>3 DEF ApplyDiff

-----------------------------------------------------------------------------
(* The worker and the loop's turn.                                         *)

\* An answer of the lookup's thread.
LEMMA AnswerInv == ASSUME EditorInv, Answer PROVE EditorInv'
<1>1. UNCHANGED <<editing, nth, seedFrom, results, hits, previewCover, shown>>
  BY DEF Answer, book, searches, preview
<1>2. slot'.nth = slot.nth /\ slot'.kind = slot.kind /\ slot'.ver = slot.ver
  BY DEF Answer
<1> QED BY <1>1, <1>2 DEF EditorInv, Openings, JobOfThisSeed, ListedOfThisSeed, StagesWhatIsShown

\* The answer taken or dropped by the main loop.
LEMMA PollOnlineInv == ASSUME EditorInv, NEW found \in BOOLEAN, PollOnline(found) PROVE EditorInv'
<1> USE DEF EditorInv
<1>1. slot' = NoJob /\ UNCHANGED <<editing, nth, seedFrom>>
  BY DEF PollOnline
<1>2. slot'.kind = "none" /\ slot'.nth = 0
  BY <1>1 DEF NoJob
<1>3. Openings' /\ JobOfThisSeed'
  BY <1>1, <1>2 DEF Openings, JobOfThisSeed
<1> DEFINE list == IF found THEN [of |-> slot.of, nth |-> slot.nth, ver |-> slot.ver] ELSE NoHits
           pic == IF found THEN slot.pic ELSE NoPic
<1>4. \/ UNCHANGED <<results, hits, previewCover, shown>>
      \/ /\ slot.kind = "Online" /\ results' = list
         /\ UNCHANGED <<hits, previewCover, shown>>
      \/ /\ slot.kind = "Cover" /\ hits' = list
         /\ UNCHANGED <<results, previewCover, shown>>
      \/ /\ previewCover' = pic /\ shown' = pic
         /\ UNCHANGED <<results, hits>>
  BY DEF PollOnline, searches, preview
<1>5. (seedFrom # Blank /\ slot.kind \in {"Online", "Cover"})
         => (list # NoHits /\ list.nth = nth => list.ver = seedFrom)
  BY DEF JobOfThisSeed
<1> HIDE DEF list, pic
<1>6. ListedOfThisSeed'
  BY <1>1, <1>4, <1>5 DEF ListedOfThisSeed
<1>7. StagesWhatIsShown'
  BY <1>1, <1>4 DEF StagesWhatIsShown
<1> QED BY <1>3, <1>6, <1>7

\* The preview aimed at a candidate, fetched, and its delay run out.
LEMMA PreviewInv == ASSUME EditorInv, Aim \/ Preview \/ Rest PROVE EditorInv'
<1>1. CASE Aim \/ Rest
  BY <1>1, ApartInv DEF Aim, Rest, book, searches
<1>2. CASE Preview
  <2>1. UNCHANGED <<editing, nth, seedFrom, results, hits>>
    BY <1>2 DEF Preview, book, searches
  <2>2. CASE Clear /\ UNCHANGED slot
    BY <2>1, <2>2 DEF Clear, EditorInv, Openings, JobOfThisSeed, ListedOfThisSeed, StagesWhatIsShown
  <2>3. CASE slot' = Job("Preview", Target) /\ UNCHANGED <<previewCover, shown>>
    BY <2>1, <2>3, AskInv
  <2> QED BY <1>2, <2>2, <2>3 DEF Preview
<1> QED BY <1>1, <1>2

-----------------------------------------------------------------------------
(* The theorems.                                                           *)

\* The editor is closed to begin with.
LEMMA EditorStart == EditorInit => EditorInv
BY DEF EditorInit, EditorInv, Openings, JobOfThisSeed, ListedOfThisSeed, StagesWhatIsShown, NoJob

\* Every step of the editor keeps its invariant.
LEMMA EditorNextInv == ASSUME EditorInv, [EditorNext]_editorVars PROVE EditorInv'
<1>1. CASE Key
  BY <1>1, ApartKeys, OpeningKeys, LeavingKeys, SearchAgainInv, GotoTabInv, ApplyDiffInv DEF Key
<1>2. CASE Answer
  BY <1>2, AnswerInv
<1>3. CASE EditorTurn \/ Rest
  BY <1>3, PollOnlineInv, PreviewInv DEF EditorTurn
<1>4. CASE UNCHANGED editorVars
  BY <1>4, ApartInv DEF editorVars, book, searches, preview
<1> QED BY <1>1, <1>2, <1>3, <1>4 DEF EditorNext

\* The inductive invariant of the editor's receiver.
THEOREM EditorInvariance == EditorSpec => []EditorInv
<1>1. EditorInv /\ [EditorNext]_editorVars => EditorInv'
  BY EditorNextInv
<1> QED BY EditorStart, <1>1, PTL DEF EditorSpec

\* What a search tab lists was asked for under the seed it shows, if that one
\* has something to search for, and what Enter would stage is the cover on
\* screen (poll_online, tick_preview, online_search, app/editor/lookup.rs),
\* although one receiver serves every request and outlives the editor.
THEOREM AnswersAreTheirs == EditorSpec => []AnswersBelong
<1>1. EditorInv => AnswersBelong
  BY DEF EditorInv, AnswersBelong
<1> QED BY EditorInvariance, <1>1, PTL
=============================================================================
