---------------------------- MODULE CoverLoader ----------------------------
(***************************************************************************)
(* The covers of the library's grid (app/cover_loader.rs, with its callers *)
(* in app/library.rs, view/library/grid.rs and the event loop).  The queue *)
(* is replaced by every frame; a pool of workers decodes off the lock; the *)
(* main thread keeps the covers in an LRU and tells the terminal to forget *)
(* the images it evicts.                                                   *)
(***************************************************************************)
EXTENDS Integers, Sequences, FiniteSets, SequencesExt, Subsequences

CONSTANTS
    CWorkers,    \* the pool's threads
    Shelf,       \* number of books in the list; a book is its index
    Page,        \* cells of one screen of the grid
    CoverCap,    \* COVER_CAP
    Coverless,   \* books without a cover: they decode to a negative
    Poison,      \* books whose cover makes the decoder panic
    Scrolls      \* bound: scrolls, and changes of layout, of one behaviour

Covers == 1..Shelf
NoId == 0
Nothing == 0

ASSUME CoverAssumption ==
    /\ CWorkers # {} /\ IsFiniteSet(CWorkers)
    /\ {Shelf, Page, CoverCap} \subseteq Nat \ {0} /\ Scrolls \in Nat
    /\ Coverless \subseteq Covers /\ Poison \subseteq Covers

VARIABLES
    wanted,      \* Queue.wanted: sequence of books, most urgent first
    decoding,    \* Queue.decoding
    shut,        \* Queue.closed
    cw,          \* worker -> [at, book]
    decoded,     \* the result channel, in order
    covers,      \* LibraryState.grid_covers: most recently used first
    imageOf,     \* book -> terminal image of its cached cover, or NoId
    doomed,      \* LibraryState.grid_deletes
    inTerminal,  \* images the terminal holds
    gridPending, \* LibraryState.grid_pending
    top, navDown, isGrid, moves,
    cdirty,      \* the event loop's dirty
    mainAt,      \* where the main thread is in its turn
    landed,      \* whether this turn's drain took anything
    painted      \* ghost: covers in the last frame

poolVars == <<wanted, decoding, shut, cw, decoded>>
wallVars == <<covers, imageOf, doomed, inTerminal, gridPending>>
loopVars == <<top, navDown, isGrid, moves, cdirty, mainAt, landed, painted>>
coverVars == <<poolVars, wallVars, loopVars>>

Cached == ToSet(covers)
(* The visible cells, in reading order, and a screenful beyond them in the *)
(* direction of travel, nearest first.                                     *)
Books(lo, hi) == [i \in 1 .. (IF hi < lo THEN 0 ELSE hi - lo + 1) |-> lo + i - 1]
Least(a, b) == IF a < b THEN a ELSE b
Screen == Books(top, Least(top + Page - 1, Shelf))
Ahead ==
    IF navDown
    THEN Books(top + Page, Least(top + 2 * Page - 1, Shelf))
    ELSE Reverse(Books(IF top > Page THEN top - Page ELSE 1, top - 1))
Visible == ToSet(Screen)
OnWall(b) == isGrid /\ b \in Visible

CoverInit ==
    /\ wanted = <<>> /\ decoding = {} /\ shut = FALSE /\ decoded = <<>>
    /\ cw = [w \in CWorkers |-> [at |-> "enter", book |-> Nothing]]
    /\ covers = <<>> /\ imageOf = [b \in Covers |-> NoId]
    /\ doomed = {} /\ inTerminal = {} /\ gridPending = FALSE
    /\ top = 1 /\ navDown = TRUE /\ isGrid = TRUE /\ moves = 0
    /\ cdirty = TRUE /\ mainAt = "drain" /\ landed = FALSE /\ painted = {}

----------------------------------------------------------------------------
(* The pool.                                                               *)

Entering(w) == [cw EXCEPT ![w] = [at |-> "enter", book |-> Nothing]]
WakeAll == [w \in CWorkers |->
    IF cw[w].at = "wait" THEN [cw[w] EXCEPT !.at = "enter"] ELSE cw[w]]

(* decode_loop under the lock: leave, take the front, or wait.             *)
Claim(w) ==
    /\ cw[w].at = "enter"
    /\ \/ /\ shut
          /\ cw' = [cw EXCEPT ![w].at = "done"]
          /\ UNCHANGED <<wanted, decoding>>
       \/ /\ ~shut /\ wanted # <<>>
          /\ cw' = [cw EXCEPT ![w] = [at |-> "decode", book |-> Head(wanted)]]
          /\ wanted' = Tail(wanted)
          /\ decoding' = decoding \cup {Head(wanted)}
       \/ /\ ~shut /\ wanted = <<>>
          /\ cw' = [cw EXCEPT ![w].at = "wait"]
          /\ UNCHANGED <<wanted, decoding>>
    /\ UNCHANGED <<shut, decoded, wallVars, loopVars>>

(* A wait may return without a notify.                                     *)
Spurious(w) ==
    /\ cw[w].at = "wait"
    /\ cw' = Entering(w)
    /\ UNCHANGED <<wanted, decoding, shut, decoded, wallVars, loopVars>>

(* The decode ended: the mark goes before the answer is sent.              *)
Unmark(w) ==
    /\ cw[w].at = "decode" /\ cw[w].book \notin Poison
    /\ decoding' = decoding \ {cw[w].book}
    /\ cw' = [cw EXCEPT ![w].at = "send"]
    /\ UNCHANGED <<wanted, shut, decoded, wallVars, loopVars>>

(* A panic in the decoder ends the thread; its mark stays.                 *)
Panic(w) ==
    /\ cw[w].at = "decode" /\ cw[w].book \in Poison
    /\ cw' = [cw EXCEPT ![w].at = "dead"]
    /\ UNCHANGED <<wanted, decoding, shut, decoded, wallVars, loopVars>>

(* The receiver is dropped with the loader, which ends the worker.         *)
SendCover(w) ==
    /\ cw[w].at = "send"
    /\ IF shut
       THEN cw' = [cw EXCEPT ![w].at = "done"] /\ UNCHANGED decoded
       ELSE cw' = Entering(w) /\ decoded' = Append(decoded, cw[w].book)
    /\ UNCHANGED <<wanted, decoding, shut, wallVars, loopVars>>

Pending == wanted # <<>> \/ decoding # {}

----------------------------------------------------------------------------
(* The main thread: one turn of the loop drains, settles, draws.           *)

(* The image of a freshly wrapped cover: one the terminal does not hold.   *)
FreshImage(b) ==
    IF b \in Coverless THEN NoId
    ELSE CHOOSE i \in 1 .. (Cardinality(inTerminal) + 1) : i \notin inTerminal

(* LruCache::push replaces the value of a key it holds, or evicts the      *)
(* oldest when full; it hands back the value that left.                    *)
Leaving(b) == IF b \in Cached \/ Len(covers) < CoverCap THEN b ELSE Last(covers)

ImagesLeaving(S) == {imageOf[x] : x \in S \cap Covers} \ {NoId}
(* What leaves the cache has its image queued for deletion.                *)
Doomed(b) == ImagesLeaving({Leaving(b)})

(* poll_grid_covers: the answers in the order they came, each wrapped and  *)
(* pushed.                                                                 *)
Land ==
    /\ mainAt = "drain" /\ ~shut /\ decoded # <<>>
    /\ LET b == Head(decoded)
       IN /\ covers' = <<b>> \o Retained(covers, Covers \ {b, Leaving(b)})
          /\ imageOf' = [imageOf EXCEPT ![Leaving(b)] = NoId, ![b] = FreshImage(b)]
          /\ inTerminal' = inTerminal \cup ({FreshImage(b)} \ {NoId})
          /\ doomed' = doomed \cup Doomed(b)
    /\ decoded' = Tail(decoded) /\ landed' = TRUE
    /\ UNCHANGED <<wanted, decoding, shut, cw, gridPending, top, navDown,
                   isGrid, moves, cdirty, mainAt, painted>>

Drained ==
    /\ mainAt = "drain" /\ ~shut /\ decoded = <<>>
    /\ mainAt' = "settle"
    /\ UNCHANGED <<poolVars, wallVars, top, navDown, isGrid, moves, cdirty, landed, painted>>

(* (mutant: only a pending grid is redrawn, not one something landed in)   *)
SettleUnseen ==
    /\ mainAt = "settle"
    /\ gridPending' = IF landed THEN Pending ELSE gridPending
    /\ cdirty' = (cdirty \/ (isGrid /\ gridPending'))
    /\ inTerminal' = inTerminal \ doomed /\ doomed' = {}
    /\ mainAt' = "draw" /\ landed' = FALSE
    /\ UNCHANGED <<poolVars, covers, imageOf, top, navDown, isGrid, moves, painted>>

(* Its answer, lib_grid_pending and take_image_deletes.                    *)
Settle ==
    /\ mainAt = "settle"
    /\ gridPending' = IF landed THEN Pending ELSE gridPending
    /\ cdirty' = (cdirty \/ landed \/ (isGrid /\ gridPending'))
    /\ inTerminal' = inTerminal \ doomed /\ doomed' = {}
    /\ mainAt' = "draw" /\ landed' = FALSE
    /\ UNCHANGED <<poolVars, covers, imageOf, top, navDown, isGrid, moves, painted>>

(* (mutant: a book being decoded is queued again)                          *)
WantedAgain == Retained(Screen \o Ahead, Covers \ Cached)

(* set_wanted: visible cells, then the margin, less what is cached and     *)
(* what is being decoded.                                                  *)
Wanted == Retained(Screen \o Ahead, Covers \ (Cached \cup decoding))

(* Drawing touches the visible covers, in their order.                     *)
Touched ==
    Reverse(Retained(Screen, Cached)) \o Retained(covers, Covers \ Visible)

(* A frame of the grid: ensure_grid_covers replaces the queue and wakes    *)
(* the pool, and the cells are drawn.                                      *)
DrawGrid ==
    /\ mainAt = "draw" /\ cdirty /\ isGrid
    /\ wanted' = Wanted
    /\ cw' = IF Wanted # <<>> THEN WakeAll ELSE cw
    /\ covers' = Touched
    /\ cdirty' = FALSE /\ mainAt' = "pend" /\ painted' = Visible \cap Cached
    /\ UNCHANGED <<decoding, shut, decoded, imageOf, doomed, inTerminal,
                   gridPending, top, navDown, isGrid, moves, landed>>

(* The end of ensure_grid_covers takes the lock a second time.             *)
NotePending ==
    /\ mainAt = "pend"
    /\ gridPending' = Pending
    /\ mainAt' = "drain"
    /\ UNCHANGED <<poolVars, covers, imageOf, doomed, inTerminal, top, navDown,
                   isGrid, moves, cdirty, landed, painted>>

(* Nothing to draw, or a frame of another view.                            *)
SkipGrid ==
    /\ mainAt = "draw" /\ ~(cdirty /\ isGrid)
    /\ cdirty' = FALSE /\ mainAt' = "drain"
    /\ painted' = IF cdirty THEN {} ELSE painted
    /\ UNCHANGED <<poolVars, wallVars, top, navDown, isGrid, moves, landed>>

(* A key, read at the head of a turn: scroll a screen, or change layout.   *)
ScrollTo(t) ==
    /\ mainAt = "drain" /\ ~shut /\ moves < Scrolls /\ isGrid
    /\ t \in {top - Page, top + Page}
    /\ top' = t /\ navDown' = (t > top)
    /\ moves' = moves + 1 /\ cdirty' = TRUE
    /\ UNCHANGED <<poolVars, wallVars, isGrid, mainAt, landed, painted>>

ToggleGrid ==
    /\ mainAt = "drain" /\ ~shut /\ moves < Scrolls
    /\ isGrid' = ~isGrid /\ moves' = moves + 1 /\ cdirty' = TRUE
    /\ UNCHANGED <<poolVars, wallVars, top, navDown, mainAt, landed, painted>>

(* Leaving the program drops the loader.                                   *)
DropLoader ==
    /\ mainAt = "drain" /\ ~shut
    /\ shut' = TRUE /\ cw' = WakeAll /\ decoded' = <<>>
    /\ UNCHANGED <<wanted, decoding, wallVars, loopVars>>

CoverNext ==
    \/ \E w \in CWorkers : Claim(w) \/ Spurious(w) \/ Unmark(w) \/ Panic(w) \/ SendCover(w)
    \/ Land \/ Drained \/ Settle \/ DrawGrid \/ NotePending \/ SkipGrid
    \/ \E t \in Covers : ScrollTo(t)
    \/ ToggleGrid \/ DropLoader

(* Threads run, and the loop turns at least every 250 ms.                  *)
CoverWorker(w) == Claim(w) \/ Unmark(w) \/ Panic(w) \/ SendCover(w)
CoverTurn == Land \/ Drained \/ Settle \/ DrawGrid \/ NotePending \/ SkipGrid
CoverFairness ==
    /\ \A w \in CWorkers : WF_coverVars(CoverWorker(w))
    /\ WF_coverVars(CoverTurn)
CoverSpec == CoverInit /\ [][CoverNext]_coverVars /\ CoverFairness

----------------------------------------------------------------------------
Dead == {w \in CWorkers : cw[w].at = "dead"}

CoverTypeOK ==
    /\ wanted \in Seq(Covers) /\ IsInjective(wanted) /\ decoding \subseteq Covers
    /\ cw \in [CWorkers -> [at : {"enter", "wait", "decode", "send", "dead", "done"},
                            book : Covers \cup {Nothing}]]
    /\ ToSet(decoded) \subseteq Covers
    /\ IsInjective(covers) /\ Cached \subseteq Covers /\ Len(covers) <= CoverCap
    /\ {shut, gridPending, navDown, isGrid, cdirty, landed} \subseteq BOOLEAN
    /\ top \in Covers /\ mainAt \in {"drain", "settle", "draw", "pend"}

(* No two workers decode one book at once, though the queue is rebuilt in  *)
(* between; and a cover that makes the decoder panic costs one worker and  *)
(* no more, however often its cell is drawn: the mark the dead worker left *)
(* keeps it from being offered to the next one.                            *)
PanicCostsOneWorker ==
    \A v, w \in CWorkers :
        (v # w /\ {cw[v].at, cw[w].at} \subseteq {"decode", "dead"}) => cw[v].book # cw[w].book

(* The terminal's images are the cached covers' and those about to be      *)
(* deleted: a cover decoded twice, or evicted, leaves no image behind, and *)
(* no image on the wall is deleted.                                        *)
WallImages == {imageOf[b] : b \in Cached} \ {NoId}
ImagesAccounted ==
    /\ inTerminal = WallImages \cup doomed
    /\ WallImages \cap doomed = {}
(* The books the workers hold and the images the terminal holds are each   *)
(* accounted for once.                                                     *)
CoversAccounted == PanicCostsOneWorker /\ ImagesAccounted

(* Visible covers appear without a key, though an answer may arrive after  *)
(* its mark is gone and while the loop waits.                              *)
Unpainted ==
    /\ isGrid /\ ~shut /\ Cardinality(Poison) < Cardinality(CWorkers)
    /\ ~(Visible \ Poison \subseteq painted)
CoverAppears == []<>~Unpainted

(* Once scrolling stops the loop stops drawing, unless a worker died.      *)
WallRests == <>[](~cdirty \/ Dead # {} \/ shut)
(* Together: a wall of covers without keys is shown whole and then rests.  *)
WallSettles == CoverAppears /\ WallRests
=============================================================================
