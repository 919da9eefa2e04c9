---------------------------- MODULE SectionLoader ----------------------------
(***************************************************************************)
(* The decoded-section cache of an open book and its background loader.    *)
(*                                                                         *)
(* Two threads share two channels and one atomic.  The main thread (the    *)
(* `Reader`) keeps a cache of decoded sections, asks the loader for the    *)
(* ones it will want, and publishes the section it is on.  The loader      *)
(* thread takes one request at a time, drops it when the reader has moved  *)
(* more than LOADER_RADIUS away, and otherwise decodes it under whatever   *)
(* equation settings the process-wide atomics hold at that moment.         *)
(*                                                                         *)
(* What a decode produces is abstracted to the settings it was made under: *)
(* `set` stands for the values of reader/math.rs's ENABLED,                *)
(* INLINE_ENABLED, EM_PX, INLINE_EM_PX and BREAK_WIDE, `ref` for           *)
(* BOOK_REF_GEN.  Everything else about a section's text is left out.      *)
(***************************************************************************)
EXTENDS Integers, Sequences, FiniteSets

CONSTANTS
    NumSections,   \* doc.section_count()
    Start,         \* the section the book opens at
    Radius,        \* LOADER_RADIUS
    Ahead,         \* prefetch_neighbors' `ahead` for this kind of document
    CacheCap,      \* CACHE_CAP
    Paged,         \* is_paged_image(): a PDF, fetched asynchronously
    Flows,         \* the Continuous setting (stacked pages, joined chapters)
    Reach,         \* bound: how far past the anchor one frame can look
    MaxSettings,   \* bound: how often the equation settings change
    MaxRef,        \* bound: how often the book's reference em shifts
    NoBlocks       \* the answer to a request dropped as stale

Sections == 0 .. NumSections - 1

Dist(a, b) == IF a > b THEN a - b ELSE b - a

ASSUME SectionLoaderAssumption ==
    /\ NumSections \in Nat \ {0}
    /\ Start \in Sections
    /\ Radius \in Nat /\ Ahead \in Nat /\ Reach \in Nat
    /\ CacheCap \in Nat \ {0}
    /\ Paged \in BOOLEAN /\ Flows \in BOOLEAN
    /\ MaxSettings \in Nat /\ MaxRef \in Nat
    /\ NoBlocks \notin [set : Nat, ref : Nat]

\* The radius "must cover the neighbour-prefetch window" (state/cache.rs).
ASSUME RadiusCoversWindow == Ahead <= Radius

\* A decoded section, by the equation settings in force when it was decoded.
Content == [set : Nat, ref : Nat]

VARIABLES
    section,       \* Reader.section
    shown,         \* Reader.blocks: what is wrapped and drawn
    navBack,       \* nav.nav_back: the last move went towards the start
    cache,         \* sections.sections: section -> content
    requested,     \* sections.requested
    reqQ,          \* the request channel
    resQ,          \* the answer channel
    loaderCurrent, \* the atomic the loader thread reads
    worker,        \* the loader thread: [pc, index, answer]
    settings,      \* the equation atomics, as a generation
    refGen,        \* BOOK_REF_GEN
    refSeen,       \* BOOK_REF_SEEN
    open           \* the reader still holds its ends of the channels

mainVars   == <<section, shown, navBack, cache, requested, loaderCurrent>>
globalVars == <<settings, refGen, refSeen>>
vars == <<mainVars, reqQ, resQ, worker, globalVars, open>>

-----------------------------------------------------------------------------
(* The main thread's helpers.                                              *)

Indices(q) == 1 .. Len(q)

\* drain_loader: every answer in the channel leaves `requested`, and the
\* ones that carry blocks are inserted, a later one over an earlier one.

Answered == {resQ[i].index : i \in Indices(resQ)}

Carrying(s) == {i \in Indices(resQ) : resQ[i].index = s /\ resQ[i].answer # NoBlocks}
Landed == {s \in Answered : Carrying(s) # {}}
Newest(s) == CHOOSE i \in Carrying(s) : \A j \in Carrying(s) : j <= i

Drained(c) == [s \in DOMAIN c \cup Landed |->
                  IF s \in Landed THEN resQ[Newest(s)].answer ELSE c[s]]

\* fetch_blocks on a reflowable book: decoded inline when it is not cached.
Fetched(c, s, content) ==
    IF s \in DOMAIN c THEN c ELSE [t \in DOMAIN c \cup {s} |-> IF t = s THEN content ELSE c[t]]

\* The neighbours prefetch_neighbors asks for, and how early: the direction
\* of travel first, nearest first.  The section itself, when it has to be
\* asked for too, was asked for before them.
Window(sec) == {t \in Sections : t # sec /\ Dist(t, sec) <= Ahead}
Rank(sec, back) ==
    [t \in Sections |-> IF t = sec THEN 0
                        ELSE IF (t < sec) = back THEN Dist(t, sec)
                        ELSE NumSections + Dist(t, sec)]

\* The ways to send the sections of W by rising rank (there is exactly one).
InOrder(W, rank) ==
    {q \in [1 .. Cardinality(W) -> W] :
        /\ \A t \in W : \E i \in DOMAIN q : q[i] = t
        /\ \A i, j \in DOMAIN q : i < j => rank[q[i]] < rank[q[j]]}

\* evict: while over CACHE_CAP the farthest section other than the current
\* one goes.  Two equally far ones leave in hash-map order: either may.
\* (mutant: the section shown may be the one that goes)
KeptAnyHalf(c, sec) ==
    IF Cardinality(DOMAIN c) <= CacheCap THEN {DOMAIN c}
    ELSE {K \in SUBSET DOMAIN c : Cardinality(K) = CacheCap}

Kept(c, sec) ==
    IF Cardinality(DOMAIN c) <= CacheCap THEN {DOMAIN c}
    ELSE {K \in SUBSET DOMAIN c :
            /\ Cardinality(K) = CacheCap
            /\ sec \in DOMAIN c => sec \in K
            /\ \A k \in K \ {sec} : \A d \in (DOMAIN c) \ K : Dist(k, sec) <= Dist(d, sec)}

Evicted(c, K) == [s \in K |-> c[s]]

\* `requested.insert(t)` before `send`: only what is neither cached nor
\* already asked for goes out.
\* (mutant: `requested` is not consulted)
NeededAgain(W, c, r) == {t \in W : t \notin DOMAIN c}

Needed(W, c, r) == {t \in W : t \notin DOMAIN c /\ t \notin r}

\* What drawing a frame may look for past the anchor: every band of the page
\* stack (capture_page_stack), or the first following section whose wrapped
\* lines are not at hand (continuous_lines stops there).
\* (mutant: the stack leaves its bands to the prefetch)
LooksNowhere == {{}}

Looks ==
    IF ~Flows THEN {{}}
    ELSE IF Paged THEN {{t \in Sections : t \in section .. section + k} : k \in 0 .. Reach}
    ELSE {{}} \cup {{t} : t \in {u \in Sections : u \in section + 1 .. section + Reach}}

\* A decode may shift the book's reference em.
Ticks(decodes) == IF decodes /\ refGen < MaxRef THEN {refGen, refGen + 1} ELSE {refGen}

\* prefetch_neighbors from cache c and requests r at section sec; `own` is
\* the section itself when fetch_blocks had to ask for it, `looks` what the
\* rest of the handler asks for once the cache is back in bounds.
AskAndEvict(c, r, sec, back, own, looks) ==
    \E K \in Kept(c, sec) :
        LET kept   == Evicted(c, K)
            first  == Needed(Window(sec) \cup own, c, r)
            second == Needed(looks, kept, r \cup first)
        IN  /\ \E q \in InOrder(first, Rank(sec, back)), p \in InOrder(second, Rank(sec, FALSE)) :
                  reqQ' = reqQ \o q \o p
            /\ requested' = r \cup first \cup second
            /\ cache' = kept

-----------------------------------------------------------------------------
(* The main thread's handlers.                                             *)

FirstContent == [set |-> 0, ref |-> 0]

\* Reader::new: the start section is decoded inline, its neighbours asked for.
Init ==
    /\ section = Start
    /\ shown = FirstContent
    /\ navBack = FALSE
    /\ cache = [s \in {Start} |-> FirstContent]
    /\ requested = Window(Start)
    /\ reqQ \in InOrder(Window(Start), Rank(Start, FALSE))
    /\ resQ = <<>>
    /\ loaderCurrent = Start
    /\ worker = [pc |-> "idle", index |-> Start, answer |-> NoBlocks]
    /\ settings = 0 /\ refGen = 0 /\ refSeen = 0
    /\ open = TRUE

\* load, goto and move_anchor: re-point the reader and the loader, fetch the
\* section, prefetch around it.  A PDF page that is not cached is left empty.
Go(s) ==
    /\ open
    /\ section' = s
    /\ navBack' = (s < section)
    /\ loaderCurrent' = s
    /\ LET c == Drained(cache)
           r == requested \ Answered
       IN  \/ /\ Paged
              /\ shown' = IF s \in DOMAIN c THEN c[s] ELSE NoBlocks
              /\ refGen' = refGen
              /\ AskAndEvict(c, r, s, s < section, {s}, {})
           \/ /\ ~Paged
              /\ \E ref \in Ticks(s \notin DOMAIN c) :
                   LET f == Fetched(c, s, [set |-> settings, ref |-> ref])
                   IN  /\ shown' = f[s]
                       /\ refGen' = ref
                       /\ AskAndEvict(f, r, s, s < section, {}, {})
    /\ resQ' = <<>>
    /\ UNCHANGED <<worker, settings, refSeen, open>>

\* move_paged_anchor: the page stack rolls to a neighbour band.  The page it
\* lands on is not fetched here; drawing the stack asks for it.
Roll(s) ==
    /\ open /\ Paged /\ Flows
    /\ Dist(s, section) = 1
    /\ section' = s
    /\ navBack' = (s < section)
    /\ loaderCurrent' = s
    /\ AskAndEvict(Drained(cache), requested \ Answered, s, s < section, {}, {})
    /\ resQ' = <<>>
    /\ UNCHANGED <<shown, worker, globalVars, open>>

\* Search, the book-wide code list and the footnote hunt fetch every section
\* in turn, and evict nothing.
ScanBook ==
    /\ open
    /\ LET c == Drained(cache)
           r == requested \ Answered
           absent == Sections \ DOMAIN c
       IN  \/ /\ Paged
              /\ \E q \in InOrder(absent \ r, [t \in Sections |-> t]) : reqQ' = reqQ \o q
              /\ requested' = r \cup absent
              /\ cache' = c
              /\ refGen' = refGen
           \/ /\ ~Paged
              /\ \E ref \in Ticks(absent # {}) :
                   /\ cache' = [t \in Sections |->
                                  IF t \in absent THEN [set |-> settings, ref |-> ref] ELSE c[t]]
                   /\ refGen' = ref
              /\ requested' = r
              /\ reqQ' = reqQ
    /\ resQ' = <<>>
    /\ UNCHANGED <<section, shown, navBack, loaderCurrent, worker, settings, refSeen, open>>

\* One turn of the event loop over a PDF: poll_loader collects the answers.
Poll ==
    /\ open /\ Paged
    /\ resQ # <<>>
    /\ cache' = Drained(cache)
    /\ requested' = requested \ Answered
    /\ resQ' = <<>>
    /\ UNCHANGED <<section, shown, navBack, loaderCurrent, reqQ, worker, globalVars, open>>

\* Drawing the stack of a PDF asks for every band that is on screen.
DrawStack ==
    /\ open /\ Paged /\ Flows
    /\ \E F \in Looks :
         LET W == Needed(F, cache, requested)
         IN  /\ \E q \in InOrder(W, Rank(section, FALSE)) : reqQ' = reqQ \o q
             /\ requested' = requested \cup W
    /\ UNCHANGED <<section, shown, navBack, cache, loaderCurrent, resQ, worker, globalVars, open>>

\* Drawing reflowed text with the equation settings as they were and no shift
\* of the reference em: collect the answers, look for what follows.
DrawText ==
    /\ open /\ ~Paged
    /\ refGen = refSeen
    /\ cache' = Drained(cache)
    /\ LET r == requested \ Answered
       IN  \E F \in Looks :
             LET W == Needed(F, cache', r)
             IN  /\ \E q \in InOrder(W, Rank(section, FALSE)) : reqQ' = reqQ \o q
                 /\ requested' = r \cup W
    /\ resQ' = <<>>
    /\ UNCHANGED <<section, shown, navBack, loaderCurrent, worker, globalVars, open>>

\* sync_graphical_math on a change, then invalidate_sections: the cache and
\* the requests are dropped BEFORE fetch_blocks drains the channel.
DrawNewSettings ==
    /\ open /\ ~Paged
    /\ settings < MaxSettings
    /\ settings' = settings + 1
    /\ LET c == Drained(<<>>)
       IN  \E ref \in Ticks(section \notin DOMAIN c) :
             LET f == Fetched(c, section, [set |-> settings', ref |-> ref])
             IN  /\ shown' = f[section]
                 /\ refGen' = ref
                 /\ \E F \in Looks : AskAndEvict(f, {}, section, navBack, {}, F)
    /\ resQ' = <<>>
    /\ UNCHANGED <<section, navBack, loaderCurrent, worker, refSeen, open>>

\* resize_offscreen_on_ref_shift: everything but the section on screen goes,
\* again before prefetch_neighbors drains the channel.
\* (mutant: the answers drained here leave their marks behind)
DrawAfterShiftKeepsMark ==
    /\ open /\ ~Paged
    /\ refGen # refSeen
    /\ refSeen' = refGen
    /\ LET c == Drained(Evicted(cache, DOMAIN cache \cap {section}))
       IN  \E F \in Looks : AskAndEvict(c, requested \cap {section}, section, navBack, {}, F)
    /\ resQ' = <<>>
    /\ UNCHANGED <<section, shown, navBack, loaderCurrent, worker, settings, refGen, open>>

DrawAfterShift ==
    /\ open /\ ~Paged
    /\ refGen # refSeen
    /\ refSeen' = refGen
    /\ LET c == Drained(Evicted(cache, DOMAIN cache \cap {section}))
           r == (requested \cap {section}) \ Answered
       IN  \E F \in Looks : AskAndEvict(c, r, section, navBack, {}, F)
    /\ resQ' = <<>>
    /\ UNCHANGED <<section, shown, navBack, loaderCurrent, worker, settings, refGen, open>>

\* close_book drops the reader, and with it its ends of both channels.
Close ==
    /\ open
    /\ open' = FALSE
    /\ UNCHANGED <<mainVars, reqQ, resQ, worker, globalVars>>

-----------------------------------------------------------------------------
(* The loader thread.                                                      *)

Recv ==
    /\ worker.pc = "idle" /\ reqQ # <<>>
    /\ worker' = [worker EXCEPT !.pc = "judge", !.index = Head(reqQ)]
    /\ reqQ' = Tail(reqQ)
    /\ UNCHANGED <<mainVars, resQ, globalVars, open>>

\* (mutant: the radius is one short)
JudgeOneShort ==
    /\ worker.pc = "judge"
    /\ worker' = IF Dist(worker.index, loaderCurrent) >= Radius
                 THEN [worker EXCEPT !.pc = "answer", !.answer = NoBlocks]
                 ELSE [worker EXCEPT !.pc = "decode"]
    /\ UNCHANGED <<mainVars, reqQ, resQ, globalVars, open>>

Judge ==
    /\ worker.pc = "judge"
    /\ worker' = IF Dist(worker.index, loaderCurrent) > Radius
                 THEN [worker EXCEPT !.pc = "answer", !.answer = NoBlocks]
                 ELSE [worker EXCEPT !.pc = "decode"]
    /\ UNCHANGED <<mainVars, reqQ, resQ, globalVars, open>>

\* loader.load and the equation conversions, which read the atomics and may
\* publish a shifted reference em.
Decode ==
    /\ worker.pc = "decode"
    /\ \E ref \in Ticks(~Paged) :
         /\ refGen' = ref
         /\ worker' = [worker EXCEPT !.pc = "answer", !.answer = [set |-> settings, ref |-> ref]]
    /\ UNCHANGED <<mainVars, reqQ, resQ, settings, refSeen, open>>

Answer ==
    /\ worker.pc = "answer"
    /\ \/ /\ open
          /\ resQ' = Append(resQ, [index |-> worker.index, answer |-> worker.answer])
          /\ worker' = [worker EXCEPT !.pc = "idle"]
       \/ /\ ~open
          /\ resQ' = resQ
          /\ worker' = [worker EXCEPT !.pc = "done"]
    /\ UNCHANGED <<mainVars, reqQ, globalVars, open>>

\* recv fails once the sender is gone and the channel is empty.
\* (mutant: a failed recv is retried)
HangupRetries ==
    /\ worker.pc = "idle" /\ ~open /\ reqQ = <<>>
    /\ UNCHANGED vars

Hangup ==
    /\ worker.pc = "idle" /\ ~open /\ reqQ = <<>>
    /\ worker' = [worker EXCEPT !.pc = "done"]
    /\ UNCHANGED <<mainVars, reqQ, resQ, globalVars, open>>

Loader == Recv \/ Judge \/ Decode \/ Answer \/ Hangup

Reader ==
    \/ \E s \in Sections : Go(s) \/ Roll(s)
    \/ ScanBook \/ Poll \/ DrawStack \/ DrawText \/ DrawNewSettings \/ DrawAfterShift
    \/ Close

Next == Loader \/ Reader

Spec == Init /\ [][Next]_vars

\* The loader is a running thread.  The event loop turns at least every
\* 250 ms and each turn over a PDF polls; it keeps drawing while a page that
\* is on screen is still loading (pages_loading).
FairSpec == Spec /\ WF_vars(Loader) /\ WF_vars(Poll) /\ WF_vars(DrawStack)

-----------------------------------------------------------------------------
(* Properties.                                                             *)

Pending == {reqQ[i] : i \in Indices(reqQ)}
Busy == IF worker.pc \in {"judge", "decode", "answer"} THEN {worker.index} ELSE {}
InFlight == Pending \cup Busy \cup Answered

\* Types of the channels, the cache and both threads' state.
TypeOK ==
    /\ section \in Sections /\ loaderCurrent \in Sections
    /\ shown \in Content \cup {NoBlocks}
    /\ navBack \in BOOLEAN /\ open \in BOOLEAN
    /\ DOMAIN cache \subseteq Sections /\ cache \in [DOMAIN cache -> Content]
    /\ requested \in SUBSET Sections
    /\ reqQ \in Seq(Sections)
    /\ resQ \in Seq([index : Sections, answer : Content \cup {NoBlocks}])
    /\ worker \in [pc : {"idle", "judge", "decode", "answer", "done"},
                   index : Sections, answer : Content \cup {NoBlocks}]
    /\ settings \in Nat /\ refGen \in Nat /\ refSeen \in Nat

\* A section marked as requested always has its request or its answer
\* somewhere on the way.  Were one marked with nothing on the way, every
\* `requested.insert` would fail from then on and it could never be loaded.
NoOrphanRequest == open => requested \subseteq InFlight

\* A reflowed book always holds the section it shows: navigation, eviction
\* and both ways of dropping stale sections keep it.
ShownStaysCached == ~Paged => section \in DOMAIN cache

\* A PDF page is never rasterised twice for one need: the request channel,
\* the loader and the answer channel together hold each requested section
\* once, and nothing the reader does not know it asked for.
Copies(s) ==
    Cardinality({i \in Indices(reqQ) : reqQ[i] = s})
    + Cardinality({i \in Indices(resQ) : resQ[i].index = s})
    + Cardinality(Busy \cap {s})
SingleFlight == (Paged /\ open) => \A s \in Sections : Copies(s) = IF s \in requested THEN 1 ELSE 0

\* Whatever drains and whole-book searches piled up, a move leaves the cache
\* within CACHE_CAP and still holding the section moved to if it was there or
\* had just landed.
MoveBoundsCache ==
    [][section' # section => /\ Cardinality(DOMAIN cache') <= CacheCap
                             /\ section' \in DOMAIN cache \cup Landed => section' \in DOMAIN cache']_vars

\* The loader never drops as stale a section within the prefetch window of
\* where the reader is (state/cache.rs: "so the look-ahead pages aren't
\* dropped").
LookAheadHonoured ==
    [][worker.pc = "judge" /\ worker'.pc = "answer"
         => worker.index \notin Window(section) \cup {section}]_vars

\* The two halves of how far the cache reaches: the bound at its far end and
\* the window around the reader it must not cut into.
WindowKept == MoveBoundsCache /\ LookAheadHonoured

\* Once the reader stops moving, the page it stopped on is decoded and stays
\* (state/cache.rs: "so a fast j/k burst reaches the page you actually stopped
\* on"), and so is every band the stack shows.
Settles == <>[][Loader \/ Poll \/ DrawStack]_vars
StoppedPageArrives == Settles => <>[](open => section \in DOMAIN cache)

\* The same for everything still asked for: each answer is collected.
RequestsReturn == Settles => []<>(open => requested = {})

\* "the open sections are re-decoded so equations switch / resize live,
\* without reopening" (reader/math.rs): what is on screen was decoded under
\* the settings in force.
ShownUnderSettings == ~Paged => shown.set = settings

\* The section left alone when the reference em shifts "self-corrects on the
\* next revisit" (reader/math.rs): turning to a section shows it at a scale no
\* older than the shift the reader last reacted to.
RevisitCorrectsScale ==
    [][~Paged /\ section' # section => shown'.ref >= refSeen]_vars

\* Dropping the reader ends the loader thread.
LoaderEnds == ~open ~> worker.pc = "done"

=============================================================================
