----------------------------- MODULE ReadingFlow -----------------------------
(***************************************************************************)
(* Where a reflowed book is being read (app/reader/mod.rs load to          *)
(* resolve_pending, app/reader/continuous.rs, paged.rs, and apply_nav in   *)
(* app/dispatch/apply.rs): a chapter and a line of it.  A line number      *)
(* means something only against the wrapped text, which a move leaves      *)
(* behind and the next frame makes again.                                  *)
(***************************************************************************)
EXTENDS Integers, Sequences, SequencesExt

CONSTANTS
    LastChapter,
    Wrapped,      \* width -> chapter -> lines of the chapter at that width
    Reserved,     \* rows by which a first wrap may fall short, figures unsized
    PageLines,    \* lines of the pane
    Throttle,     \* a frame may be left to a later turn
    Features,     \* of {"page", "flow", "lock", "jump", "width", "resize"}
    Strokes       \* bound: keys of one behaviour

Chapters == 0..LastChapter
Widths == DOMAIN Wrapped
NoFrac == <<0, 0>>

ASSUME FlowAssumption ==
    /\ LastChapter \in Nat /\ PageLines \in Nat \ {0} /\ Strokes \in Nat
    /\ Reserved \subseteq Nat /\ 0 \in Reserved /\ Throttle \in BOOLEAN
    /\ \A w \in Widths, c \in Chapters : Wrapped[w][c] \in Nat \ {0}

VARIABLES
    section, scroll,
    lines,        \* lines.len(): of this chapter, or of the one before it
    fresh,        \* the wrap's key still describes this chapter
    width,        \* what the settings and the window now give
    measure,      \* last_measure: the width of the last frame
    pendingFrac, pendingBottom, scrollPending,
    back, forth,  \* the history's two stacks
    paged, flows, lock,
    step,         \* where the loop is in its turn
    strokes,
    frame,        \* ghost: [section, scroll] of the last frame
    wanted,       \* ghost: the book line scrolling should have led to, or -1
    did           \* ghost: what was done since the last frame

position == <<section, scroll, lines, fresh>>
pending == <<pendingFrac, pendingBottom, scrollPending>>
history == <<back, forth>>
modes == <<paged, flows, lock>>
ghosts == <<frame, wanted, did>>
flowVars == <<position, width, measure, pending, history, modes, step, strokes, ghosts>>

Pos == [section |-> section, scroll |-> scroll]
MaxScrollOf(n) == IF n > PageLines THEN n - PageLines ELSE 0
MaxScroll == MaxScrollOf(lines)
Lesser(a, b) == IF a < b THEN a ELSE b
Greater(a, b) == IF a > b THEN a ELSE b

(* Lines of the book up to a place, at the width of the last frame.        *)
Before(w, c) ==
    LET before[k \in Chapters] == IF k = 0 THEN 0 ELSE before[k - 1] + Wrapped[w][k - 1]
    IN before[c]
BookLine(p) == Before(measure, p.section) + p.scroll
BookEnd == Before(measure, LastChapter) + MaxScrollOf(Wrapped[measure][LastChapter])

FlowInit ==
    /\ section = 0 /\ scroll = 0 /\ width \in Widths /\ measure = width
    /\ lines = Wrapped[measure][0] /\ fresh = TRUE
    /\ pendingFrac = NoFrac /\ pendingBottom = FALSE /\ scrollPending = 0
    /\ back = <<>> /\ forth = <<>>
    /\ paged \in {FALSE} \cup {"page" \in Features}
    /\ flows \in {FALSE} \cup {"flow" \in Features}
    /\ lock \in {FALSE} \cup {"lock" \in Features}
    /\ step = "keys" /\ strokes = 0
    /\ frame = Pos /\ wanted = -1 /\ did = {}

----------------------------------------------------------------------------
(* The moves, as the place they lead to: [section, scroll, lines, fresh],  *)
(* and what they leave pending.                                            *)

At(c, l, n, f, frac, bottom) ==
    [section |-> c, scroll |-> l, lines |-> n, fresh |-> f, frac |-> frac, bottom |-> bottom]
Here == At(section, scroll, lines, fresh, pendingFrac, pendingBottom)
(* load: another chapter's blocks over the lines of this one.              *)
Loaded(c) == [Here EXCEPT !.section = c, !.scroll = 0, !.fresh = FALSE]

(* scroll_down and scroll_up where chapters start afresh.                  *)
DownAlone(n) ==
    IF scroll < MaxScroll THEN [Here EXCEPT !.scroll = Lesser(scroll + n, MaxScroll)]
    ELSE IF ~lock /\ section < LastChapter THEN Loaded(section + 1) ELSE Here
UpAlone(n) ==
    IF scroll > 0 THEN [Here EXCEPT !.scroll = Greater(scroll - n, 0)]
    ELSE IF ~lock /\ section > 0 THEN [Loaded(section - 1) EXCEPT !.bottom = TRUE]
    ELSE Here

(* move_anchor wraps the chapter it enters, at the last frame's measure    *)
(* and with the figures not sized yet.                                     *)
Entered(c, short) == Greater(Wrapped[measure][c] - short, 1)

(* continuous_scroll_down's loop, and continuous_scroll_up's.              *)
(* (mutant: what is left over a boundary is dropped)                       *)
RollDownToTop(p, short) ==
    LET roll[q \in [c : Chapters, l : Nat, n : Nat]] ==
            IF q.c < LastChapter /\ q.l >= q.n
            THEN [c |-> q.c + 1, l |-> 0, n |-> Entered(q.c + 1, short)] ELSE q
    IN roll[p]
RollDown(p, short) ==
    LET roll[q \in [c : Chapters, l : Nat, n : Nat]] ==
            IF q.c < LastChapter /\ q.l >= q.n
            THEN roll[[c |-> q.c + 1, l |-> q.l - q.n, n |-> Entered(q.c + 1, short)]] ELSE q
    IN roll[p]
RollUp(p, n, short) ==
    LET roll[q \in [c : Chapters, l : Nat, n : Nat, up : Nat]] ==
            IF q.l >= q.up THEN [q EXCEPT !.l = @ - q.up, !.up = 0]
            ELSE IF q.c = 0 THEN [q EXCEPT !.l = 0, !.up = 0]
            ELSE LET m == Entered(q.c - 1, short)
                 IN roll[[c |-> q.c - 1, l |-> m - 1, n |-> m, up |-> q.up - q.l - 1]]
    IN roll[[c |-> p.c, l |-> p.l, n |-> p.n, up |-> n]]

(* A crossing holds its place as a fraction of the provisional lines.      *)
Rolled(q, l) ==
    IF q.c = section THEN [Here EXCEPT !.scroll = l]
    ELSE At(q.c, l, q.n, TRUE, <<l, q.n>>, pendingBottom)
DownFlowing(n, short) ==
    LET r == RollDown([c |-> section, l |-> scroll + n, n |-> lines], short)
    IN Rolled(r, IF r.c = LastChapter THEN Lesser(r.l, MaxScrollOf(r.n)) ELSE r.l)
UpFlowing(n, short) ==
    LET r == RollUp([c |-> section, l |-> scroll, n |-> lines], n, short) IN Rolled(r, r.l)

Flowing == flows /\ ~lock
Scrolled(n) ==
    IF Flowing
    THEN {IF n > 0 THEN DownFlowing(n, s) ELSE UpFlowing(-n, s) : s \in Reserved}
    ELSE {IF n > 0 THEN DownAlone(n) ELSE UpAlone(-n)}
Goes(p) ==
    /\ section' = p.section /\ scroll' = p.scroll /\ lines' = p.lines /\ fresh' = p.fresh
    /\ pendingFrac' = p.frac /\ pendingBottom' = p.bottom

(* Ghost: scrolling by n should lead n book lines on.                      *)
WantedAfter(n) ==
    IF wanted = -1 THEN -1
    ELSE Lesser(Greater(wanted + n, 0), Greater(BookEnd, wanted))

----------------------------------------------------------------------------
(* Keys.                                                                   *)
Stroke == step = "keys" /\ strokes < Strokes /\ strokes' = strokes + 1
Did(what) == did' = did \cup {what} \cup (IF what \in did THEN {"again"} ELSE {})
OneThing == \A one, other \in did : one = other
Unscrolled == wanted' = -1

(* j and k, the wheel: eased by step_scroll.                               *)
QueueScroll(d) ==
    /\ Stroke /\ ~paged
    /\ scrollPending' = scrollPending + d
    /\ UNCHANGED <<position, width, measure, pendingFrac, pendingBottom, history, modes,
                   step, ghosts>>

(* Page keys: a pane of lines, or in page mode a page, at once.            *)
TurnPage(d) ==
    /\ Stroke
    /\ \E p \in Scrolled(d * PageLines) : Goes(p)
    /\ wanted' = WantedAfter(d * PageLines)
    /\ Did("turn")
    /\ UNCHANGED <<width, measure, scrollPending, history, modes, step, frame>>

(* jump_to without a heading.                                              *)
JumpTo(c) ==
    /\ Stroke /\ "jump" \in Features
    /\ back' = Append(back, Pos) /\ forth' = <<>>
    /\ Goes(IF c = section THEN [Here EXCEPT !.scroll = 0] ELSE Loaded(c))
    /\ Did("jump") /\ Unscrolled
    /\ UNCHANGED <<width, measure, scrollPending, modes, step, frame>>

(* history_back and history_forward, through goto.                         *)
Goto(p) ==
    Goes([(IF p.section = section THEN Here ELSE Loaded(p.section)) EXCEPT !.scroll = p.scroll])
Popped == back' = Front(back) /\ forth' = Append(forth, Pos)
HistoryBack ==
    /\ Stroke /\ back # <<>>
    /\ Goto(Last(back)) /\ Popped
    /\ Did("jump") /\ Unscrolled
    /\ UNCHANGED <<width, measure, scrollPending, modes, step, frame>>
HistoryForward ==
    /\ Stroke /\ forth # <<>>
    /\ Goto(Last(forth)) /\ forth' = Front(forth) /\ back' = Append(back, Pos)
    /\ Did("jump") /\ Unscrolled
    /\ UNCHANGED <<width, measure, scrollPending, modes, step, frame>>

(* A setting that wraps anew: hold_reflow_position.                        *)
Held == <<scroll, lines>>
ChangeWidth(w) ==
    /\ Stroke /\ "width" \in Features /\ w # width
    /\ width' = w /\ pendingFrac' = Held
    /\ Did("width") /\ Unscrolled
    /\ UNCHANGED <<position, measure, pendingBottom, scrollPending, history, modes, step, frame>>

(* The window's size: nothing is held.                                     *)
Resize(w) ==
    /\ Stroke /\ "resize" \in Features /\ w # width
    /\ width' = w /\ Did("resize") /\ Unscrolled
    /\ UNCHANGED <<position, measure, pending, history, modes, step, frame>>

EndKeys ==
    /\ step = "keys" /\ step' = "ease"
    /\ UNCHANGED <<position, width, measure, pending, history, modes, strokes, ghosts>>

----------------------------------------------------------------------------
(* step_scroll: at most three lines a turn; where nothing moves, nothing   *)
(* stays pending.                                                          *)
Eased == Lesser(Greater(scrollPending, -3), 3)
StepScroll ==
    /\ step = "ease" /\ step' = "draw"
    /\ IF scrollPending = 0
       THEN UNCHANGED <<position, pending, wanted, did>>
       ELSE \E p \in Scrolled(Eased) :
                /\ Goes(p)
                /\ scrollPending' =
                     IF [section |-> p.section, scroll |-> p.scroll] = Pos THEN 0
                     ELSE scrollPending - Eased
                /\ wanted' = WantedAfter(Eased)
                /\ Did("scroll")
    /\ UNCHANGED <<width, measure, history, modes, strokes, frame>>

(* A frame: ensure_wrapped, resolve_pending and clamp_scroll.              *)
Rounded(frac, n) == (2 * frac[1] * n + frac[2]) \div (2 * frac[2])
Resolved(n) ==
    IF pendingFrac # NoFrac THEN Lesser(Rounded(pendingFrac, n), n - 1)
    ELSE IF pendingBottom THEN MaxScrollOf(n) ELSE scroll
Snapped(l) == IF paged THEN (l \div PageLines) * PageLines ELSE l
Clamped(l, n) == IF Flowing /\ section < LastChapter THEN l ELSE Lesser(l, MaxScrollOf(n))
Draw ==
    /\ step = "draw" /\ step' = "keys"
    /\ measure' = width
    /\ LET n == Wrapped[width][section] IN
          /\ lines' = n /\ fresh' = TRUE
          /\ scroll' = Clamped(Snapped(Resolved(n)), n)
          /\ frame' = [section |-> section, scroll |-> scroll']
          /\ wanted' = IF wanted = -1 \/ width # measure \/ ~OneThing
                       THEN IF scroll' < n THEN Before(width, section) + scroll' ELSE -1
                       ELSE wanted
    /\ pendingFrac' = NoFrac /\ pendingBottom' = FALSE
    /\ scrollPending' = IF paged THEN 0 ELSE scrollPending
    /\ did' = {}
    /\ UNCHANGED <<section, width, history, modes, strokes>>

(* The frame is not due yet.                                               *)
SkipDraw ==
    /\ step = "draw" /\ step' = "keys" /\ Throttle
    /\ UNCHANGED <<position, width, measure, pending, history, modes, strokes, ghosts>>

FlowNext ==
    \/ \E d \in {-4, -1, 1, 4} : QueueScroll(d)
    \/ \E d \in {-1, 1} : TurnPage(d)
    \/ \E c \in Chapters : JumpTo(c)
    \/ HistoryBack \/ HistoryForward
    \/ \E w \in Widths : ChangeWidth(w) \/ Resize(w)
    \/ EndKeys \/ StepScroll \/ Draw \/ SkipDraw
FlowSpec == FlowInit /\ [][FlowNext]_flowVars

----------------------------------------------------------------------------
FlowTypeOK ==
    /\ section \in Chapters /\ {scroll, lines} \subseteq Nat
    /\ {fresh, pendingBottom, paged, flows, lock} \subseteq BOOLEAN
    /\ {width, measure} \subseteq Widths /\ scrollPending \in Int
    /\ pendingFrac = NoFrac \/ pendingFrac \in Nat \X (Nat \ {0})
    /\ step \in {"keys", "ease", "draw"}

(* Where chapters flow, a scroll leads to exactly the book line it should, *)
(* however many boundaries it crosses: nothing is lost at a crossing, and  *)
(* the fraction kept over it gives the line back at the next frame.  (A    *)
(* second scroll before that frame is undone by the fraction, and is left  *)
(* out.)                                                                   *)
FlowExact ==
    (Flowing /\ ~paged /\ wanted # -1 /\ fresh /\ OneThing) => BookLine(Pos) = wanted

(* Chapters change only from an edge that was in view, to the edge that    *)
(* adjoins it.                                                             *)
EasedInView ==
    \/ section = frame.section
    \/ /\ section = frame.section + 1 /\ scroll' = 0
       /\ frame.scroll + PageLines >= Wrapped[measure][frame.section]
    \/ /\ section = frame.section - 1 /\ frame.scroll = 0
       /\ scroll' + PageLines >= Wrapped[measure][section]
(* The line shown is as far into the chapter as it was, to within the      *)
(* rounding of a line, or the last page.                                   *)
PlaceKept ==
    LET n == Wrapped[width][section]
        drift == scroll' * Wrapped[measure][section] - frame.scroll * n
    IN \/ 2 * drift \in -Wrapped[measure][section]..Wrapped[measure][section]
       \/ scroll' \in {n - 1, MaxScrollOf(n)}
(* A frame follows from the one before it.  Where chapters do not flow,    *)
(* easing alone passes no line the reader could have missed; a setting     *)
(* that wraps the chapter anew keeps the place.                            *)
FramesFollow ==
    [][(Draw /\ ~paged) =>
         /\ (did = {"scroll"} /\ ~Flowing /\ width = measure) => EasedInView
         /\ did = {"width"} => PlaceKept]_flowVars

(* Going back and forward only moves along the places visited.             *)
Trail == back \o <<Pos>> \o Reverse(forth)
HistoryKept == [][(HistoryBack \/ HistoryForward) => Trail' = Trail]_flowVars
(* Scrolling, frames and the history agree on where in the book the reader *)
(* is.                                                                     *)
PlaceFollows == [][FlowExact']_flowVars /\ FramesFollow /\ HistoryKept

(* paged.rs page_forward: "Flip to the next page (snapped to a page        *)
(* boundary), flowing into the next chapter at the bottom edge": a turned  *)
(* page is another page, except at the edges of the book or of a locked    *)
(* chapter.                                                                *)
Edge(p) ==
    LET n == Wrapped[measure][p.section]
    IN \/ p.scroll = 0 /\ (lock \/ p.section = 0)
       \/ p.scroll + PageLines >= n /\ (lock \/ p.section = LastChapter)
PageTurns ==
    [][(Draw /\ did = {"turn"} /\ paged /\ ~Edge(frame)) => frame' # frame]_flowVars

(* mod.rs scroll_down: "in continuous mode the anchor rolls seamlessly     *)
(* across the boundary": the row of the pane a book line is drawn at, with *)
(* the blank row continuous_lines puts between chapters, is the row it was *)
(* at less the lines scrolled.                                             *)
RowOf(c, l) == Before(measure, c) + l + c
RollsSeamlessly ==
    [][(Draw /\ Flowing /\ ~paged /\ wanted # -1 /\ width = measure)
        => RowOf(section, scroll') - RowOf(frame.section, frame.scroll)
             = wanted - BookLine(frame)]_flowVars
=============================================================================
