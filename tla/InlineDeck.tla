----------------------------- MODULE InlineDeck -----------------------------
(***************************************************************************)
(* The pictures inside reflowed text (app/inline_deck.rs): what a frame    *)
(* wants on screen, the deck that brings the terminal there, and the       *)
(* terminal.                                                               *)
(*                                                                         *)
(* Like the page deck this one cannot read the terminal back.  A picture   *)
(* is transmitted once, under an image id of its own, and placed as often  *)
(* as the text repeats it; its n-th place has the placement id n.  Placing *)
(* the same two ids again moves a picture.  A place nothing moves or       *)
(* frees stays on the screen.                                              *)
(*                                                                         *)
(* A book is laid out as figures and equations over numbered lines.  What  *)
(* is transmitted is the picture built under a key: a key (media::ImgKey)  *)
(* says where in a book a picture is and how it is sized and themed, and   *)
(* nothing of the book, so neither does anything here.  A rectangle of a picture is a run of its rows:    *)
(* under a key its size does not change, and its rows are whole cells.     *)
(* What an overlay in a corner of the page covers is left out.             *)
(***************************************************************************)
EXTENDS Integers, Sequences, FiniteSets, Functions, Subsequences

CONSTANTS
    InlKeys, InlBooks, InlLayouts,
    InlFlow,          \* [InlBooks -> [InlLayouts -> Seq(Picture)]]
    InlTops,          \* the scroll positions
    InlHeight,        \* the rows of a column
    InlColumns,       \* 1, or 2 in a spread
    MaxUploads,       \* NEW_UPLOADS_PER_FRAME
    InlMaxIds,        \* bound: how many ids a deck gives out
    NoBook

\* A picture is over `rows` lines; an equation is on the line `line` of the
\* text and hangs over those around it, a figure starts there.
Picture == [key : InlKeys, atom : BOOLEAN, line : Nat, rows : Nat \ {0}]

ASSUME InlineAssumption ==
    /\ InlFlow \in [InlBooks -> [InlLayouts -> Seq(Picture)]]
    /\ InlTops \subseteq Nat /\ InlHeight \in Nat /\ InlColumns \in Nat
    /\ MaxUploads \in Nat /\ InlMaxIds \in Nat
    /\ NoBook \notin InlBooks

VARIABLES
    inl,      \* InlineDeck: [shown, resident, next, deferred, moves]
    screen,   \* the terminal: [data, placed, freezes]
    sight     \* the app and its reader: [book, laid, top, built, clear, repaint, modal, modalShown, full]
inlineVars == <<inl, screen, sight>>

-----------------------------------------------------------------------------
(* What a frame wants: the pictures of the lines in sight.                 *)

FirstLine(p) == IF p.atom THEN p.line - ((p.rows - 1) \div 2) ELSE p.line

\* Rows `from` up to `upto` of a picture are in the column whose first line
\* is `top`.
From(p, top) == IF FirstLine(p) < top THEN top - FirstLine(p) ELSE 0
Upto(p, top) ==
    IF p.rows < InlHeight - (FirstLine(p) - top) THEN p.rows ELSE InlHeight - (FirstLine(p) - top)

\* An equation is looked for on its own line.
InColumn(p, top) ==
    /\ From(p, top) < Upto(p, top)
    /\ p.atom => p.line \in top .. top + InlHeight - 1

\* (mutant: the slice of a picture cut off at the top starts at its first row)
InlineTargetUncropped(p, top, col) ==
    [key |-> p.key, col |-> col, row |-> FirstLine(p) - top + From(p, top),
     shape |-> <<Upto(p, top) - From(p, top), 0>>]

\* Where the slice goes, and its shape: so many rows, from that one on.
InlineTarget(p, top, col) ==
    [key |-> p.key, col |-> col, row |-> FirstLine(p) - top + From(p, top),
     shape |-> <<Upto(p, top) - From(p, top), From(p, top)>>]

\* The columns of a spread go on where the one before ends.
TopOf(top, col) == top + (col - 1) * InlHeight

\* Column after column, the built pictures in it, in the order of the flow.
WantedInline(flow, top, built) ==
    LET n == Len(flow)
        at == [i \in 1 .. InlColumns * n |-> [p |-> flow[((i - 1) % n) + 1], col |-> ((i - 1) \div n) + 1]]
        seen == Retained(at, {x \in Range(at) : x.p.key \in built /\ InColumn(x.p, TopOf(top, x.col))})
    IN  [i \in DOMAIN seen |-> InlineTarget(seen[i].p, TopOf(top, seen[i].col), seen[i].col)]

-----------------------------------------------------------------------------
(* The deck's own bookkeeping.                                             *)

KeysIn(ts) == {ts[i].key : i \in DOMAIN ts}
PlacesOf(ts, k) == Retained(ts, {t \in Range(ts) : t.key = k})
\* `placements` is this of `shown`, with which it is set and forgotten.
ShapesOf(ts, k) == [n \in DOMAIN PlacesOf(ts, k) |-> PlacesOf(ts, k)[n].shape]

\* What is resident and need not be sent again: it is still on screen, at no
\* fewer places, and in no other shapes where these would freeze.
\* (mutant: fewer places are not looked at)
StillGoodAnywhere(d, ts) == {k \in DOMAIN d.resident \cap KeysIn(ts) :
                                d.moves => ShapesOf(ts, k) = ShapesOf(d.shown, k)}
StillGood(d, ts) ==
    {k \in DOMAIN d.resident \cap KeysIn(ts) :
        IF d.moves THEN ShapesOf(ts, k) = ShapesOf(d.shown, k)
        ELSE Len(ShapesOf(ts, k)) >= Len(ShapesOf(d.shown, k))}

\* What could be sent, in the order of its first target.
Sendable(d, ts, png) == (KeysIn(ts) \ StillGood(d, ts)) \cap png
FirstAt(ts, k) == CHOOSE i \in DOMAIN ts : ts[i].key = k /\ \A j \in 1 .. i - 1 : ts[j].key # k
SentBefore(d, ts, png, i) == Cardinality({k \in Sendable(d, ts, png) : FirstAt(ts, k) < i})

\* No more than a batch is sent in a frame.
Sent(d, ts, png) ==
    {k \in Sendable(d, ts, png) : SentBefore(d, ts, png, FirstAt(ts, k)) < MaxUploads}
Onscreen(d, ts, png) == StillGood(d, ts) \cup Sent(d, ts, png)

\* A target came up for sending when the batch was full, built or not.
Deferred(d, ts, png) ==
    \E i \in DOMAIN ts : ts[i].key \notin Onscreen(d, ts, png) /\ SentBefore(d, ts, png, i) >= MaxUploads

RenderedInline(d, ts, png) ==
    IF d.shown = ts THEN [d EXCEPT !.deferred = FALSE]
    ELSE [d EXCEPT
          !.shown = Retained(ts, {t \in Range(ts) : t.key \in Onscreen(d, ts, png)}),
          !.resident = [k \in Onscreen(d, ts, png) |->
                           IF k \in StillGood(d, ts) THEN d.resident[k]
                           ELSE d.next + SentBefore(d, ts, png, FirstAt(ts, k))],
          !.next = d.next + Cardinality(Sent(d, ts, png)),
          !.deferred = Deferred(d, ts, png)]

RestagedInline(d) == [d EXCEPT !.shown = <<>>]

NoPlaces == [x \in {} |-> x]
ClearedInline(d) == [d EXCEPT !.shown = <<>>, !.resident = NoPlaces, !.deferred = FALSE]

-----------------------------------------------------------------------------
(* What the escapes do to the terminal.  An image deleted by id is gone    *)
(* with its places; a cleared screen has no places and keeps the data.     *)

Without(s, ids) ==
    [s EXCEPT !.data = [i \in DOMAIN s.data \ ids |-> s.data[i]],
              !.placed = [x \in {y \in DOMAIN s.placed : y[1] \notin ids} |-> s.placed[x]]]

\* A place used again is drawn anew, but for the shape where that freezes.
Redrawn(s, x, t) ==
    IF s.freezes /\ x \in DOMAIN s.placed /\ s.placed[x].shape # t.shape THEN s.placed[x]
    ELSE [col |-> t.col, row |-> t.row, shape |-> t.shape]

\* The places of the targets shown, by image and placement id.
PlacesIn(d) == UNION {{<<d.resident[k], n>> : n \in DOMAIN PlacesOf(d.shown, k)} : k \in KeysIn(d.shown)}
KeyUnder(d, id) == CHOOSE k \in DOMAIN d.resident : d.resident[k] = id
TargetAt(d, x) == PlacesOf(d.shown, KeyUnder(d, x[1]))[x[2]]

RenderedScreen(d, s, ts, png) ==
    IF d.shown = ts THEN s
    ELSE LET e == RenderedInline(d, ts, png)
             left == Without(s, {d.resident[k] : k \in DOMAIN d.resident \ StillGood(d, ts)})
             new == {e.resident[k] : k \in Sent(d, ts, png)}
         IN  [s EXCEPT
              !.data = [i \in DOMAIN left.data \cup new |->
                            IF i \in new THEN KeyUnder(e, i) ELSE left.data[i]],
              !.placed = [x \in DOMAIN left.placed \cup PlacesIn(e) |->
                            IF x \in PlacesIn(e) THEN Redrawn(left, x, TargetAt(e, x)) ELSE left.placed[x]]]

Wiped(s) == [s EXCEPT !.placed = NoPlaces]

-----------------------------------------------------------------------------
(* The loop: input and built pictures between frames, and the frame.       *)

\* media::moves_need_retransmit, read once, knows the terminals that freeze
\* a shape; it may take another for one.

InlineInit ==
    /\ \E moves, freezes \in BOOLEAN :
           /\ inl = [shown |-> <<>>, resident |-> NoPlaces, next |-> 0, deferred |-> FALSE, moves |-> moves]
           /\ screen = [data |-> NoPlaces, placed |-> NoPlaces, freezes |-> freezes]
           /\ freezes => moves
    /\ \E laid \in InlLayouts, top \in InlTops :
           sight = [book |-> NoBook, laid |-> laid, top |-> top, built |-> {}, clear |-> FALSE,
                   repaint |-> FALSE, modal |-> FALSE, modalShown |-> FALSE, full |-> FALSE]

Reading == sight.book # NoBook

ScrollTo(top) == Reading /\ sight' = [sight EXCEPT !.top = top]

\* restage_visible_images: the section's pictures are dropped, and the deck is
\* to be cleared.
Restaged(v) ==
    LET flow == InlFlow[v.book][v.laid]
    IN  [v EXCEPT !.clear = TRUE, !.built = @ \ {flow[i].key : i \in DOMAIN flow}]

\* A page flipped, a setting that wraps the text anew, or a fold: the text
\* moves, and asks for a repaint.  A fold restages besides.
Relay(laid, folded) ==
    LET v == IF folded THEN Restaged(sight) ELSE sight
    IN  Reading /\ sight' = [v EXCEPT !.laid = laid, !.repaint = TRUE]

\* The pipeline's cache, as the deck sees it.
Built(k) == Reading /\ k \notin sight.built /\ sight' = [sight EXCEPT !.built = @ \cup {k}]

\* It drops what is not in sight.
Forgotten(k) ==
    /\ Reading /\ k \in sight.built
    /\ k \notin KeysIn(WantedInline(InlFlow[sight.book][sight.laid], sight.top, sight.built))
    /\ sight' = [sight EXCEPT !.built = @ \ {k}]

PopUp == sight' = [sight EXCEPT !.modal = ~ @]

\* Back from the full-screen viewer.
LeaveForPage == Reading /\ sight.modal /\ sight' = [Restaged(sight) EXCEPT !.modal = FALSE]

CloseReader ==
    /\ Reading /\ ~ sight.modal
    /\ sight' = [sight EXCEPT !.book = NoBook, !.built = {}, !.clear = FALSE, !.repaint = FALSE]
OpenReader(b) == ~ Reading /\ ~ sight.modal /\ sight' = [sight EXCEPT !.book = b]

\* A turn of the loop takes the reader's request for a repaint, and makes one
\* of its own when a popup opens or closes.  When it draws nothing yet the
\* request rides along.
FullAsked == sight.full \/ sight.repaint \/ sight.modal # sight.modalShown
Turned(full) == [sight EXCEPT !.modalShown = sight.modal, !.repaint = FALSE, !.full = full]
DrawHeld == FullAsked /\ ~ sight.full /\ sight' = Turned(TRUE)

\* The frame: a full redraw clears the screen and restages the deck; then the
\* pictures are taken down, or brought to what the page wants.
InlineFrame ==
    LET d == IF FullAsked THEN RestagedInline(inl) ELSE inl
        s == IF FullAsked THEN Wiped(screen) ELSE screen
        e == ClearedInline(d)
        u == Without(s, Range(d.resident))
        ts == WantedInline(InlFlow[sight.book][sight.laid], sight.top, sight.built)
    IN  /\ IF ~ Reading \/ sight.modal
           THEN /\ inl' = IF DOMAIN d.resident = {} /\ d.shown = <<>> THEN d ELSE e
                /\ screen' = IF DOMAIN d.resident = {} /\ d.shown = <<>> THEN s ELSE u
                /\ sight' = Turned(FALSE)
           ELSE /\ inl' = RenderedInline(IF sight.clear THEN e ELSE d, ts, sight.built)
                /\ screen' = RenderedScreen(IF sight.clear THEN e ELSE d, IF sight.clear THEN u ELSE s,
                                            ts, sight.built)
                /\ sight' = [Turned(FALSE) EXCEPT !.clear = FALSE]
        /\ inl'.next <= InlMaxIds

InlineNext ==
    \/ InlineFrame
    \/ UNCHANGED <<inl, screen>> /\
        \/ \E top \in InlTops : ScrollTo(top)
        \/ \E laid \in InlLayouts, folded \in BOOLEAN : Relay(laid, folded)
        \/ \E k \in InlKeys : Built(k)
        \/ \E k \in InlKeys : Forgotten(k)
        \/ PopUp
        \/ LeaveForPage
        \/ CloseReader
        \/ \E b \in InlBooks : OpenReader(b)
        \/ DrawHeld

InlineSpec == InlineInit /\ [][InlineNext]_inlineVars

-----------------------------------------------------------------------------
(* Properties.                                                             *)

AsPlacedAt(t) == [col |-> t.col, row |-> t.row, shape |-> t.shape]

\* What the deck believes is what the terminal has: of the images, under
\* which id and of which key; of the places, no more and no fewer than the
\* deck shows, each where and in the shape it was last asked for.  Nothing is
\* stranded on the screen when a picture is repeated less often, moves, is
\* cut off at an edge, or returns, in a terminal that freezes shapes or not.
InlineTrue ==
    /\ DOMAIN screen.data = Range(inl.resident) /\ IsInjective(inl.resident)
    /\ \A k \in DOMAIN inl.resident : screen.data[inl.resident[k]] = k
    /\ KeysIn(inl.shown) \subseteq DOMAIN inl.resident
    /\ DOMAIN screen.placed = PlacesIn(inl)
    /\ \A x \in PlacesIn(inl) : screen.placed[x] = AsPlacedAt(TargetAt(inl, x))

\* The rows of pictures in a cell row of a column: as the terminal has them,
\* and as the page has them.
RowsOnScreen(col, row) ==
    {<<screen.data[x[1]], screen.placed[x].shape[2] + row - screen.placed[x].row>> :
        x \in {y \in DOMAIN screen.placed :
                 /\ screen.placed[y].col = col
                 /\ row - screen.placed[y].row \in 0 .. screen.placed[y].shape[1] - 1}}
RowsOnPage(col, row) ==
    LET flow == InlFlow[sight.book][sight.laid]
        line == TopOf(sight.top, col) + row
        shows(p) == /\ p.key \in sight.built
                    /\ line - FirstLine(p) \in 0 .. p.rows - 1
                    /\ p.atom => p.line - TopOf(sight.top, col) \in 0 .. InlHeight - 1
    IN  {<<flow[i].key, line - FirstLine(flow[i])>> : i \in {j \in DOMAIN flow : shows(flow[j])}}

\* A frame brings the page to the screen, row by row of every picture that is
\* built and whose line is in sight, unless it says that some are still to be
\* sent; over a popup and in the library it leaves none.  Pictures are told
\* apart by their keys, as the deck does: of which book the build under a key
\* is, is the pipeline's affair (ImagePipeline).
SightShown ==
    [][InlineFrame => IF Reading /\ ~ sight.modal
            THEN inl'.deferred \/ \A col \in 1 .. InlColumns, row \in 0 .. InlHeight - 1 :
                                      RowsOnScreen(col, row)' = RowsOnPage(col, row)
            ELSE DOMAIN screen'.placed = {}]_inlineVars
=============================================================================
