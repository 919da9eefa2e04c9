------------------------------ MODULE PageView ------------------------------
(***************************************************************************)
(* Reading a PDF: the reader's page state, the threads that rasterize and  *)
(* theme its pages, the frame the view draws, the deck that places it      *)
(* (PageDeck), and the event loop that decides when to draw.               *)
(*                                                                         *)
(* One turn of the loop handles the keys that have arrived, polls the      *)
(* workers (`Turn`), and then draws if something is dirty and the frame    *)
(* throttle allows it (`Draw`, `Throttled`).  Only drawing asks for a page *)
(* to be themed, captures what should be on screen, and reaches the        *)
(* terminal; a turn that draws nothing changes none of the three.          *)
(*                                                                         *)
(* The loader that rasterizes base pages is SectionLoader's subject: here  *)
(* every page of the few near the reader is asked for, and answered some   *)
(* time later.  View geometry is kept to what tells placements apart: the  *)
(* chrome around the page, the zoom and pan, and the raster used.          *)
(***************************************************************************)
EXTENDS PageDeck, FiniteSets, SequencesExt

CONSTANTS
    NumSections,  \* doc.section_count()
    Span,         \* 1, or 2 with ViewMode::TwoPage (no cover offset)
    Broken,       \* the pages PDFium cannot rasterize
    SoftOnly,     \* the pages it cannot re-rasterize at the crisp width
    ThemeAhead,   \* PAGE_THEME_AHEAD
    ThemedCap,    \* PAGE_THEME_BUDGET, in pages
    Faithful,     \* the policies under which a page is shown as it is
    Keys,         \* bound: the kinds of key the reader presses
    MaxKeys,      \* bound: how many
    Slow          \* a page may take longer than PAGE_SETTLE_BUDGET

\* Sections, Rasters, Spots and Shapes of PageDeck are these.
Views == {"fit", "top", "bottom"}

ASSUME PageViewAssumption ==
    /\ NumSections \in Nat \ {0} /\ Sections = 0 .. NumSections - 1
    /\ Span \in {1, 2} /\ Span <= MaxTargets
    /\ Broken \subseteq Sections /\ SoftOnly \subseteq Sections
    /\ ThemeAhead \in Nat /\ ThemedCap \in Nat \ {0}
    /\ Faithful \subseteq Policies
    /\ Rasters = {"base", "crisp"}
    /\ Spots = BOOLEAN
    /\ Shapes = BOOLEAN \X Views \X Rasters
    /\ MaxKeys \in Nat /\ Slow \in BOOLEAN

VARIABLES
    mode,       \* App.mode
    modal,      \* modal_open()
    book,       \* the open book
    section,    \* Reader.section
    skin,       \* image_policy(config): theme and image mode
    view,       \* Reader.page_view: fit, or zoomed at the top or the bottom of the page
    chrome,     \* show_status, show_sidebar, focus_mode: the room left for the page
    repaint,    \* Reader.pending_repaint
    raster,     \* sections.sections, by section: "absent", "sent" (in the channel), "here"
    pages,      \* PageThemeState: [policy, themed (least recent first), requested]
    themeQ,     \* the themer's request channel
    themeOut,   \* the themer's result channel
    crisp,      \* PageRasterState: [rasters, requested, failed, effective]
    crispOut,   \* the re-rasterizer's result channel
    targets,    \* Reader.pdf_targets
    pc,         \* the event loop: "input", then "drawing"
    dirty, fullRedraw, modalShown,   \* run()'s locals
    wait,       \* App.page_wait: None, or [have, want, spent]
    keys        \* how many keys have been pressed

appVars    == <<mode, modal, book, skin, chrome>>
readerVars == <<section, view, repaint, raster, pages, crisp, targets>>
threadVars == <<themeQ, themeOut, crispOut>>
loopVars   == <<pc, dirty, fullRedraw, modalShown, wait>>
screenVars == <<deck, term>>
vars == <<appVars, readerVars, threadVars, loopVars, screenVars, keys>>

-----------------------------------------------------------------------------
(* The reader's questions (reader/paged.rs, reader/crisp.rs).              *)

Base == "base"
Crisp == "crisp"
Key(s, r, p) == [section |-> s, raster |-> r, policy |-> p]

Faithfully(p) == p \in Faithful

\* raster_ready, page_unrenderable
\* (mutant: a page that cannot be rendered counts as still coming)
NeverUnrenderable(s) == FALSE

RasterReady(s)  == raster[s] = "here" /\ s \notin Broken
Unrenderable(s) == raster[s] = "here" /\ s \in Broken

\* page_ready: gated on the base raster alone.
PageReady(s) ==
    IF Faithfully(pages.policy) THEN RasterReady(s)
    ELSE Contains(pages.themed, Key(s, Base, pages.policy))

\* visible_sections: the page, or the spread it belongs to.
Left(s) == IF Span = 1 THEN s ELSE s - (s % 2)
Visible == [i \in 1 .. (IF Left(section) + Span <= NumSections THEN Span ELSE 1) |->
                Left(section) + i - 1]

PagesLoading == \E s \in Range(Visible) : ~PageReady(s) /\ ~Unrenderable(s)

\* placeable_sections: all of a spread or none of it.
Placeable == IF \A s \in Range(Visible) : PageReady(s) THEN Visible ELSE <<>>

ShownSections == [i \in DOMAIN deck.shown |-> deck.shown[i].section]

\* crisp_awaiting

CrispAwaiting ==
    crisp.requested # {} \/ \E k \in pages.requested : k.raster # Base

InPdf == mode = "Reader" /\ ~modal

\* pdf_flip_ready
FlipReady == section \in Range(ShownSections) \/ Unrenderable(section)

\* pdf_pages_pending, page_wait_stalled and pages_settling
Pending ==
    /\ InPdf
    /\ PagesLoading \/ CrispAwaiting \/ (Placeable # <<>> /\ ShownSections # Placeable)
Stalled == wait # None /\ wait.spent /\ wait.have = ShownSections /\ wait.want = Placeable
Settling == Pending /\ ~Stalled

-----------------------------------------------------------------------------
(* Collecting what the workers finished.                                   *)

\* ByteLru::put: the newest entry last; over the budget the oldest go, but
\* one always stays.  peek and contains do not promote.

Put(seq, k) ==
    LET s == Append(SelectSeq(seq, LAMBDA x : x # k), k)
    IN  IF Len(s) > ThemedCap THEN Tail(s) ELSE s

\* drain_page_themer

ThemedDrained ==
    [pages EXCEPT !.themed = FoldLeft(Put, @, themeOut), !.requested = @ \ Range(themeOut)]

\* drain_crisp: an empty answer is a failure, not retried.
CrispDrained ==
    [crisp EXCEPT !.requested = @ \ crispOut,
                  !.failed = @ \cup (crispOut \cap SoftOnly),
                  !.rasters = @ \cup (crispOut \ SoftOnly)]

\* drain_loader
RasterDrained == [s \in Sections |-> IF raster[s] = "sent" THEN "here" ELSE raster[s]]

-----------------------------------------------------------------------------
(* The reader's and the application's handlers.                            *)

FreshReader ==
    /\ view' = "fit" /\ repaint' = FALSE
    /\ pages' = [policy |-> CHOOSE p \in Policies : TRUE, themed |-> <<>>, requested |-> {}]
    /\ crisp' = [rasters |-> {}, requested |-> {}, failed |-> {}, effective |-> {}]
    /\ themeQ' = <<>> /\ themeOut' = <<>> /\ crispOut' = {}
    /\ targets' = <<>>

\* A key is handled while the loop is collecting input; the frame is dirty.
Press(k) ==
    /\ pc = "input"
    /\ k \in Keys /\ keys < MaxKeys
    /\ keys' = keys + 1
    /\ dirty' = TRUE
    /\ UNCHANGED <<pc, fullRedraw, modalShown, wait, screenVars>>

\* load: drains the loader, and the section is re-pointed.
GoTo(s) ==
    /\ section' = s
    /\ raster' = RasterDrained

\* A zoomed page that is turned to starts at the edge it is read from.
Repanned(s) == IF view = "fit" THEN "fit" ELSE IF s > section THEN "top" ELSE "bottom"

\* A bare j or k, or a page key: throttled by flip_ready.
\* (mutant: the flip is not throttled)
FlipAlways ==
    /\ Press("Flip") /\ InPdf
    /\ \E d \in {-1, 1} :
           /\ Left(section) + d * Span \in Sections
           /\ GoTo(Left(section) + d * Span)
           /\ view' = Repanned(Left(section) + d * Span)
    /\ UNCHANGED <<appVars, repaint, pages, crisp, targets, threadVars>>

Flip ==
    /\ Press("Flip") /\ InPdf
    /\ FlipReady
    /\ \E d \in {-1, 1} :
           /\ Left(section) + d * Span \in Sections
           /\ GoTo(Left(section) + d * Span)
           /\ view' = Repanned(Left(section) + d * Span)
    /\ UNCHANGED <<appVars, repaint, pages, crisp, targets, threadVars>>

\* `Ng`, a count, a link, the contents: not throttled.  A link followed with
\* the mouse leaves the pan as it was.
Jump ==
    /\ Press("Jump") /\ InPdf
    /\ \E s \in Sections \ {section} : GoTo(s) /\ view' \in {view, Repanned(s)}
    /\ UNCHANGED <<appVars, repaint, pages, crisp, targets, threadVars>>

\* A theme or image-mode change.
Restyle ==
    /\ Press("Restyle") /\ mode = "Reader"
    /\ \E p \in Policies \ {skin} : skin' = p
    /\ UNCHANGED <<mode, modal, book, chrome, readerVars, threadVars>>

\* Zoom and pan.
Zoom ==
    /\ Press("Zoom") /\ InPdf
    /\ \E v \in Views \ {view} : view' = v
    /\ UNCHANGED <<appVars, section, repaint, raster, pages, crisp, targets, threadVars>>

\* Anything that changes the layout key repaints (apply, settings_relayout).
Chrome ==
    /\ Press("Chrome") /\ mode = "Reader"
    /\ chrome' = ~chrome /\ repaint' = TRUE
    /\ UNCHANGED <<mode, modal, book, skin, section, view, raster, pages, crisp, targets, threadVars>>

\* A popup, a confirmation or a prompt opens or closes.
Modal ==
    /\ Press("Modal")
    /\ modal' = ~modal
    /\ UNCHANGED <<mode, book, skin, chrome, readerVars, threadVars>>

\* close_book: the reader is dropped, with its threads.
Leave ==
    /\ Press("Leave") /\ InPdf
    /\ mode' = "Library"
    /\ FreshReader
    /\ section' = 0 /\ raster' = [s \in Sections |-> "absent"]
    /\ UNCHANGED <<modal, book, skin, chrome>>

\* open_selected: a new reader, whose start page is rasterized on the spot;
\* saved progress may move it on.
Open ==
    /\ Press("Open") /\ mode = "Library" /\ ~modal
    /\ mode' = "Reader"
    /\ \E b \in Books, s \in Sections : book' = b /\ section' = s
    /\ FreshReader
    /\ raster' = [s \in Sections |-> IF s = 0 THEN "here" ELSE "absent"]
    /\ UNCHANGED <<modal, skin, chrome>>

-----------------------------------------------------------------------------
(* The worker threads and the clock.                                       *)

RasterLands(s) ==
    /\ mode = "Reader" /\ raster[s] = "absent"
    /\ raster' = [raster EXCEPT ![s] = "sent"]
    /\ UNCHANGED <<appVars, section, view, repaint, pages, crisp, targets, threadVars,
                   loopVars, screenVars, keys>>

\* PageThemer: one thread, first in first out.
ThemePage ==
    /\ themeQ # <<>>
    /\ themeQ' = Tail(themeQ)
    /\ themeOut' = Append(themeOut, Head(themeQ))
    /\ UNCHANGED <<appVars, readerVars, crispOut, loopVars, screenVars, keys>>

\* PageRasterWorker: always answers, with nothing when the render failed.
CrispLands(s) ==
    /\ s \in crisp.requested \ crispOut
    /\ crispOut' = crispOut \cup {s}
    /\ UNCHANGED <<appVars, readerVars, themeQ, themeOut, loopVars, screenVars, keys>>

\* Nothing is being made for the reader, and nothing is left to collect.
Quiet ==
    /\ \A s \in Sections : raster[s] = "here"
    /\ pages.requested = {} /\ crisp.requested = {}
    /\ pc = "input"

\* PAGE_SETTLE_BUDGET runs out on the recorded wait.  The loop turns many
\* times in that budget, so a frame that is due has been drawn, and a wait
\* whose sides have moved has been recorded anew.
Expire ==
    /\ wait # None /\ ~wait.spent /\ ~dirty
    /\ Pending /\ wait.have = ShownSections /\ wait.want = Placeable
    /\ Slow \/ Quiet
    /\ wait' = [wait EXCEPT !.spent = TRUE]
    /\ UNCHANGED <<appVars, readerVars, threadVars, pc, dirty, fullRedraw, modalShown,
                   screenVars, keys>>

-----------------------------------------------------------------------------
(* The event loop.                                                         *)

\* poll_pages: the wait to record, from what the deck shows and what it
\* should; a pair that moves starts the clock again.
WaitOn(pending, want) ==
    IF ~pending THEN None
    ELSE IF wait # None /\ wait.have = ShownSections /\ wait.want = want THEN wait
    ELSE [have |-> ShownSections, want |-> want, spent |-> FALSE]

\* What one turn of the loop does before drawing: animating(), poll_pages,
\* the modal check and take_repaint.
Turn ==
    /\ pc = "input" /\ pc' = "drawing"
    /\ UNCHANGED <<appVars, section, view, targets, themeQ, screenVars, keys>>
    /\ pages' = IF InPdf THEN ThemedDrained ELSE pages
    /\ crisp' = IF InPdf THEN CrispDrained ELSE crisp
    /\ raster' = IF InPdf THEN RasterDrained ELSE raster
    /\ themeOut' = IF InPdf THEN <<>> ELSE themeOut
    /\ crispOut' = IF InPdf THEN {} ELSE crispOut
    /\ wait' = WaitOn(Pending', Placeable')
    /\ LET redraw == modal # modalShown \/ repaint
       IN  /\ fullRedraw' = (fullRedraw \/ redraw)
           /\ dirty' = (dirty \/ Settling \/ (wait' # None /\ ~wait'.spent) \/ redraw)
    /\ modalShown' = modal
    /\ repaint' = FALSE

\* The last frame was too recent: whatever is dirty waits for the next turn.
Throttled ==
    /\ pc = "drawing" /\ pc' = "input"
    /\ UNCHANGED <<appVars, readerVars, threadVars, dirty, fullRedraw, modalShown, wait,
                   screenVars, keys>>

-----------------------------------------------------------------------------
(* Drawing a frame.                                                        *)

\* theme_base_page for the pages around the reader: what is rasterized and
\* neither themed nor asked for.
BaseWants(pg) ==
    LET lo == IF section < ThemeAhead THEN 0 ELSE section - ThemeAhead
        hi == IF section + ThemeAhead < NumSections THEN section + ThemeAhead ELSE NumSections - 1
        near == [i \in 1 .. hi - lo + 1 |-> Key(lo + i - 1, Base, skin)]
    IN  IF Faithfully(skin) THEN <<>>
        ELSE SelectSeq(near, LAMBDA k : /\ RasterReady(k.section)
                                        /\ ~Contains(pg.themed, k)
                                        /\ k \notin pg.requested)

Single == Len(Visible) = 1
WantsCrisp == Single /\ view # "fit"

\* crisp_ready: the very bytes page_png will look up.
CrispReady(pg, cr) ==
    /\ section \in cr.rasters
    /\ Faithfully(skin) \/ Contains(pg.themed, Key(section, Crisp, skin))

\* request_page_theme at the crisp width: its raster is there to theme.
CrispWants(pg, cr) ==
    LET k == Key(section, Crisp, skin)
    IN  IF ~Faithfully(skin) /\ section \in cr.rasters /\ ~Contains(pg.themed, k)
           /\ k \notin pg.requested
        THEN <<k>> ELSE <<>>

\* page_png: the chosen raster's bytes, else the base raster's.
HasBytes(pg, cr, s, r) ==
    IF ~Faithfully(skin) THEN Contains(pg.themed, Key(s, r, skin))
    ELSE IF r = Base THEN RasterReady(s) ELSE s \in cr.rasters

PageBytes(pg, cr, s) ==
    LET chosen == IF s \in cr.effective /\ HasBytes(pg, cr, s, Crisp) THEN Crisp ELSE Base
    IN  IF HasBytes(pg, cr, s, chosen) THEN [book |-> book, policy |-> skin, raster |-> chosen]
        ELSE None

\* The placement of each visible page, against the raster chosen for it.
TargetsFor(cr) ==
    [i \in DOMAIN Visible |->
        LET r == IF Visible[i] \in cr.effective THEN Crisp ELSE Base
        IN  [section |-> Visible[i], spot |-> chrome, raster |-> r,
             shape |-> <<chrome, IF Single THEN view ELSE "fit", r>>]]

AllRastered == \A s \in Range(Visible) : RasterReady(s)
FrameTargets(cr) == IF AllRastered THEN TargetsFor(cr) ELSE <<>>

\* sync_pages and capture_pdf_targets: a page without a raster empties the
\* frame's targets.
Captured ==
    LET synced == [ThemedDrained EXCEPT !.policy = skin]
        wants  == BaseWants(synced)
        pg     == [synced EXCEPT !.requested = @ \cup Range(wants)]
        cr0    == [CrispDrained EXCEPT !.effective = {}]
        cr     == IF ~(AllRastered /\ WantsCrisp) THEN cr0
                  ELSE IF CrispReady(pg, cr0) THEN [cr0 EXCEPT !.effective = {section}]
                  ELSE IF section \in cr0.rasters \cup cr0.failed THEN cr0
                  ELSE [cr0 EXCEPT !.requested = @ \cup {section}]
        sharp  == IF AllRastered /\ WantsCrisp /\ cr.effective = {} THEN CrispWants(pg, cr0) ELSE <<>>
    IN  [pages   |-> [pg EXCEPT !.requested = @ \cup Range(sharp)],
         crisp   |-> cr,
         themeQ  |-> themeQ \o wants \o sharp,
         targets |-> FrameTargets(cr)]

\* page_escapes after the view has drawn, from the deck and the terminal a
\* full redraw has already cleared.
\* (mutant: a frame without targets takes the pages down)
EscapesTearDown(d, t, ts, png) ==
    IF ~InPdf \/ ts = <<>>
    THEN IF d.shown = <<>> THEN [deck |-> d, term |-> t]
         ELSE [deck |-> ClearedDeck(d), term |-> ClearedTerm(d, t)]
    ELSE [deck |-> RenderedDeck(d, ts, skin, png), term |-> RenderedTerm(d, t, ts, skin, png)]

Escapes(d, t, ts, png) ==
    IF ~InPdf
    THEN IF d.shown = <<>> THEN [deck |-> d, term |-> t]
         ELSE [deck |-> ClearedDeck(d), term |-> ClearedTerm(d, t)]
    ELSE IF ts = <<>> THEN [deck |-> d, term |-> t]
    ELSE [deck |-> RenderedDeck(d, ts, skin, png), term |-> RenderedTerm(d, t, ts, skin, png)]

Draw ==
    /\ pc = "drawing" /\ dirty
    /\ IF mode = "Reader"
       THEN /\ pages' = Captured.pages /\ crisp' = Captured.crisp
            /\ themeQ' = Captured.themeQ /\ targets' = Captured.targets
            /\ themeOut' = <<>> /\ crispOut' = {}
       ELSE UNCHANGED <<pages, crisp, targets, threadVars>>
    /\ LET d   == IF fullRedraw THEN RestagedDeck(deck) ELSE deck
           t   == IF fullRedraw THEN WipedTerm(term) ELSE term
           png == [s \in Sections |-> PageBytes(pages', crisp', s)]
           out == Escapes(d, t, targets', png)
       IN  deck' = out.deck /\ term' = out.term
    /\ pc' = "input" /\ dirty' = FALSE /\ fullRedraw' = FALSE
    /\ UNCHANGED <<appVars, section, view, repaint, raster, modalShown, wait, keys>>

-----------------------------------------------------------------------------
Init ==
    /\ DeckInit
    /\ mode = "Reader" /\ modal = FALSE
    /\ book \in Books /\ section \in Sections
    /\ skin \in Policies /\ view = "fit" /\ chrome = FALSE /\ repaint = FALSE
    /\ raster = [s \in Sections |-> IF s = 0 THEN "here" ELSE "absent"]
    /\ pages = [policy |-> CHOOSE p \in Policies : TRUE, themed |-> <<>>, requested |-> {}]
    /\ crisp = [rasters |-> {}, requested |-> {}, failed |-> {}, effective |-> {}]
    /\ themeQ = <<>> /\ themeOut = <<>> /\ crispOut = {}
    /\ targets = <<>>
    /\ pc = "drawing" /\ dirty = TRUE   \* run() draws before it loops
    /\ fullRedraw = FALSE /\ modalShown = FALSE /\ wait = None
    /\ keys = 0

Next ==
    \/ Flip \/ Jump \/ Restyle \/ Zoom \/ Chrome \/ Modal \/ Leave \/ Open
    \/ \E s \in Sections : RasterLands(s) \/ CrispLands(s)
    \/ ThemePage
    \/ Expire
    \/ Turn \/ Draw \/ Throttled

Spec == Init /\ [][Next]_vars

\* The worker threads run; the loop's poll times out when no key comes, so
\* it always turns; a dirty frame is held back for one frame interval only;
\* and the clock advances.
Fairness ==
    /\ \A s \in Sections : WF_vars(RasterLands(s)) /\ WF_vars(CrispLands(s))
    /\ WF_vars(ThemePage)
    /\ WF_vars(Turn) /\ WF_vars(Throttled) /\ SF_vars(Draw)
    /\ WF_vars(Expire)

FairSpec == Spec /\ Fairness

-----------------------------------------------------------------------------
(* Properties.                                                             *)

ViewTypeOK ==
    /\ mode \in {"Reader", "Library"} /\ modal \in BOOLEAN /\ chrome \in BOOLEAN
    /\ book \in Books /\ section \in Sections /\ skin \in Policies /\ view \in Views
    /\ raster \in [Sections -> {"absent", "sent", "here"}]
    /\ Len(pages.themed) <= ThemedCap
    /\ Range(themeQ) \cup Range(themeOut) = pages.requested
    /\ crispOut \subseteq crisp.requested
    /\ crisp.effective \subseteq crisp.rasters

\* A frame that is not a full redraw never takes the page down with nothing
\* in its place: a turn holds the old page up until the new one can be
\* placed, and a spread arrives whole.
TurnNeverBlanks ==
    [][~fullRedraw /\ InPdf /\ DOMAIN term.placed # {} => DOMAIN term'.placed # {}]_<<term>>

\* A spread stands whole on the screen, or not at all.
SpreadWhole ==
    DOMAIN term.placed # {} =>
        \E s \in Sections : DOMAIN term.placed = {Left(s) + i : i \in 0 .. Span - 1} \cap Sections

\* Spreads come and go whole, with nothing missing and nothing blank between.
TurnsWhole == []SpreadWhole /\ TurnNeverBlanks

\* A held j or k shows every page it passes: it never leaves a page the
\* terminal is not showing, unless that page cannot be rasterized.
FlipsFromAPageInView ==
    [][Flip => section \in DOMAIN term.placed \/ section \in Broken]_vars

\* What the screen should end up showing.
WantedRaster(s) == IF WantsCrisp /\ s \notin SoftOnly THEN Crisp ELSE Base
ShownRight ==
    /\ DOMAIN term.placed = Range(Visible)
    /\ \A s \in Range(Visible) :
          /\ term.data[s] = [book |-> book, policy |-> skin, raster |-> WantedRaster(s)]
          /\ term.placed[s].spot = chrome
          /\ term.placed[s].shape =
                 <<chrome, IF Single THEN view ELSE "fit", WantedRaster(s)>>

\* Once the keys stop, the page (or spread) the reader is on ends up on the
\* screen, as the settings and the zoom want it, with no further key.
PagesAppear == <>[](InPdf /\ Range(Visible) \cap Broken = {} => ShownRight)

\* When a page may take longer than the loop is ready to wait, the pages the
\* reader is on still end up on the screen, perhaps not as the settings want
\* them, or the wait for them was given up.
ShownOrGivenUp ==
    <>[](/\ InPdf /\ Range(Visible) \cap Broken = {}
         /\ ~(wait # None /\ wait.spent)
         => DOMAIN term.placed = Range(Visible))

\* Once the keys stop the loop stops redrawing: nothing burns a core on a
\* book that is sitting still.
LoopRests == <>[](~dirty /\ ~Settling)

\* Once the keys stop a bare j or k is honoured again: no page, rendered or
\* not, locks the reader in place.
FlipsAgain == <>[](InPdf => FlipReady)

\* Together: when the keys stop, the page appears and the reader may go on.
ComesRight == PagesAppear /\ FlipsAgain

\* Together: when the keys stop, the wait for the page ends, one way or the
\* other, and the loop with it.
ViewSettles == LoopRests /\ ShownOrGivenUp

\* Back in the library no page image is left in the terminal.
LeavingFrees == mode = "Library" /\ pc = "input" /\ ~dirty => DOMAIN term.data = {}

\* A page on screen belongs to the book that is open.
RightBook ==
    InPdf /\ pc = "input" /\ ~dirty => \A s \in DOMAIN term.placed : term.data[s].book = book

=============================================================================
