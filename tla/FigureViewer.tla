----------------------------- MODULE FigureViewer -----------------------------
(***************************************************************************)
(* The figure viewer and the code browser over the page (image_view.rs,    *)
(* figure_scan.rs, code_view.rs, dispatch/overlays.rs).  The viewer opens  *)
(* on the chapter's figures; in book scope a thread of its own loads the   *)
(* other sections, nearest first, and each is merged into the list while   *)
(* the reader moves in it, filters it and has one figure on the screen,    *)
(* as an image the terminal keeps until it is told to drop it.             *)
(*                                                                         *)
(* A figure is <<section, index among the section's images>>.  What a name *)
(* or a caption says is the one digit a filter could find in it, 0 when    *)
(* none.                                                                   *)
(***************************************************************************)
EXTENDS Integers, FiniteSets, Subsequences, SequencesExt

CONSTANTS
    FigBook,            \* per section, its images: "named", "bare", "math", "empty", "odd", "torn"
    FigDigit,           \* the digit the name of a "named" figure has in it
    FigCode,            \* per section, how many code blocks it has
    FigFolders,         \* whether a search for folders may come to an end meanwhile
    FigStrokes          \* a bound on the keys, clicks and wheel steps

Chapters == DOMAIN FigBook
ASSUME FigAssumption ==
    /\ FigBook \in Seq(Seq({"named", "bare", "math", "empty", "odd", "torn"}))
    /\ FigCode \in [Chapters -> Nat] /\ FigDigit \in 0 .. 9
    /\ FigFolders \in BOOLEAN /\ FigStrokes \in Nat

VARIABLES
    viewer,         \* the figure viewer
    browser,        \* the code browser
    shot,           \* the picture it built: for which figure, under which look, its terminal image
    scan,           \* the scan of the other sections
    resident,       \* images the terminal keeps for the viewer
    tossed,         \* images to be dropped: the viewer's own queue, then the app's
    look,           \* the image mode and the size of the box a figure is drawn in
    page,           \* the reader: section, images in view, badges, the place jumped to
    rows,           \* the rows of the list as last drawn, and the row clicked last
    presses
figVars == <<viewer, browser, shot, scan, resident, tossed, look, page, rows, presses>>

\* (image_view.rs is_openable) neither an equation nor an image without bytes.
Openable(kind) == kind \notin {"math", "empty"}
\* (openable_image_indices)
OpenableIn(s) == {i \in DOMAIN FigBook[s] : Openable(FigBook[s][i])}
\* A function TLC would work out at each use is a sequence it holds.
AsList(list) == list \o <<>>
OpenableOrder(s) == Retained([i \in DOMAIN FigBook[s] |-> i], OpenableIn(s))
\* (collect_figures) in reading order; a bare one is named once the list is whole.
Collected ==
    [s \in Chapters |->
        LET at == OpenableOrder(s)
        IN AsList([k \in DOMAIN at |->
               LET kind == FigBook[s][at[k]]
               IN [id |-> <<s, at[k]>>, unnamed |-> kind # "named", kind |-> kind,
                   says |-> IF kind = "named" THEN FigDigit ELSE 0]])]
\* (label_figures) "Figure n" by the place in the list.
Labelled(figs) == AsList([k \in DOMAIN figs |-> IF figs[k].unnamed THEN [figs[k] EXCEPT !.says = k] ELSE figs[k]])

NoViewer == [open |-> FALSE, figs |-> <<>>, view |-> <<>>, sel |-> 1, whole |-> FALSE,
             filter |-> 0, mode |-> "list"]
\* (ImageViewer::new)
Opened(figs, whole) ==
    [NoViewer EXCEPT !.open = TRUE, !.figs = Labelled(figs), !.view = AsList([k \in DOMAIN figs |-> k]),
                     !.whole = whole]

Clamped(k, n) == IF k <= n THEN k ELSE IF n = 0 THEN 1 ELSE n
\* (refilter)
Refiltered(v) ==
    LET passes == Retained([k \in DOMAIN v.figs |-> k],
                           {k \in DOMAIN v.figs : v.filter = 0 \/ v.figs[k].says = v.filter})
    IN [v EXCEPT !.view = passes, !.sel = Clamped(v.sel, Len(passes))]
\* (current) the figure under the cursor; none when a filter left none.
HasCurrent(v) == v.sel \in DOMAIN v.view
Current(v) == v.figs[v.view[v.sel]]

OfSections(figs, S) == Retained(figs, {f \in Range(figs) : f.id[1] \in S})
\* A mutant: the cursor keeps its row.
MergeUnderTheCursor(v, s, figs) ==
    Refiltered([v EXCEPT !.figs =
        Labelled(OfSections(v.figs, 1 .. s - 1) \o figs \o OfSections(v.figs, s + 1 .. Len(FigBook)))])
\* (merge_section) the section's figures replace those held, in the order of the
\* book, all are numbered afresh, and the cursor stays on its figure if that is
\* still listed.
Merge(v, s, figs) ==
    LET all == Labelled(OfSections(v.figs, 1 .. s - 1) \o figs
                            \o OfSections(v.figs, s + 1 .. Len(FigBook)))
        fresh == Refiltered([v EXCEPT !.figs = all])
        at == {k \in DOMAIN fresh.view : HasCurrent(v) /\ all[fresh.view[k]].id = Current(v).id}
    IN IF at = {} THEN fresh ELSE [fresh EXCEPT !.sel = CHOOSE k \in at : \A j \in at : k <= j]
\* The sections sent are merged one after the other.
Merged(v, sent) ==
    LET after[n \in 0 .. Len(sent)] ==
            IF n = 0 THEN v ELSE Merge(after[n - 1], sent[n], Collected[sent[n]])
    IN after[Len(sent)]

\* (select_image) the figure nearest to image i of the section, the first of two.
Selected(v, i) ==
    LET far(k) == LET d == v.figs[v.view[k]].id[2] - i IN IF d < 0 THEN -d ELSE d
    IN [v EXCEPT !.sel = CHOOSE k \in DOMAIN v.view :
           \A other \in DOMAIN v.view : far(k) < far(other) \/ (far(k) = far(other) /\ k <= other)]

-----------------------------------------------------------------------------
(* The scan (figure_scan.rs).                                              *)

NoScan == [on |-> FALSE, left |-> <<>>, sent |-> <<>>, done |-> 0, total |-> 0]
Outward(here) ==
    [k \in 1 .. 2 * Len(FigBook) |-> IF k % 2 = 1 THEN here - ((k + 1) \div 2) ELSE here + (k \div 2)]
\* (scan_order) by the distance, the earlier of two first: every place from here
\* outwards, those of the book.
ScanOrder == [here \in Chapters |-> AsList(Retained(Outward(here), Chapters))]
StartScan(here) ==
    LET order == ScanOrder[here] IN [NoScan EXCEPT !.on = TRUE, !.left = order, !.total = Len(order)]

\* The worker loads the next section and sends its figures.  Once the scan is
\* dropped its flag is up and nobody takes what it sends: it ends, unseen.
ScanWorker ==
    /\ scan.on /\ scan.left # <<>>
    /\ scan' = [scan EXCEPT !.left = Tail(@), !.sent = Append(@, Head(scan.left))]
    /\ UNCHANGED <<viewer, browser, shot, resident, tossed, look, page, rows, presses>>

\* (poll_figure_scan) every section sent is merged, one after the other; a scan
\* that is through, or whose viewer is gone, is dropped.
PollFigureScan ==
    /\ scan.on
    /\ LET done == IF scan.done + Len(scan.sent) < scan.total THEN scan.done + Len(scan.sent)
                                                              ELSE scan.total
       IN /\ viewer' = IF viewer.open THEN Merged(viewer, scan.sent) ELSE viewer
          /\ scan' = IF viewer.open /\ done < scan.total THEN [scan EXCEPT !.sent = <<>>, !.done = done]
                     ELSE NoScan
    /\ UNCHANGED <<browser, shot, resident, tossed, look, page, rows, presses>>

-----------------------------------------------------------------------------
(* The picture and the terminal's images.                                  *)

NoShot == [for |-> <<>>, image |-> 0]
InUse == resident \cup tossed.viewer \cup tossed.app
Fresh == CHOOSE image \in 1 .. Cardinality(InUse) + 1 : image \notin InUse
\* A mutant: the picture in the way is forgotten.
RetiredUnseen(queue) == queue
\* (retire_current)
Retired(queue) == IF shot.image = 0 THEN queue ELSE queue \cup {shot.image}

\* (view/image.rs render, ensure_proto) the picture is built again when the
\* figure, the mode or the box is another; one whose size cannot be read is not
\* shown at all, and one that does not decode builds nothing.
DrawViewer ==
    /\ rows' = [rows EXCEPT !.drawn = IF viewer.open THEN Len(viewer.view) ELSE 0]
    /\ IF viewer.open /\ HasCurrent(viewer) /\ Current(viewer).kind # "odd"
          /\ shot.for # <<Current(viewer).id, look>>
       THEN LET image == IF Current(viewer).kind = "torn" THEN 0 ELSE Fresh
            IN /\ tossed' = [tossed EXCEPT !.viewer = Retired(@)]
               /\ shot' = [for |-> <<Current(viewer).id, look>>, image |-> image]
               /\ resident' = resident \cup ({image} \ {0})
       ELSE UNCHANGED <<tossed, shot, resident>>
    /\ UNCHANGED <<viewer, browser, scan, look, page, presses>>

\* (take_image_deletes) once a turn of the loop.
TakeDeletes ==
    /\ tossed # [viewer |-> {}, app |-> {}]
    /\ resident' = resident \ (tossed.app \cup IF viewer.open THEN tossed.viewer ELSE {})
    /\ tossed' = [viewer |-> IF viewer.open THEN {} ELSE tossed.viewer, app |-> {}]
    /\ UNCHANGED <<viewer, browser, shot, scan, look, page, rows, presses>>

\* (retire_image_viewer) the picture and the viewer's queue pass to the app.
RetireViewer ==
    /\ tossed' = [viewer |-> {}, app |-> tossed.app \cup Retired(tossed.viewer)]
    /\ shot' = NoShot
\* (close_image_viewer)
CloseViewer ==
    /\ RetireViewer
    /\ viewer' = NoViewer
    /\ scan' = NoScan

-----------------------------------------------------------------------------
(* Opening: the images in view, and badges to choose among them.           *)

FigPress == presses < FigStrokes /\ presses' = presses + 1
OnPage == ~viewer.open /\ ~browser.open

\* (visible_elements) the images in view the viewer can open, nine at most.
VisibleElements ==
    LET in == Retained(page.seen, OpenableIn(page.section))
    IN SubSeq(in, 1, IF Len(in) > 9 THEN 9 ELSE Len(in))

OpenImageAt(i) ==
    LET figs == Collected[page.section]
    IN viewer' = IF figs = <<>> THEN NoViewer ELSE Selected(Opened(figs, FALSE), i)

\* (open_images, hint_start)
OpenImages ==
    /\ FigPress /\ OnPage /\ page.badges = <<>>
    /\ LET targets == VisibleElements
       IN IF Len(targets) = 1 THEN OpenImageAt(targets[1]) /\ UNCHANGED page
          ELSE page' = [page EXCEPT !.badges = targets] /\ UNCHANGED viewer
    /\ UNCHANGED <<browser, shot, scan, resident, tossed, look, rows>>

\* (hint_key, hint_pick) a digit opens its figure; one that is on no badge leaves
\* the badges, and any other key takes them away.
PickBadge(n) ==
    /\ FigPress /\ OnPage /\ n \in DOMAIN page.badges
    /\ OpenImageAt(page.badges[n])
    /\ page' = [page EXCEPT !.badges = <<>>]
    /\ UNCHANGED <<browser, shot, scan, resident, tossed, look, rows>>
CancelBadges ==
    /\ FigPress /\ OnPage /\ page.badges # <<>>
    /\ page' = [page EXCEPT !.badges = <<>>]
    /\ UNCHANGED <<viewer, browser, shot, scan, resident, tossed, look, rows>>

\* The wheel rolls the page under the badges, into the next chapter as well.
RollUnderBadges ==
    /\ FigPress /\ OnPage
    /\ \E s \in Chapters : \E a \in 1 .. Len(FigBook[s]), b \in 0 .. Len(FigBook[s]) :
          page' = [page EXCEPT !.section = s, !.seen = SubSeq([i \in DOMAIN FigBook[s] |-> i], a, b),
                               !.landed = <<>>]
    /\ UNCHANGED <<viewer, browser, shot, scan, resident, tossed, look, rows>>

-----------------------------------------------------------------------------
(* Keys and clicks in the viewer (image_key, overlay_click, overlay_wheel). *)

InList == viewer.open /\ viewer.mode = "list"
FiguresListed == Len(viewer.view)
ViewerKeeps == UNCHANGED <<browser, shot, scan, resident, tossed, look, page, rows>>

\* (list_nav, with the cursor's clamps; n, N and the wheel go round)
Move ==
    /\ FigPress /\ InList /\ FiguresListed > 0
    /\ \E to \in {Clamped(viewer.sel + 1, FiguresListed), IF viewer.sel = 1 THEN 1 ELSE viewer.sel - 1,
                  1, FiguresListed, (viewer.sel % FiguresListed) + 1,
                  ((viewer.sel - 2) % FiguresListed) + 1} : viewer' = [viewer EXCEPT !.sel = to]
    /\ ViewerKeeps
WheelInList ==
    /\ FigPress /\ viewer.open /\ viewer.mode # "list" /\ FiguresListed > 0
    /\ \E d \in {-1, 1} : viewer' = [viewer EXCEPT !.sel = ((viewer.sel - 1 + d) % FiguresListed) + 1]
    /\ ViewerKeeps

\* A field takes every key; Esc in the filter empties it.
OpenField(mode) ==
    /\ FigPress /\ InList
    /\ viewer' = [viewer EXCEPT !.mode = mode]
    /\ ViewerKeeps
\* (set_filter) one digit is all a filter holds here; to type on is to find nothing.
TypeFilter ==
    /\ FigPress /\ viewer.open /\ viewer.mode = "filter"
    /\ \E f \in 0 .. 9 :
          /\ f = 0 \/ viewer.filter = 0
          /\ f = 0 \/ \E k \in DOMAIN viewer.figs : viewer.figs[k].says = f
          /\ viewer' = Refiltered([viewer EXCEPT !.filter = f])
    /\ ViewerKeeps
LeaveField ==
    /\ FigPress /\ viewer.open /\ viewer.mode # "list"
    /\ \/ viewer' = [viewer EXCEPT !.mode = "list"]     \* Enter, and Esc in the save path
       \/ /\ viewer.mode = "filter"
          /\ viewer' = Refiltered([viewer EXCEPT !.mode = "list", !.filter = 0])
    /\ ViewerKeeps

\* (toggle_image_scope) a viewer on the chapter's figures again, and a scan when
\* it is of the book; a scan in its way is dropped.
ToggleScope ==
    /\ FigPress /\ InList
    /\ viewer' = Opened(Collected[page.section], ~viewer.whole)
    /\ scan' = IF viewer.whole THEN NoScan ELSE StartScan(page.section)
    /\ RetireViewer
    /\ UNCHANGED <<browser, resident, look, page, rows>>

\* (m, and a terminal of another size)
CycleImageMode ==
    /\ FigPress /\ InList
    /\ look' = [look EXCEPT !.mode = 1 - @]
    /\ UNCHANGED <<viewer, browser, shot, scan, resident, tossed, page, rows>>
ResizeBox ==
    /\ FigPress
    /\ look' = [look EXCEPT !.box = 1 - @]
    /\ UNCHANGED <<viewer, browser, shot, scan, resident, tossed, page, rows>>

\* (image_go_selected, jump_to_image) the next frame scrolls to the figure.
GoSelected(v) ==
    IF HasCurrent(v)
    THEN /\ page' = [page EXCEPT !.section = Current(v).id[1], !.landed = Current(v).id]
         /\ CloseViewer
    ELSE viewer' = v /\ UNCHANGED <<page, tossed, shot, scan>>
GoToFigure ==
    /\ FigPress /\ InList
    /\ GoSelected(viewer)
    /\ UNCHANGED <<browser, resident, look, rows>>
\* A click takes the row as it was last drawn; a second one on that row goes.
ClickFigure ==
    /\ FigPress /\ viewer.open
    /\ \E k \in 1 .. rows.drawn :
          IF rows.clicked = k
          THEN GoSelected([viewer EXCEPT !.sel = k]) /\ rows' = [rows EXCEPT !.clicked = 0]
          ELSE /\ viewer' = [viewer EXCEPT !.sel = k]
               /\ rows' = [rows EXCEPT !.clicked = k]
               /\ UNCHANGED <<page, tossed, shot, scan>>
    /\ UNCHANGED <<browser, resident, look>>
LeaveViewer ==
    /\ FigPress /\ InList
    /\ CloseViewer
    /\ UNCHANGED <<browser, resident, look, page, rows>>

\* (poll_discover) folders found put their own popup in the place of the viewer.
FoldersFound ==
    /\ FigFolders /\ viewer.open
    /\ viewer' = NoViewer /\ shot' = NoShot
    /\ tossed' = [tossed EXCEPT !.viewer = {}]
    /\ UNCHANGED <<browser, scan, resident, look, page, rows, presses>>

-----------------------------------------------------------------------------
(* The code browser (code_view.rs).  The whole book is decoded on the spot. *)

Blocks(s) == [i \in 1 .. FigCode[s] |-> <<s, i>>]
CodeBlocks(whole) ==
    IF whole THEN FlattenSeq([s \in Chapters |-> Blocks(s)])
    ELSE Blocks(page.section)
NoBrowser == [open |-> FALSE, list |-> <<>>, sel |-> 1, whole |-> FALSE]
\* (CodeView::new, select_code) on the block asked for if it is listed.
Browser(list, whole, on) ==
    [open |-> TRUE, list |-> list, whole |-> whole,
     sel |-> IF on \in Range(list) THEN CHOOSE k \in DOMAIN list : list[k] = on ELSE 1]

BrowserKeeps == UNCHANGED <<viewer, shot, scan, resident, tossed, look, rows>>
OpenCodeView ==
    /\ FigPress /\ OnPage /\ page.badges = <<>> /\ CodeBlocks(FALSE) # <<>>
    /\ \E near \in 0 .. FigCode[page.section] :
          browser' = Browser(CodeBlocks(FALSE), FALSE, <<page.section, near>>)
    /\ BrowserKeeps /\ UNCHANGED page
MoveInCode ==
    /\ FigPress /\ browser.open
    /\ LET n == Len(browser.list)
       IN \E to \in {1, n, (browser.sel % n) + 1, ((browser.sel - 2) % n) + 1} :
             browser' = [browser EXCEPT !.sel = to]
    /\ BrowserKeeps /\ UNCHANGED page
ToggleCodeScope ==
    /\ FigPress /\ browser.open
    /\ browser' = Browser(CodeBlocks(~browser.whole), ~browser.whole, browser.list[browser.sel])
    /\ BrowserKeeps /\ UNCHANGED page
\* (code_go_selected, jump_to_code), or Esc
LeaveCode(going) ==
    /\ FigPress /\ browser.open
    /\ browser' = NoBrowser
    /\ page' = IF going THEN [page EXCEPT !.section = browser.list[browser.sel][1],
                                          !.landed = browser.list[browser.sel]]
               ELSE page
    /\ BrowserKeeps

-----------------------------------------------------------------------------
FigInit ==
    /\ viewer = NoViewer /\ browser = NoBrowser /\ shot = NoShot /\ scan = NoScan
    /\ resident = {} /\ tossed = [viewer |-> {}, app |-> {}]
    /\ look = [mode |-> 0, box |-> 0]
    /\ \E s \in Chapters :
          page = [section |-> s, seen |-> [i \in DOMAIN FigBook[s] |-> i], badges |-> <<>>, landed |-> <<>>]
    /\ rows = [drawn |-> 0, clicked |-> 0]
    /\ presses = 0

ViewerKey ==
    \/ Move \/ WheelInList \/ OpenField("filter") \/ OpenField("save") \/ TypeFilter \/ LeaveField
    \/ ToggleScope \/ CycleImageMode \/ ResizeBox \/ GoToFigure \/ ClickFigure \/ LeaveViewer
PageKey == OpenImages \/ (\E n \in 1 .. 9 : PickBadge(n)) \/ CancelBadges \/ RollUnderBadges \/ OpenCodeView
CodeKey == MoveInCode \/ ToggleCodeScope \/ LeaveCode(TRUE) \/ LeaveCode(FALSE)
FigNext ==
    \/ ScanWorker \/ PollFigureScan \/ DrawViewer \/ TakeDeletes
    \/ PageKey \/ ViewerKey \/ CodeKey \/ FoldersFound
FigSpec == FigInit /\ [][FigNext]_figVars

-----------------------------------------------------------------------------
(* What the viewer promises.                                               *)

Earlier(a, b) == a[1] < b[1] \/ (a[1] = b[1] /\ a[2] < b[2])
Ids(figs) == {figs[k].id : k \in DOMAIN figs}
FiguresOf(s) == {<<s, i>> : i \in OpenableIn(s)}
\* Where the figures listed come from: the chapter, and every section taken.
ToCome == Range(scan.left) \cup Range(scan.sent)

\* Every image the terminal keeps for the viewer is on the screen or in a queue
\* that frees it, however figures, modes, sizes and scopes follow each other
\* (retire_current, retire_image_viewer: "so the resident Kitty image isn't
\* leaked").  The list is in the order of the book with its bare figures
\* numbered by their place in it, and it is the chapter's, or the book's without
\* the sections the scan has yet to bring: none is lost, none is there twice.
FiguresAccounted ==
    /\ resident \subseteq {shot.image} \cup tossed.viewer \cup tossed.app
    /\ viewer.open =>
          /\ \A a, b \in DOMAIN viewer.figs : a < b => Earlier(viewer.figs[a].id, viewer.figs[b].id)
          /\ \A k \in DOMAIN viewer.figs : viewer.figs[k].unnamed => viewer.figs[k].says = k
          /\ Ids(viewer.figs) = IF viewer.whole
                                THEN UNION {FiguresOf(s) : s \in Chapters \ (IF scan.on THEN ToCome ELSE {})}
                                ELSE FiguresOf(page.section)
          /\ scan.on => viewer.whole /\ scan.total - scan.done = Cardinality(ToCome)
    /\ ~viewer.open /\ scan.on => FigFolders

\* While sections come in, the figure under the cursor stays the figure under the
\* cursor, if the filter still lets it through (merge_section); a badge opens the
\* figure it is on, if the page is still the one that was badged; and both popups
\* go to the place of what they had under the cursor.
SelectionHeld ==
    /\ [][(viewer.open /\ viewer'.open /\ presses' = presses /\ HasCurrent(viewer))
             => \/ HasCurrent(viewer') /\ Current(viewer').id = Current(viewer).id
                \/ \A k \in DOMAIN viewer'.view : viewer'.figs[viewer'.view[k]].id # Current(viewer).id]_figVars
    /\ [][OpenImages /\ viewer'.open
             => Current(viewer').id = <<page.section, VisibleElements[1]>>]_figVars
    /\ [][\A n \in DOMAIN page.badges :
             PickBadge(n) /\ page.badges[n] \in OpenableIn(page.section)
                 => Current(viewer').id = <<page.section, page.badges[n]>>]_figVars
    /\ [][(viewer.open /\ ~viewer'.open /\ page' # page)
             => page'.landed \in Ids(viewer.figs) /\ page'.landed[1] = page'.section]_figVars
    /\ [][(browser.open /\ browser'.open /\ browser'.whole) /\ ~browser.whole
             => browser'.list[browser'.sel] = browser.list[browser.sel]]_figVars
=============================================================================
