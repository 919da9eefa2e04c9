----------------------------- MODULE LibraryDesk -----------------------------
(***************************************************************************)
(* The library view (app/library.rs, select.rs, collections.rs, confirm.rs *)
(* and the store's shelves): the list shown, the cursor, the marks and the *)
(* sidebar, read again from the store after each change, while the launch  *)
(* scan adds and prunes books over a connection of its own.  Books are in  *)
(* title order.  Ratings, status and tags, the panes' focus and the other  *)
(* popups are left out.                                                    *)
(***************************************************************************)
EXTENDS Integers, Sequences, SequencesExt, FiniteSets, Subsequences

CONSTANTS
    ByTitle,      \* the books, in title order
    ByName,       \* the collections' names, sorted
    Found,        \* books the search query matches
    DeskStrokes   \* bound: keys and clicks of one behaviour

ASSUME DeskAssumption ==
    /\ ByTitle \in Seq(ToSet(ByTitle)) /\ IsInjective(ByTitle)
    /\ ByName \in Seq(ToSet(ByName)) /\ IsInjective(ByName)
    /\ ToSet(ByName) \cap {"All", "Favorites"} = {}
    /\ DeskStrokes \in Nat

Volumes == ToSet(ByTitle)
Names == ToSet(ByName)
AllView == "All"
FavoritesView == "Favorites"

VARIABLES
    rows, fav,    \* the books table, and its favorite column
    member,       \* shelves: <<book, name>>
    collections,  \* the collections table
    onDisk,       \* files still there
    unscanned,    \* books the scan will add or prune
    scanJob,      \* a scan runs, or its end is not picked up yet
    desk,         \* LibraryState
    popup,        \* the picker, the collection editor, or none
    asked,        \* pending_confirm: books to trash, the editor's commit, or none
    taps

deskStore == <<rows, fav, member, collections, onDisk>>
scanner == <<unscanned, scanJob>>
deskVars == <<deskStore, scanner, desk, popup, asked, taps>>

NoPopup == [kind |-> "none"]
NoAsk == [kind |-> "none"]
Clamp(i, n) == IF i < 0 \/ n = 0 THEN 0 ELSE IF i >= n THEN n - 1 ELSE i
Cursor(d) == IF d.list = <<>> THEN {} ELSE {d.list[d.sel + 1]}
Marked(d) == Retained(d.list, d.marked)

----------------------------------------------------------------------------
(* refresh_library.                                                        *)
Db == [rows |-> rows, fav |-> fav, member |-> member, collections |-> collections]
InView(db, v, b) ==
    CASE v = AllView -> TRUE
      [] v = FavoritesView -> b \in db.fav
      [] OTHER -> <<b, v>> \in db.member
Shelves(db) == Retained(ByName, db.collections)
Lands(db, v) == IF v \in Names \ db.collections THEN AllView ELSE v
(* (mutant: the cursor keeps its index)                                    *)
KeptIndex(i, n) == i
SelAfter(i, n) == IF i >= n THEN Clamp(n - 1, n) ELSE i
Refreshed(db, d) ==
    LET v == Lands(db, d.view)
        shown == Retained(ByTitle, {b \in db.rows :
                     IF d.filter THEN b \in Found ELSE InView(db, v, b)})
        sorted == IF d.desc THEN Reverse(shown) ELSE shown
    IN [d EXCEPT !.view = v, !.shelves = Shelves(db), !.list = sorted,
                 !.sel = SelAfter(@, Len(sorted))]
RefreshDesk(d) == desk' = Refreshed(Db', d)

(* select.rs.                                                              *)
Unmarked(d) == [d EXCEPT !.anchor = -1, !.marked = {}, !.base = {}]
(* lib_visual_sync: books between the anchor and the cursor.               *)
Swept(d) ==
    LET last == Len(d.list) - 1
        ends == {Clamp(d.anchor, last + 1), Clamp(d.sel, last + 1)}
        i == CHOOSE x \in ends : \A y \in ends : x <= y
        j == CHOOSE x \in ends : \A y \in ends : y <= x
    IN IF last < 0 THEN {} ELSE {d.list[k + 1] : k \in i..j}
Synced(d) == IF d.anchor = -1 THEN d ELSE [d EXCEPT !.marked = d.base \cup Swept(d)]
(* A live range becomes part of the individual picks.                      *)
Committed(d) == IF d.anchor = -1 THEN d ELSE [d EXCEPT !.base = d.marked, !.anchor = -1]
Moved(d, n) == [d EXCEPT !.sel = Clamp(@ + n, Len(d.list))]
Toggled(d, bs) == [d EXCEPT !.base = SymDiff(d.base, bs), !.marked = SymDiff(d.base, bs)]

DeskInit ==
    /\ rows \in {Volumes, Volumes \ {Last(ByTitle)}} /\ onDisk \in SUBSET Volumes
    /\ fav = {} /\ collections \in {{}, Names}
    /\ member \in {{}} \cup {{b \in Volumes : ByTitle[1] = b} \X {n} : n \in collections}
    /\ unscanned = SymDiff(rows, onDisk) /\ scanJob = TRUE
    /\ desk = Refreshed(Db, [view |-> AllView, sideNew |-> FALSE, shelves |-> <<>>, list |-> <<>>,
                         sel |-> 0, marked |-> {}, base |-> {}, anchor |-> -1, desc |-> FALSE,
                         filter |-> FALSE, filtering |-> FALSE])
    /\ popup = NoPopup /\ asked = NoAsk /\ taps = 0

----------------------------------------------------------------------------
(* library_key and library_click; every key ends in lib_visual_sync.       *)
Tap == taps < DeskStrokes /\ taps' = taps + 1 /\ UNCHANGED scanner
Keyed == Tap /\ asked = NoAsk /\ popup = NoPopup /\ ~desk.filtering
Only(d) == desk' = d /\ UNCHANGED <<deskStore, popup, asked>>

Move(n) == Keyed /\ Only(Synced(Moved(desk, n)))
ToggleVisual ==
    /\ Keyed
    /\ Only(Synced(IF desk.anchor # -1 THEN Committed(desk) ELSE [desk EXCEPT !.anchor = desk.sel]))
ToggleMark == Keyed /\ Only(Moved(Toggled(Committed(desk), Cursor(desk)), 1))
MarkAll ==
    LET all == ToSet(desk.list) IN
    Keyed /\ Only([desk EXCEPT !.anchor = -1, !.base = all, !.marked = all])
EscKey ==
    /\ Keyed /\ UNCHANGED <<deskStore, popup, asked>>
    /\ IF desk.anchor # -1 \/ desk.marked # {} THEN desk' = Unmarked(desk)
       ELSE desk.filter /\ RefreshDesk([desk EXCEPT !.filter = FALSE])

(* Clicks, alone, with Ctrl and with Shift: the row index is the last      *)
(* frame's, held inside the list.                                          *)
PlainClick(at) == [desk EXCEPT !.sel = at]
CtrlClick(at) == [Toggled(Committed(desk), {desk.list[at + 1]}) EXCEPT !.sel = at]
ShiftClick(at) ==
    LET picks == desk.base \cup Swept([desk EXCEPT !.anchor = at])
    IN [desk EXCEPT !.base = picks, !.marked = picks, !.sel = at]
Click(i) ==
    /\ Tap /\ asked = NoAsk /\ popup = NoPopup /\ desk.list # <<>>
    /\ UNCHANGED <<deskStore, popup, asked>>
    /\ LET at == Clamp(i, Len(desk.list))
       IN desk' = PlainClick(at) \/ desk' = CtrlClick(at) \/ desk' = ShiftClick(at)

(* lib_set_view_index, from a key of the sidebar or a click on it: the row *)
(* past the collections is "New collection".                               *)
Ring(d) == <<AllView, FavoritesView>> \o d.shelves
SetView(i) ==
    /\ Keyed /\ i \in 0..Len(Ring(desk)) /\ UNCHANGED <<deskStore, popup, asked>>
    /\ LET d == Unmarked(desk) IN
       IF i = Len(Ring(desk)) THEN desk' = [d EXCEPT !.sideNew = TRUE]
       ELSE RefreshDesk([d EXCEPT !.sideNew = FALSE, !.view = Ring(desk)[i + 1], !.sel = 0])

SortKeys ==
    /\ Keyed /\ UNCHANGED <<deskStore, popup, asked>>
    /\ RefreshDesk([Unmarked(desk) EXCEPT !.desc = ~@])
StartFilter == Keyed /\ Only([Unmarked(desk) EXCEPT !.filtering = TRUE])
FilterKey(on) ==
    /\ Tap /\ asked = NoAsk /\ popup = NoPopup /\ desk.filtering
    /\ UNCHANGED <<deskStore, popup, asked>>
    /\ \/ RefreshDesk([desk EXCEPT !.filter = on])
       \/ desk' = [desk EXCEPT !.filtering = FALSE]
       \/ RefreshDesk([desk EXCEPT !.filter = FALSE, !.filtering = FALSE])

(* lib_favorite, and bulk_favorite over the marks.                         *)
Favor ==
    /\ Keyed /\ UNCHANGED <<rows, member, collections, onDisk, popup, asked>>
    /\ LET bs == IF desk.marked = {} THEN Cursor(desk) ELSE ToSet(Marked(desk)) IN
       /\ desk.marked = {} \/ bs # {}
       /\ fav' = IF bs \subseteq fav THEN fav \ bs ELSE fav \cup (bs \cap rows)
       /\ desk' = Synced(Refreshed(Db', IF desk.marked = {} THEN desk ELSE Unmarked(desk)))

----------------------------------------------------------------------------
(* trash_selected asks; trash_books moves the files and drops the rows of  *)
(* those moved or already gone.                                            *)
AskTrash ==
    /\ Keyed /\ UNCHANGED <<deskStore, desk, popup>>
    /\ LET targets == IF desk.marked = {} THEN Cursor(desk) ELSE ToSet(Marked(desk)) IN
       targets # {} /\ asked' = [kind |-> "trash", targets |-> targets]
RowsGone(targets, moved) == moved \cup (targets \ onDisk)
Removed(bs) ==
    /\ rows' = rows \ bs /\ fav' = fav \ bs
    /\ member' = {m \in member : m[1] \notin bs}
TrashBooks(moved) ==
    /\ Tap /\ asked.kind = "trash" /\ moved \subseteq asked.targets \cap onDisk
    /\ asked' = NoAsk /\ onDisk' = onDisk \ moved
    /\ Removed(RowsGone(asked.targets, moved))
    /\ UNCHANGED <<collections, popup>>
    /\ RefreshDesk([Unmarked(desk) EXCEPT !.sel = 0])
AnswerNo == Tap /\ asked # NoAsk /\ asked' = NoAsk /\ UNCHANGED <<deskStore, desk, popup>>

(* Collections: the editor in the sidebar; an emptied name deletes.        *)
BeginNew ==
    /\ Keyed /\ popup' = [kind |-> "name", from |-> ""]
    /\ UNCHANGED <<deskStore, desk, asked>>
BeginRename ==
    /\ Keyed /\ desk.view \in Names
    /\ popup' = [kind |-> "name", from |-> desk.view]
    /\ UNCHANGED <<deskStore, desk, asked>>
Committing(old, new) ==
    /\ popup' = NoPopup /\ asked' = NoAsk /\ UNCHANGED <<rows, fav, onDisk>>
    /\ LET kept == {m \in member : m[2] # old}
       IN /\ collections' = (collections \ (IF new = old THEN {} ELSE {old}))
                              \cup (IF new = "" \/ new = old THEN {} ELSE {new})
          /\ member' = IF old = "" \/ new = old THEN member
                       ELSE IF new = "" THEN kept
                       ELSE kept \cup {<<m[1], new>> : m \in member \ kept}
          /\ RefreshDesk(IF new = "" THEN desk
                         ELSE [desk EXCEPT !.sideNew = FALSE, !.view = new, !.sel = 0])
EnterName(n) ==
    /\ Tap /\ asked = NoAsk /\ popup.kind = "name"
    /\ IF popup.from = "" THEN Committing("", n)
       ELSE asked' = [kind |-> "name", name |-> n] /\ UNCHANGED <<deskStore, desk, popup>>
AnswerName == Tap /\ asked.kind = "name" /\ Committing(popup.from, asked.name)
ClosePopup ==
    /\ Tap /\ asked = NoAsk /\ popup # NoPopup /\ popup' = NoPopup
    /\ UNCHANGED <<deskStore, asked>>
    /\ IF popup.kind = "name" THEN UNCHANGED desk
       ELSE RefreshDesk(IF Cardinality(popup.targets) > 1 THEN Unmarked(desk) ELSE desk)
DropFromShelf ==
    /\ Keyed /\ desk.view \in Names
    /\ member' = member \ {<<b, desk.view>> : b \in Cursor(desk)}
    /\ UNCHANGED <<rows, fav, collections, onDisk, popup, asked>>
    /\ desk' = Synced(Refreshed(Db', desk))

(* The add-to-collection picker.                                           *)
Ticked(db, bs) == {n \in db.collections : \A b \in bs : <<b, n>> \in db.member}
OpenPicker ==
    /\ Keyed /\ UNCHANGED <<deskStore, desk, asked>>
    /\ LET targets == IF desk.marked = {} THEN Cursor(desk) ELSE ToSet(Marked(desk)) IN
       /\ targets # {}
       /\ popup' = [kind |-> "picker", targets |-> targets, shelves |-> Shelves(Db),
                    ticks |-> Ticked(Db, targets), at |-> 0]
PickerMove(n) ==
    /\ Tap /\ asked = NoAsk /\ popup.kind = "picker"
    /\ popup' = [popup EXCEPT !.at = Clamp(@ + n, Len(popup.shelves) + 1)]
    /\ UNCHANGED <<deskStore, desk, asked>>
(* toggle_picked_shelf.                                                    *)
Flipped(n) ==
    LET these == {<<b, n>> : b \in popup.targets}
    IN IF n \in popup.ticks THEN member \ these ELSE member \cup these
TogglePicked ==
    /\ Tap /\ asked = NoAsk /\ popup.kind = "picker" /\ popup.at < Len(popup.shelves)
    /\ LET n == popup.shelves[popup.at + 1] IN
       /\ member' = Flipped(n)
       /\ collections' = collections \cup (IF n \in popup.ticks THEN {} ELSE {n})
       /\ popup' = [popup EXCEPT !.ticks = SymDiff(@, {n})]
    /\ UNCHANGED <<rows, fav, onDisk, desk, asked>>
(* Enter on the last row and a name typed: filed, and the picker rebuilt.  *)
PickNew(n) ==
    /\ Tap /\ asked = NoAsk /\ popup.kind = "picker" /\ popup.at = Len(popup.shelves)
    /\ UNCHANGED <<rows, fav, onDisk, desk, asked>>
    /\ member' = member \cup {<<b, n>> : b \in popup.targets}
    /\ collections' = collections \cup {n}
    /\ popup' = [popup EXCEPT !.shelves = Shelves(Db'), !.ticks = Ticked(Db', popup.targets),
                              !.at = Clamp(@, Len(Shelves(Db')) + 1)]

----------------------------------------------------------------------------
(* The launch scan's thread, and poll_scan.                                *)
ScanBook(b) ==
    /\ b \in unscanned /\ unscanned' = unscanned \ {b}
    /\ IF b \in onDisk THEN rows' = rows \cup {b} /\ UNCHANGED <<fav, member>>
       ELSE Removed({b})
    /\ UNCHANGED <<collections, onDisk, scanJob, desk, popup, asked, taps>>
RefreshAfterScan ==
    /\ scanJob /\ unscanned = {} /\ scanJob' = FALSE
    /\ UNCHANGED <<deskStore, unscanned, popup, asked, taps>>
    /\ RefreshDesk(desk)

DeskNext ==
    \/ \E n \in {-2, -1, 1, 2} : Move(n)
    \/ ToggleVisual \/ ToggleMark \/ MarkAll \/ EscKey
    \/ \E i \in 0..Len(ByTitle) : Click(i)
    \/ \E i \in 0..(Len(ByName) + 2) : SetView(i)
    \/ SortKeys \/ StartFilter \/ (\E on \in BOOLEAN : FilterKey(on)) \/ Favor
    \/ AskTrash \/ (\E moved \in SUBSET Volumes : TrashBooks(moved)) \/ AnswerNo
    \/ BeginNew \/ BeginRename \/ AnswerName \/ ClosePopup \/ DropFromShelf
    \/ \E n \in Names \cup {""} : EnterName(n)
    \/ OpenPicker \/ (\E n \in {-1, 1} : PickerMove(n)) \/ TogglePicked
    \/ \E n \in Names : PickNew(n)
    \/ (\E b \in Volumes : ScanBook(b)) \/ RefreshAfterScan
DeskSpec == DeskInit /\ [][DeskNext]_deskVars

----------------------------------------------------------------------------
DeskTypeOK ==
    /\ rows \subseteq Volumes /\ fav \subseteq rows /\ member \subseteq Volumes \X Names
    /\ collections \subseteq Names /\ desk.base \subseteq Volumes
    /\ desk.marked \subseteq Volumes /\ desk.anchor \in -1..Len(ByTitle)

CursorInList == desk.sel = 0 \/ desk.sel < Len(desk.list)
ViewInRing == desk.view \in ToSet(Ring(desk))
MarksArePicks == desk.anchor = -1 => desk.marked = desk.base
TicksTrue ==
    (popup.kind = "picker" /\ popup.targets \subseteq rows /\ collections = ToSet(popup.shelves))
        => popup.ticks = Ticked(Db, popup.targets)
(* What the view shows is what there is, whatever a scan, a filter or the  *)
(* trash did meanwhile: the cursor is on a book of the list, so no slice   *)
(* or index of it fails; the sidebar's cursor is on a row it shows; the    *)
(* marks outside visual mode are the individual picks; and a tick of the   *)
(* picker is what the store holds of its books, so the next press does     *)
(* what the row says (while none of them is pruned).                       *)
DeskShowsStore == CursorInList /\ ViewInRing /\ MarksArePicks /\ TicksTrue

(* collections.rs refresh_shelf_picker: "then leave creating mode with the *)
(* cursor on the new entry".                                               *)
NewEntryUnderCursor ==
    [][\A n \in Names \ collections : PickNew(n) => popup'.shelves[popup'.at + 1] = n]_deskVars

(* shelves.rs remove_from_shelf: "A collection with no books left simply   *)
(* stops appearing (membership is its only definition)".                   *)
EmptyStopsAppearing ==
    [][DropFromShelf => ToSet(desk'.shelves) \subseteq
          {n \in Names : n # desk.view \/ \E b \in Volumes : <<b, n>> \in member'}]_deskVars

(* A book filed on a collection is a book of the library.                  *)
ShelvedAreBooks == \A m \in member : m[1] \in rows
=============================================================================
