------------------------------- MODULE Popups -------------------------------
(***************************************************************************)
(* Who gets a key (dispatch's on_key and the popups' own handlers): at     *)
(* most one popup over the library or the reader, a yes / no question over *)
(* that, a resolver parked while the reader previews one of its books, and *)
(* two background answers, a looked-up word and the folders found on the   *)
(* disk, that end up in a popup whenever they come.                        *)
(*                                                                         *)
(* `app` is the part of App the routing reads and writes.  A key is its    *)
(* name; what is typed is its length.  The library's rows, the settings,   *)
(* the editor's fields and the pages are not looked at here: where a key   *)
(* depends on them it may do either.  Quitting is left out.                *)
(***************************************************************************)
EXTENDS Integers, Sequences, FiniteSets, Functions

CONSTANTS
    PopEntries,     \* the kind of each mark of the book: the tab it is listed on
    PopHeld,        \* the marks there are at the start; the others are written
    PopSays,        \* the marks a typed filter finds
    PopWords,       \* words that are looked up
    PopFolders,     \* the folders a walk of the disk finds, in the order it lists them
    PopDraft,       \* a bound on the letters in a field
    PopStrokes      \* a bound on the keys and clicks

VARIABLES
    app,
    struck          \* keys and clicks so far, up to the bound
popVars == <<app, struck>>

Tabs == <<"marks", "notes", "washes">>
ASSUME PopAssumption ==
    /\ PopEntries \in Seq(Range(Tabs))
    /\ PopHeld \subseteq DOMAIN PopEntries /\ PopSays \subseteq DOMAIN PopEntries
    /\ Len(PopFolders) \in Nat
    /\ PopDraft \in Nat /\ PopStrokes \in Nat

NewNote == 0
NoWord == "no word"
NoQuestion == "no question"
Letters == {"f", "q", "y", "n", "d", "r", "j", "i", "o", "a", "c", "e", "p", "D", "F", "I", "K", "T", "V",
            "?", ";", ":", "/", "'", "1", "9"}
Keys == Letters \cup {"Esc", "Enter", "Tab", "Down", "Up", "Backspace", "Delete", "Ctrl-f", "Ctrl-u", "Ctrl-s", " "}

Popup(is) == [is |-> is, typing |-> "no", draft |-> 0, sel |-> 0, tab |-> "marks", id |-> NewNote,
              word |-> NoWord, got |-> NoWord, ticked |-> {}]
NoPopup == Popup("none")
Field(is, n) == [Popup(is) EXCEPT !.typing = "field", !.draft = n]

Show(w, p) == [w EXCEPT !.popup = p]
Dismiss(w) == Show(w, NoPopup)
Ask(w, about) == [w EXCEPT !.question = about]
Flip(set, x) == IF x \in set THEN set \ {x} ELSE set \cup {x}

-----------------------------------------------------------------------------
(* Text and lists.                                                         *)

\* TextInput::handle_key; a raw field pushes a letter whatever is held with it.
Edited(n, k) == CASE k \in Letters \cup {" "} -> n + 1
                  [] k = "Ctrl-u" -> 0
                  [] k = "Backspace" -> IF n = 0 THEN 0 ELSE n - 1
                  [] OTHER -> n
Pushing == Letters \cup {" ", "Ctrl-u", "Ctrl-s", "Ctrl-f"}
Pushed(n, k) == IF k \in Pushing THEN n + 1 ELSE Edited(n, k)

ListTyping(k, sel, len) ==
    CASE k = "Down" -> IF sel + 1 < len THEN sel + 1 ELSE len - 1
      [] k = "Up" -> IF sel = 0 THEN 0 ELSE sel - 1
      [] OTHER -> sel
Moves == {"Down", "Up"}
MovesTyping(k, len) == len > 0 /\ k \in Moves
\* list_nav: "j" stands for the motions that are letters.
MovesList(k, len) == len > 0 /\ k \in Moves \cup {"j"}
ListNav(k, sel, len) == ListTyping(IF k = "j" THEN "Down" ELSE k, sel, len)

\* list_annotations: those in the folder first, then by id.
ById(ids) == [n \in 1 .. Cardinality(ids) |->
                 CHOOSE id \in ids : Cardinality({other \in ids : other <= id}) = n]
InListOrder(w, ids) == ById(ids \cap w.filed) \o ById(ids \ w.filed)
On(w, tab) == {id \in w.live : PopEntries[id] = tab}
Listed(w, tab) == InListOrder(w, On(w, tab))
\* AnnotState::filtered.
Filtered(w, p) == InListOrder(w, {id \in On(w, p.tab) : p.draft = 0 \/ id \in PopSays})
PlaceOf(id, list) == IF \E n \in DOMAIN list : list[n] = id
                     THEN (CHOOSE n \in DOMAIN list : list[n] = id) - 1 ELSE 0
SelectedMark(w, p) == IF p.sel < Len(Filtered(w, p)) THEN Filtered(w, p)[p.sel + 1] ELSE NewNote
TabAfter(tab) == Tabs[((PlaceOf(tab, Tabs) + 1) % Len(Tabs)) + 1]

Rows(w, p) == CASE p.is = "marks" -> Len(Filtered(w, p))
                [] p.is = "finder" -> Len(PopFolders)
                [] p.is \in {"palette", "picker", "duplicates"} -> 2
                [] p.is = "ignored" -> 1
                [] OTHER -> 0

-----------------------------------------------------------------------------
(* The order of the guards: the question, the window's size, the popup.    *)

Windows == {"settings", "editor", "rename", "duplicates", "ignored", "picker", "finder", "help",
            "marks", "stats", "palette", "lookup"}
\* (mutant: the filter of the marks was forgotten)
OverlayIsTypingFields(p) ==
    \/ p.is \in {"palette", "rename"}
    \/ p.is \in {"picker", "editor", "settings"} /\ p.typing = "field"
OverlayIsTyping(p) ==
    \/ p.is \in {"palette", "rename"}
    \/ p.is \in {"picker", "editor", "settings"} /\ p.typing = "field"
    \/ p.is = "marks" /\ p.typing = "filter"
Resizes(w, k) ==
    w.popup.is \in Windows /\ (k = "Ctrl-f" \/ (k = "f" /\ ~OverlayIsTyping(w.popup)))

-----------------------------------------------------------------------------
(* Background answers and what starts them.                                *)

\* open_word_lookup: the channel of the word before is dropped.
\* (mutant: a lookup that is still out is waited for)
OpenWordLookupWaiting(w, word) ==
    [w EXCEPT !.popup = [Popup("lookup") EXCEPT !.word = word],
              !.lookup = IF @.word = NoWord THEN [word |-> word, done |-> FALSE] ELSE @]
OpenWordLookup(w, word) ==
    [w EXCEPT !.popup = [Popup("lookup") EXCEPT !.word = word],
              !.lookup = [word |-> word, done |-> FALSE]]
NoLookup == [word |-> NoWord, done |-> FALSE]

StartDiscover(w) == IF w.walk # "no" THEN w ELSE [Dismiss(w) EXCEPT !.walk = "walking"]

LookupAnswers ==
    app.lookup.word # NoWord /\ ~app.lookup.done /\ app' = [app EXCEPT !.lookup.done = TRUE]
PollDefine ==
    /\ app.lookup.done
    /\ app' = [app EXCEPT !.lookup = NoLookup,
                          !.popup = IF @.is = "lookup" THEN [@ EXCEPT !.got = app.lookup.word] ELSE @]

WalkEnds == app.walk = "walking" /\ app' = [app EXCEPT !.walk = "done"]
\* poll_discover: the picker opens, whatever is open; or nothing new was found.
PollDiscover ==
    /\ app.walk = "done"
    /\ LET w == [app EXCEPT !.walk = "no"]
       IN  app' \in {w, Show(w, [Popup("finder") EXCEPT !.ticked = Range(PopFolders)])}

-----------------------------------------------------------------------------
(* The popups' keys.                                                       *)

\* open_dup_resolve, when there is something to resolve.
OpenDupResolve(w) == {w, Show(w, Popup("duplicates"))}

\* The store after an answer: refresh_bookmarks, on the tab of the mark.
\* (mutant: the cursor is the mark's place among all of them)
RefreshBookmarksAnywhere(w, id) ==
    LET all == Listed(w, "marks") \o Listed(w, "notes") \o Listed(w, "washes")
    IN  Show(w, [Popup("marks") EXCEPT !.tab = PopEntries[id], !.sel = PlaceOf(id, all)])
RefreshBookmarks(w, id) ==
    Show(w, [Popup("marks") EXCEPT !.tab = PopEntries[id],
                                   !.sel = PlaceOf(id, Listed(w, PopEntries[id]))])

\* confirm_commit; the popup the question was about is taken, if it is that one.
ConfirmCommit(w) ==
    LET answered == Ask(w, NoQuestion)
    IN  CASE w.question = "save" ->
                 {Dismiss(answered)} \cup (IF w.popup.is = "editor" THEN {Show(answered, Popup("editor"))} ELSE {})
          [] w.question \in {"rename", "shelf"} -> {Dismiss(answered)}
          [] w.question = "duplicates" /\ w.popup.is = "duplicates" -> OpenDupResolve(Dismiss(answered))
          [] OTHER -> {answered}
ConfirmKey(w, k) ==
    CASE k \in {"y", "Enter"} -> ConfirmCommit(w)
      [] k \in {"n", "Esc"} -> {Ask(w, NoQuestion)}
      [] OTHER -> {w}

\* A field of a popup: left by Enter and Esc.
FieldEdited(p, k) == IF k \in {"Enter", "Esc"} THEN [p EXCEPT !.typing = "no", !.draft = 0]
                     ELSE [p EXCEPT !.draft = Edited(@, k)]
\* The rows of "settings" are looked at in another module: Enter may open the
\* path's field, start the walk, or change a value.
SettingsKey(w, k) ==
    LET p == w.popup
    IN  IF p.typing = "field" THEN {Show(w, FieldEdited(p, k))}
        ELSE IF p.typing = "filter"
        THEN {CASE k = "Enter" -> Show(w, [p EXCEPT !.typing = "no"])
                [] k = "Esc" -> Show(w, [p EXCEPT !.typing = "no", !.draft = 0])
                [] k \in Moves \cup {"Tab"} -> w
                [] OTHER -> Show(w, [p EXCEPT !.draft = Edited(@, k)])}
        ELSE CASE k = "Esc" -> {IF p.draft > 0 THEN Show(w, [p EXCEPT !.draft = 0]) ELSE Dismiss(w)}
               [] k \in {";", "q"} -> {Dismiss(w)}
               [] k = "/" -> {Show(w, [p EXCEPT !.typing = "filter"])}
               [] k = "Enter" ->
                      {w, Show(w, [p EXCEPT !.typing = "field", !.draft = 0]), StartDiscover(w)}
               [] OTHER -> {w}

PromptCommit(w) ==
    LET p == w.popup
        written == {id \in DOMAIN PopEntries \ w.live : PopEntries[id] = "notes"}
        filed == IF p.draft = 0 THEN w.filed \ {p.id} ELSE w.filed \cup {p.id}
    IN  IF p.id # NewNote
        THEN {RefreshBookmarks(IF p.word = "folder" THEN [w EXCEPT !.filed = filed] ELSE w, p.id)}
        ELSE IF p.draft = 0 THEN {Dismiss(w)}
        ELSE {[Dismiss(w) EXCEPT !.live = @ \cup {id}] : id \in written}
PromptKey(w, k) ==
    LET p == w.popup
    IN  CASE k = "Esc" -> {IF p.id = NewNote THEN Dismiss(w) ELSE RefreshBookmarks(w, p.id)}
          [] k = "Enter" -> PromptCommit(w)
          [] OTHER -> {Show(w, [p EXCEPT !.draft = Edited(@, k)])}

\* meta_edit_key, as far as the window goes: a field, or the tabs.
EditorKey(w, k) ==
    LET p == w.popup
    IN  IF p.typing = "field" THEN {Show(w, FieldEdited(p, k))}
        ELSE CASE k = "Esc" -> {Dismiss(w), Show(w, Popup("editor"))}
               [] k = "Ctrl-s" -> {w, Ask(w, "save")}
               [] k \in {"Enter", "i"} -> {w, Show(w, [p EXCEPT !.typing = "field"])}
               [] OTHER -> {w}

BulkRenameKey(w, k) ==
    {CASE k = "Esc" -> Dismiss(w)
       [] k = "Ctrl-s" -> Ask(w, "rename")
       [] OTHER -> Show(w, [w.popup EXCEPT !.draft = Edited(@, k)])}
\* lib_coll_edit_key: a new shelf is made at once, another name is asked about.
CollEditKey(w, k) ==
    {CASE k = "Esc" -> Dismiss(w)
       [] k = "Enter" -> IF w.popup.word = "new" THEN Dismiss(w) ELSE Ask(w, "shelf")
       [] OTHER -> Show(w, [w.popup EXCEPT !.draft = Edited(@, k)])}
TagEditKey(w, k) ==
    {IF k \in {"Esc", "Enter"} THEN Dismiss(w) ELSE Show(w, [w.popup EXCEPT !.draft = Edited(@, k)])}

ShelfPickerKey(w, k) ==
    LET p == w.popup
    IN  {CASE p.typing = "field" ->
                  Show(w, IF k \in {"Esc", "Enter"} THEN [p EXCEPT !.typing = "no", !.draft = 0]
                          ELSE [p EXCEPT !.draft = Pushed(@, k)])
           [] p.typing = "no" /\ MovesList(k, 2) -> Show(w, [p EXCEPT !.sel = ListNav(k, @, 2)])
           [] p.typing = "no" /\ k \in {"Esc", "q"} -> Dismiss(w)
           [] p.typing = "no" /\ k \in {"Enter", " "} /\ p.sel = 1 -> Show(w, [p EXCEPT !.typing = "field"])
           [] OTHER -> w}

DupResolveKey(w, k) ==
    LET p == w.popup
    IN  CASE MovesList(k, 2) -> {Show(w, [p EXCEPT !.sel = ListNav(k, @, 2)])}
          [] k \in {"Esc", "q"} -> {Dismiss(w)}
          [] k = "o" -> {Show(w, Popup("settings"))}
          \* preview_dup_book, which the book may refuse.
          [] k = "p" -> {w, [Dismiss(w) EXCEPT !.surface = "reader", !.parked = p]}
          [] k = "I" -> {w, Show(w, Popup("ignored"))}
          [] k = "n" -> OpenDupResolve(Dismiss(w))
          [] k = "d" -> {w, Ask(w, "duplicates")}
          [] OTHER -> {w}
IgnoredKey(w, k) == IF k \in {"Esc", "q"} THEN {Dismiss(w)}
                    ELSE IF k = "Enter" THEN {Dismiss(w), w} ELSE {w}

FinderKey(w, k) ==
    LET p == w.popup
        row == PopFolders[p.sel + 1]
        all == Range(PopFolders)
    IN  {CASE MovesList(k, Rows(w, p)) -> Show(w, [p EXCEPT !.sel = ListNav(k, @, Rows(w, p))])
           [] k \in {"Esc", "q"} -> Dismiss(w)
           [] k = " " -> Show(w, [p EXCEPT !.ticked = Flip(@, row)])
           [] k = "a" -> Show(w, [p EXCEPT !.ticked = IF @ = all THEN {} ELSE all])
           [] k = "Enter" -> [Dismiss(w) EXCEPT !.added = @ \cup p.ticked]
           [] OTHER -> w}

AnnotFilterKey(w, k) ==
    LET p == w.popup
    IN  {Show(w, CASE MovesTyping(k, Rows(w, p)) -> [p EXCEPT !.sel = ListTyping(k, @, Rows(w, p))]
                   [] k = "Esc" -> [p EXCEPT !.draft = 0, !.typing = "no", !.sel = 0]
                   [] k = "Enter" -> [p EXCEPT !.typing = "no"]
                   [] OTHER -> [p EXCEPT !.draft = Pushed(@, k),
                                         !.sel = IF k \in Pushing \cup {"Backspace"} THEN 0 ELSE @])}
AnnotKey(w, k) ==
    LET p == w.popup
        id == SelectedMark(w, p)
        deleted == [w EXCEPT !.live = @ \ {id}, !.filed = @ \ {id}]
        prompt(what, n) == [Field("prompt", n) EXCEPT !.id = id, !.word = what]
    IN  IF p.typing = "filter" THEN AnnotFilterKey(w, k)
        ELSE {CASE MovesList(k, Rows(w, p)) -> Show(w, [p EXCEPT !.sel = ListNav(k, @, Rows(w, p))])
                [] k \in {"Esc", "'", "q"} -> Dismiss(w)
                [] k = "Tab" -> Show(w, [p EXCEPT !.tab = TabAfter(@), !.sel = 0, !.draft = 0])
                [] k = "/" -> Show(w, [p EXCEPT !.typing = "filter"])
                [] k = "Enter" /\ id # NewNote -> Dismiss(w)
                [] k = "r" /\ id # NewNote -> Show(w, prompt("name", 0))
                [] k = "F" /\ id # NewNote -> Show(w, prompt("folder", IF id \in w.filed THEN 1 ELSE 0))
                [] k = "e" /\ id # NewNote /\ p.tab = "notes" -> Show(w, prompt("note", 1))
                [] k = "d" /\ id # NewNote ->
                       LET left == Rows(deleted, p)
                       IN  Show(deleted, [p EXCEPT !.sel = IF @ < left THEN @
                                                           ELSE IF left = 0 THEN 0 ELSE left - 1])
                [] OTHER -> w}

\* palette_run_selected: the command the query found, if it found one.
PaletteRuns(w) == {Dismiss(w), Show(w, Popup("stats")), StartDiscover(Dismiss(w))}
PaletteKey(w, k) ==
    LET p == w.popup
        draft == Edited(p.draft, k)
    IN  CASE MovesTyping(k, 2) -> {Show(w, [p EXCEPT !.sel = ListTyping(k, @, 2)])}
          [] k = "Esc" -> {Dismiss(w)}
          [] k = "Enter" -> PaletteRuns(w)
          [] OTHER -> {Show(w, [p EXCEPT !.draft = draft, !.sel = IF draft = p.draft THEN @ ELSE 0])}

PopupKey(w, k) ==
    CASE w.popup.is = "settings" -> SettingsKey(w, k)
      [] w.popup.is = "prompt" -> PromptKey(w, k)
      [] w.popup.is = "editor" -> EditorKey(w, k)
      [] w.popup.is = "rename" -> BulkRenameKey(w, k)
      [] w.popup.is = "shelf" -> CollEditKey(w, k)
      [] w.popup.is = "tags" -> TagEditKey(w, k)
      [] w.popup.is = "duplicates" -> DupResolveKey(w, k)
      [] w.popup.is = "ignored" -> IgnoredKey(w, k)
      [] w.popup.is = "picker" -> ShelfPickerKey(w, k)
      [] w.popup.is = "finder" -> FinderKey(w, k)
      [] w.popup.is = "marks" -> AnnotKey(w, k)
      [] w.popup.is = "palette" -> PaletteKey(w, k)
      [] w.popup.is = "help" -> {IF k \in {"Esc", "q", "?"} THEN Dismiss(w) ELSE w}
      [] w.popup.is = "lookup" -> {IF k \in {"Esc", "q", "K"} THEN Dismiss(w) ELSE w}
      [] w.popup.is = "stats" -> {Dismiss(w)}

-----------------------------------------------------------------------------
(* The library's and the reader's keys, as far as they open something.     *)

OpensBook(w) == {w, [w EXCEPT !.surface = "reader"]}

LibraryKey(w, k) ==
    IF w.filtering
    THEN {IF k \in {"Esc", "Enter"} THEN [w EXCEPT !.filtering = FALSE, !.draft = 0]
          ELSE [w EXCEPT !.draft = Pushed(@, k)]}
    ELSE
    CASE k = "/" -> {[w EXCEPT !.filtering = TRUE, !.draft = 0]}
      \* Enter: a book, or the sidebar's row for a new shelf.
      [] k \in {"Enter", "o"} ->
             OpensBook(w) \cup (IF k = "o" THEN {} ELSE {Show(w, [Field("shelf", 0) EXCEPT !.word = "new"])})
      [] k = "D" -> OpenDupResolve(w)
      [] k = "I" -> {w, Show(w, Popup("ignored"))}
      [] k = "i" -> {Show(w, Popup("stats"))}
      [] k = "e" -> {w, Show(w, Popup("editor"))}
      [] k = "c" -> {w, Show(w, Popup("picker"))}
      \* The name of the shelf under the sidebar's cursor, or of the books.
      [] k = "r" -> {w, Show(w, Field("rename", 1)), Show(w, Field("shelf", 1))}
      [] k = "T" -> {w, Show(w, Field("tags", 1))}
      [] k = "Delete" -> {w, Ask(w, "trash")}
      [] OTHER -> {w}

\* The search, the contents' filter, the selection, the badges to pick from.
Within(w, what) == [w EXCEPT !.within = what, !.draft = 0]
SearchKey(w, k) == {IF k \in {"Esc", "Enter"} THEN Within(w, "no")
                    ELSE [w EXCEPT !.draft = Pushed(@, k)]}
SidebarFilterKey(w, k) == {IF k \in {"Esc", "Enter", "Tab"} THEN Within(w, "no")
                           ELSE [w EXCEPT !.draft = Edited(@, k)]}
VisualKey(w, k) ==
    CASE k \in {"Esc", "V"} -> {Within(w, "no")}
      [] k = "K" -> {w} \cup {OpenWordLookup(w, word) : word \in PopWords}
      [] k = "a" -> {Within(w, "no"), Show(Within(w, "no"), Field("prompt", 0))}
      [] OTHER -> {w}
\* A badge's number is acted on, another one waits, another key cancels.
HintKey(w, k) == {IF k = "9" THEN w ELSE Within(w, "no")}

\* (mutant: the parked resolver is copied)
ReturnCopied(w) == [w EXCEPT !.surface = "library", !.within = "no", !.draft = 0,
                             !.popup = IF w.parked # NoPopup THEN w.parked ELSE @]
\* close_book, and the dispatcher that then takes the resolver back.
Return(w) == [w EXCEPT !.surface = "library", !.within = "no", !.draft = 0, !.parked = NoPopup,
                       !.popup = IF w.parked # NoPopup THEN w.parked ELSE @]

ReaderKey(w, k) ==
    CASE k = "q" \/ (k = "Esc" /\ w.parked # NoPopup) -> {Return(w)}
      [] k = "/" -> {Within(w, "search"), Within(w, "contents")}
      [] k = "V" -> {Within(w, "selection")}
      [] k = "F" -> {w, Within(w, "hint")}
      [] k = "a" -> {Show(w, Field("prompt", 0))}
      [] k = "'" -> {Show(w, Popup("marks"))}
      [] k = "Enter" -> {w, Ask(w, "link")}
      [] OTHER -> {w}

ReaderWithinKey(w, k) ==
    CASE w.within = "search" -> SearchKey(w, k)
      [] w.within = "contents" -> SidebarFilterKey(w, k)
      [] w.within = "selection" -> VisualKey(w, k)
      [] OTHER -> HintKey(w, k)

Quits(w, k) == w.surface = "library" /\ w.popup = NoPopup /\ ~w.filtering /\ k \in {"q", "Esc"}

OnKey(w, k) ==
    CASE w.question # NoQuestion -> ConfirmKey(w, k)
      [] w.question = NoQuestion /\ Resizes(w, k) -> {[w EXCEPT !.large = ~@]}
      [] w.question = NoQuestion /\ ~Resizes(w, k) /\ w.popup # NoPopup -> PopupKey(w, k)
      [] OTHER ->
         CASE w.surface = "reader" /\ w.within # "no" -> ReaderWithinKey(w, k)
           [] OTHER ->
              CASE w.surface = "library" /\ k = ":" -> {Show(w, Field("palette", 0))}
                [] k = "?" -> {Show(w, Popup("help"))}
                [] k = ";" -> {Show(w, Popup("settings"))}
                [] OTHER -> IF w.surface = "reader" THEN ReaderKey(w, k) ELSE LibraryKey(w, k)

\* (bound: letters that are still to be typed)
Press(k) ==
    /\ k \in Pushing => (app.popup.typing # "no" => app.popup.draft < PopDraft) /\ app.draft < PopDraft
    /\ ~Quits(app, k)
    /\ app' \in OnKey(app, k)

-----------------------------------------------------------------------------
(* The mouse: clicks go to the popup there is, none past a question.       *)

\* overlay_row_select, and the second click on the same row.
RowClicked(w, i) == Show(w, [w.popup EXCEPT !.sel = i])
RowActivated(w) ==
    CASE w.popup.is = "marks" -> {IF SelectedMark(w, w.popup) # NewNote THEN Dismiss(w) ELSE w}
      [] w.popup.is = "palette" -> PaletteRuns(w)
      [] w.popup.is = "picker" -> {IF w.popup.sel = 1 THEN Show(w, [w.popup EXCEPT !.typing = "field", !.draft = 0]) ELSE w}
      [] w.popup.is = "finder" -> FinderKey(w, " ")
      [] w.popup.is = "ignored" -> IgnoredKey(w, "Enter")
      [] OTHER -> {w}
ClickRow(i, double) ==
    /\ app.question = NoQuestion /\ i < Rows(app, app.popup)
    /\ app' \in IF double THEN RowActivated(RowClicked(app, i)) ELSE {RowClicked(app, i)}
\* overlay_tab_select; the tabs of the settings are not looked at.
ClickTab(tab) ==
    /\ app.question = NoQuestion /\ app.popup.is = "marks" /\ app.popup.tab # tab
    /\ app' = Show(app, [app.popup EXCEPT !.tab = tab, !.sel = 0, !.draft = 0])
ClickElsewhere == app.question = NoQuestion /\ app.popup.is = "stats" /\ app' = Dismiss(app)
\* library_click, the second on a book.
ClickBook ==
    /\ app.question = NoQuestion /\ app.popup = NoPopup /\ app.surface = "library"
    /\ app' \in OpensBook(app)
WheelList(k) ==
    /\ app.question = NoQuestion /\ Rows(app, app.popup) > 0
    /\ app.popup.is = "picker" => app.popup.typing = "no"
    /\ app' = Show(app, [app.popup EXCEPT !.sel = ListTyping(k, @, Rows(app, app.popup))])

PopInit == struck = 0 /\ app = [popup |-> NoPopup, question |-> NoQuestion, parked |-> NoPopup, surface |-> "library",
                  filtering |-> FALSE, within |-> "no", draft |-> 0, lookup |-> NoLookup, walk |-> "no",
                  live |-> PopHeld, filed |-> {}, added |-> {}, large |-> FALSE]
Strike == struck < PopStrokes /\ struck' = struck + 1
PopNext ==
    \/ \E k \in Keys : Strike /\ Press(k)
    \/ \E i \in 0 .. 2, double \in BOOLEAN : Strike /\ ClickRow(i, double)
    \/ \E tab \in Range(Tabs) : Strike /\ ClickTab(tab)
    \/ \E k \in Moves : Strike /\ WheelList(k)
    \/ Strike /\ (ClickElsewhere \/ ClickBook)
    \/ UNCHANGED struck /\ (LookupAnswers \/ PollDefine \/ WalkEnds \/ PollDiscover)
PopSpec == PopInit /\ [][PopNext]_popVars

-----------------------------------------------------------------------------
(* Properties.                                                             *)

\* A text field has the keys, and says so by its caret.
InField(w) ==
    /\ w.question = NoQuestion
    /\ \/ w.popup.typing # "no"
       \/ w.popup = NoPopup /\ w.surface = "reader" /\ w.within \in {"search", "contents"}
       \/ w.popup = NoPopup /\ w.surface = "library" /\ w.filtering
\* Where the code takes a letter from the field all the same.
TakenFromTheField(w, k) ==
    \/ k = "f" /\ w.popup.is = "settings" /\ w.popup.typing = "filter"
    \/ k \in {":", "?", ";"} /\ w.popup = NoPopup /\ w.surface = "library"

(* A letter typed into a field goes to the field and does nothing else: no  *)
(* shortcut, list motion, window key or question takes it, whichever of the *)
(* eleven fields is open and whatever it was opened over.                   *)
TypedTextStaysInTheField ==
    [][InField(app) => \A k \in Letters :
          (Press(k) /\ ~TakenFromTheField(app, k)) =>
              app' = IF app.popup = NoPopup THEN [app EXCEPT !.draft = @ + 1]
                     ELSE [app EXCEPT !.popup.draft = @ + 1, !.popup.sel = app'.popup.sel]]_popVars

ParkedWhileReading == app.parked # NoPopup => app.surface = "reader" /\ app.parked.is = "duplicates"
AnswerOfTheWord == app.popup.got \in {NoWord, app.popup.word}
CursorOnTheList == Rows(app, app.popup) > 0 => app.popup.sel < Rows(app, app.popup)
\* A prompt that is answered or dropped goes back to its mark.
PromptReturns ==
    (app.popup.is = "prompt" /\ app.popup.id # NewNote /\ app'.popup.is \notin {"prompt", "finder"})
        => app'.popup.is = "marks" /\ SelectedMark(app', app'.popup) = app.popup.id
\* Leaving a previewed book shows the resolver as it was.
PreviewReturns ==
    (app.surface = "reader" /\ app'.surface = "library" /\ app.parked # NoPopup)
        => app'.popup = app.parked /\ app'.parked = NoPopup

(* What a popup gives way to comes back: a prompt to the mark it was opened *)
(* on, wherever filing it has moved it, a preview to its resolver and once  *)
(* only; a looked-up word shows its own answer, not one to a word before    *)
(* it; and a list's cursor is on a row of the list as it now is.            *)
PopupsReturn ==
    /\ [][(ParkedWhileReading /\ AnswerOfTheWord /\ CursorOnTheList)']_popVars
    /\ [][PromptReturns /\ PreviewReturns]_popVars

(* A question about a popup stands over that popup.  Not so once folders    *)
(* are found while it is asked: the answer then goes to the wrong popup.    *)
QuestionOverItsPopup ==
    \A about \in {"editor", "rename", "duplicates"} :
        app.question = (IF about = "editor" THEN "save" ELSE about) => app.popup.is = about
=============================================================================
