------------------------------- MODULE Settings -------------------------------
(***************************************************************************)
(* The settings popup (app/settings.rs), the configuration it edits and    *)
(* keeps on disk (infra/config), and the reader's keys that edit the same  *)
(* configuration (app/dispatch/apply.rs).  One option stands for each kind *)
(* of option: a preset, a clamped number, a number with an "off" below its *)
(* floor, a flag, a cycle, a column, a place in an order, an action.       *)
(***************************************************************************)
EXTENDS Integers, FiniteSets, Sequences, SequencesExt

CONSTANTS
    Options,       \* scope -> the options in order, [tab, section, item]; the
                   \* item "folders" stands for one row per source folder
    Finds,         \* query -> the items whose label or help it matches
    Presets,       \* the reading modes' profiles, in their cycle; the last hides the chrome
    Formats,       \* the default keep order of the duplicate resolver
    Typeable,      \* folders that can be typed
    MaxMargin, MinCap, MaxCap, MaxSpacing,
    PaneWidth, SidebarWidth,      \* columns of text and of the sidebar
    Faults,        \* what may befall the file: "edited", "garbled", "unreadable"
    MaxFaults, PrefStrokes        \* bounds: faults and inputs of one behaviour

Scopes == {"reader", "library"}
NoText == "no text"
NoQuery == ""
Nowhere == "nowhere"

(* What an option may be; a format is an option of its own.                *)
OptionFields == {"margin", "cap", "spacing", "flow", "theme", "column"}
Named == OptionFields \cup {"mode", "folders", "add", "find", "rescan"}
Margins == 0..MaxMargin
Caps == {0} \cup MinCap..MaxCap
Spacings == 0..MaxSpacing

ASSUME SettingsAssumption ==
    /\ DOMAIN Options = Scopes /\ {NoText, NoQuery} \cap DOMAIN Finds = {}
    /\ {MaxMargin, MaxCap, MaxSpacing, PaneWidth, SidebarWidth, MaxFaults} \subseteq Nat
    /\ MinCap \in 1..MaxCap /\ PaneWidth > SidebarWidth
    /\ Presets \in Seq([margin : Margins, cap : Caps, spacing : Spacings, flow : BOOLEAN])
    /\ Len(Presets) > 1
    /\ Formats \in Seq(STRING) /\ Len(Formats) > 1 /\ IsInjective(Formats)
    /\ Range(Formats) \cap (Named \cup {"folder", "heading"}) = {}
    /\ \A s \in Scopes :
          Options[s] \in Seq([tab : Nat, section : STRING, item : Named \cup Range(Formats)])
    /\ Faults \subseteq {"edited", "garbled", "unreadable"}

VARIABLES
    config, popup,
    file,          \* [is, of]: config.toml, and what can still be read of it by hand
    backup,        \* config.toml.bak, likewise
    lastMeasure,   \* the column's width in the last frame
    wrappedFor,    \* what the section's lines were wrapped for
    held,          \* pending_frac: the next re-wrap restores the position
    wanted,        \* ghost: the folders added and not removed
    prefFaults, prefStrokes
disk == <<file, backup>>
page == <<lastMeasure, wrappedFor, held>>
prefVars == <<config, popup, disk, page, wanted, prefFaults, prefStrokes>>

----------------------------------------------------------------------------
(* The configuration.                                                      *)
Default == [margin |-> Presets[1].margin, cap |-> Presets[1].cap,
            spacing |-> Presets[1].spacing, flow |-> Presets[1].flow, focus |-> FALSE,
            theme |-> 0, column |-> TRUE, order |-> Formats, paths |-> <<>>]
Bounded(x, lo, hi) == IF x < lo THEN lo ELSE IF x > hi THEN hi ELSE x
Profile(c) == [margin |-> c.margin, cap |-> c.cap, spacing |-> c.spacing, flow |-> c.flow]
Custom == 0
ReadingMode(c) == IF \E m \in 1..Len(Presets) : Presets[m] = Profile(c)
                  THEN CHOOSE m \in 1..Len(Presets) : Presets[m] = Profile(c) ELSE Custom
NextMode(m) == IF m \in {Custom, Len(Presets)} THEN 1 ELSE m + 1
PrevMode(m) == IF m \in {Custom, 1} THEN Len(Presets) ELSE m - 1
WithMode(c, m) ==
    IF m = Custom THEN c
    ELSE [c EXCEPT !.margin = Presets[m].margin, !.cap = Presets[m].cap,
                   !.spacing = Presets[m].spacing, !.flow = Presets[m].flow,
                   !.focus = (m = Len(Presets))]
KeepRank(c, f) == CHOOSE i \in 1..Len(c.order) : c.order[i] = f
WithFormatMoved(c, f, up) ==
    LET i == KeepRank(c, f)
        j == IF up THEN i - 1 ELSE i + 1
    IN IF j \in 1..Len(c.order)
       THEN [c EXCEPT !.order = [@ EXCEPT ![i] = c.order[j], ![j] = f]] ELSE c
SteppedCap(cap, d) ==
    LET stepped == IF cap = 0 THEN (IF d > 0 THEN MinCap ELSE 0) ELSE cap + d
    IN IF stepped < MinCap THEN 0 ELSE IF stepped > MaxCap THEN MaxCap ELSE stepped

(* One format per option of that name.                                     *)
IsFormat(item) == \E i \in 1..Len(Formats) : Formats[i] = item
Changed(c, item, d) ==
    CASE item = "mode" ->
            WithMode(c, IF d > 0 THEN NextMode(ReadingMode(c)) ELSE PrevMode(ReadingMode(c)))
      [] item = "margin" -> [c EXCEPT !.margin = Bounded(@ + d, 0, MaxMargin)]
      [] item = "cap" -> [c EXCEPT !.cap = SteppedCap(@, d)]
      [] item = "spacing" -> [c EXCEPT !.spacing = Bounded(@ + d, 0, MaxSpacing)]
      [] item = "flow" -> [c EXCEPT !.flow = ~@]
      [] item = "theme" -> [c EXCEPT !.theme = (@ + d) % 2]
      [] item = "column" -> [c EXCEPT !.column = ~@]
      [] IsFormat(item) -> WithFormatMoved(c, item, d > 0)
      [] OTHER -> c
Value(c, item) ==
    IF item = "mode" THEN ReadingMode(c) ELSE IF IsFormat(item) THEN KeepRank(c, item) ELSE c[item]
IsAction(item) == item \in {"folder", "add", "find", "rescan"}
IsDefault(c, item) == IsAction(item) \/ Value(c, item) = Value(Default, item)
Reset(c, item) ==
    CASE item = "mode" -> WithMode(c, ReadingMode(Default))
      [] IsFormat(item) -> [c EXCEPT !.order = Formats]
      [] item \in {"margin", "cap", "spacing", "flow", "theme", "column"} ->
            [c EXCEPT ![item] = Default[item]]
      [] OTHER -> c

(* load_checked and save.  focus_mode is not kept; a missing or unparsable *)
(* file gives the defaults, the latter moved aside first.                  *)
Missing == [is |-> "missing", of |-> Default]
(* The known formats in the order they are first listed, then the rest.    *)
FirstPlace(order, f) ==
    CHOOSE i \in DOMAIN order : order[i] = f /\ \A j \in 1..(i - 1) : order[j] # f
PlaceIn(order) ==
    [f \in Range(Formats) |-> IF f \in Range(order) THEN FirstPlace(order, f)
                             ELSE Len(order) + FirstPlace(Formats, f)]
Earlier(S, place, x) == {y \in S : place[y] < place[x]}
NormalOrder(order) ==
    [k \in 1..Len(Formats) |->
        CHOOSE f \in Range(Formats) :
            Cardinality(Earlier(Range(Formats), PlaceIn(order), f)) = k - 1]
Loaded(f) ==
    IF f.is # "good" THEN Default
    ELSE [f.of EXCEPT !.margin = Bounded(@, 0, MaxMargin), !.spacing = Bounded(@, 0, MaxSpacing),
                      !.cap = IF @ = 0 THEN 0 ELSE Bounded(@, MinCap, MaxCap),
                      !.order = NormalOrder(@), !.focus = FALSE]
(* (mutant: an unparsable file is left where it is)                        *)
LeftInPlace == UNCHANGED <<file, backup>>
MovedAside ==
    IF file.is = "garbled" THEN file' = Missing /\ backup' = file ELSE UNCHANGED <<file, backup>>
SaveAs(c) == file' = [is |-> "good", of |-> [c EXCEPT !.focus = FALSE]] /\ UNCHANGED backup

----------------------------------------------------------------------------
(* The rows of the popup: a heading before the first of a tab and section. *)
Heading == [item |-> "heading", n |-> 0]
IsItem(row) == row.item # "heading"
Crumb(opt) == <<opt.tab, opt.section>>
OwnRows(opt, c) ==
    IF opt.item = "folders" THEN [k \in 1..Len(c.paths) |-> [item |-> "folder", n |-> k]]
    ELSE <<[item |-> opt.item, n |-> 0]>>
RowsOf(opts, shown, c) ==
    FlattenSeq([i \in 1..Len(opts) |->
        IF i \notin shown THEN <<>>
        ELSE IF \E j \in shown : j < i /\ Crumb(opts[j]) = Crumb(opts[i]) THEN OwnRows(opts[i], c)
        ELSE <<Heading>> \o OwnRows(opts[i], c)])
TabsOf(scope) == {Options[scope][i].tab : i \in 1..Len(Options[scope])}
InTab == [scope \in Scopes |-> [tab \in TabsOf(scope) |->
             {i \in 1..Len(Options[scope]) : Options[scope][i].tab = tab}]]
Found == [scope \in Scopes |-> [q \in DOMAIN Finds |->
             {i \in 1..Len(Options[scope]) : LET item == Options[scope][i].item IN
                 ~IsAction(item) /\ item # "folders" /\ item \in Finds[q]}]]
TabRows(scope, tab, c) == RowsOf(Options[scope], InTab[scope][tab], c)
FilteredRows(scope, q, c) == RowsOf(Options[scope], Found[scope][q], c)

NoSettings == [scope |-> "none", tab |-> 1, row |-> 1, adding |-> NoText, filter |-> NoText,
            query |-> NoQuery]
ActiveQuery(p) == IF p.filter # NoText THEN p.filter ELSE p.query
VisibleRows(p, c) == IF ActiveQuery(p) = NoQuery THEN TabRows(p.scope, p.tab, c)
                     ELSE FilteredRows(p.scope, ActiveQuery(p), c)
ItemRows(rows) == {i \in 1..Len(rows) : IsItem(rows[i])}
FirstRow(scope, tab, c) ==
    LET items == ItemRows(TabRows(scope, tab, c))
    IN IF items = {} THEN 1 ELSE CHOOSE i \in items : \A j \in items : i <= j
(* Every tab opens on an option, whatever folders there are.               *)
ASSUME TabsAssumption ==
    \A s \in Scopes : 1 \in TabsOf(s) /\ \A tab \in TabsOf(s) : FirstRow(s, tab, Default) = 2
(* settings_move: d items on from the one under the cursor, else the first.*)
MovedTo(p, c, d) ==
    LET items == ItemRows(VisibleRows(p, c))
        rank(i) == Cardinality(Earlier(items, [j \in items |-> j], i))
        target == Bounded((IF p.row \in items THEN rank(p.row) ELSE 0) + d, 0,
                          Cardinality(items) - 1)
    IN IF items = {} THEN p ELSE [p EXCEPT !.row = CHOOSE i \in items : rank(i) = target]
RowUnder(p, c) == IF p.row \in 1..Len(VisibleRows(p, c)) THEN VisibleRows(p, c)[p.row] ELSE Heading

----------------------------------------------------------------------------
(* The column: measure_for, in a pane the sidebar narrows unless hidden.   *)
Gutter == 2
MinText == 20
Measure(c) ==
    LET pane == IF c.focus THEN PaneWidth ELSE PaneWidth - SidebarWidth
        share == (pane * c.margin) \div 100
        inset == 2 * (IF share < Gutter THEN Gutter ELSE share)
        least == IF pane < MinText THEN pane ELSE MinText
        padded == IF c.margin = 0 THEN pane
                  ELSE IF pane - inset < least THEN least ELSE pane - inset
    IN IF c.cap # 0 /\ c.cap < padded THEN c.cap ELSE padded
WrapInput(c) == <<Measure(c), c.spacing>>
LayoutKey(c) == <<c.margin, c.cap, c.spacing, c.focus>>
(* settings_relayout, and the same at the end of apply.                    *)
(* (mutant: only the keys' edits hold the position)                        *)
HoldForKeysOnly(c) == held' = (held \/ (popup = NoSettings /\ LayoutKey(c) # LayoutKey(config)))
HoldIfLaidOut(c) == held' = (held \/ LayoutKey(c) # LayoutKey(config))

PrefInit ==
    /\ \E p \in Typeable : config = [Default EXCEPT !.paths = <<p>>] /\ wanted = {p}
    /\ popup = NoSettings /\ file = [is |-> "good", of |-> config] /\ backup = Missing
    /\ lastMeasure = Measure(config) /\ wrappedFor = WrapInput(config) /\ held = FALSE
    /\ prefFaults = 0 /\ prefStrokes = 0

Stroke == prefStrokes < PrefStrokes /\ prefStrokes' = prefStrokes + 1 /\ UNCHANGED prefFaults
AtPage == Stroke /\ popup = NoSettings
InPopup == Stroke /\ popup # NoSettings
AtList == InPopup /\ popup.adding = NoText /\ popup.filter = NoText
Displays(p) == popup' = p /\ UNCHANGED <<config, disk, page, wanted>>
Edits(c) ==
    /\ config' = c /\ HoldIfLaidOut(c) /\ UNCHANGED <<popup, lastMeasure, wrappedFor, wanted>>

(* `;`, Esc and what closes the popup.                                     *)
Open(scope) ==
    AtPage /\ Displays([NoSettings EXCEPT !.scope = scope, !.row = FirstRow(scope, 1, config)])
CloseSettings ==
    /\ AtList /\ popup.query = NoQuery
    /\ popup' = NoSettings /\ SaveAs(config) /\ UNCHANGED <<config, page, wanted>>
Move(d) == InPopup /\ popup.adding = NoText /\ Displays(MovedTo(popup, config, d))
GotoTab(tab) ==
    /\ InPopup /\ popup.adding = NoText /\ tab \in TabsOf(popup.scope)
    /\ Displays([popup EXCEPT !.tab = tab, !.row = FirstRow(popup.scope, tab, config)])

(* The filter; every edit of it puts the cursor back on a row.             *)
Refiltered(p) == Displays(MovedTo(p, config, 0))
BeginFilter == AtList /\ Refiltered([popup EXCEPT !.filter = popup.query])
TypeFilter(q) ==
    /\ InPopup /\ popup.adding = NoText /\ popup.filter # NoText
    /\ Refiltered([popup EXCEPT !.filter = q])
CommitFilter ==
    /\ InPopup /\ popup.adding = NoText /\ popup.filter # NoText
    /\ Refiltered([popup EXCEPT !.query = popup.filter, !.filter = NoText])
DropFilter ==
    /\ InPopup /\ popup.adding = NoText /\ (popup.filter # NoText \/ popup.query # NoQuery)
    /\ Refiltered([popup EXCEPT !.query = NoQuery, !.filter = NoText])

(* settings_change: an edit in memory, or what an action row does.         *)
Change(d) ==
    LET row == RowUnder(popup, config) IN
    /\ AtList /\ IsItem(row) /\ ~IsAction(row.item)
    /\ Edits(Changed(config, row.item, d)) /\ UNCHANGED disk
BeginAdd ==
    AtList /\ RowUnder(popup, config).item = "add" /\ Displays([popup EXCEPT !.adding = NoQuery])
(* start_discover closes the popup without saving.                         *)
FindFolders == AtList /\ RowUnder(popup, config).item = "find" /\ Displays(NoSettings)
CancelAdd == InPopup /\ popup.adding # NoText /\ Displays([popup EXCEPT !.adding = NoText])
CommitAdd(place) ==
    LET p == [popup EXCEPT !.adding = NoText]
        known == \E i \in 1..Len(config.paths) : config.paths[i] = place
        c == IF place = Nowhere \/ known THEN config ELSE [config EXCEPT !.paths = Append(@, place)]
    IN /\ InPopup /\ popup.adding # NoText
       /\ config' = c /\ IF c = config THEN UNCHANGED disk ELSE SaveAs(c)
       /\ popup' = IF place = Nowhere THEN p ELSE MovedTo(p, c, 0)
       /\ wanted' = (IF place = Nowhere THEN wanted ELSE wanted \cup {place}) /\ UNCHANGED page
DeleteFolder ==
    LET row == RowUnder(popup, config)
        c == [config EXCEPT !.paths = [i \in 1..(Len(@) - 1) |->
                                          IF i < row.n THEN config.paths[i] ELSE config.paths[i + 1]]]
    IN /\ AtList /\ row.item = "folder" /\ row.n \in 1..Len(config.paths)
       /\ config' = c /\ SaveAs(c) /\ popup' = MovedTo(popup, c, 0)
       /\ wanted' = wanted \ {config.paths[row.n]} /\ UNCHANGED page

(* r and R: the defaults, saved.                                           *)
ResetFocused ==
    LET row == RowUnder(popup, config) IN
    /\ AtList /\ IsItem(row) /\ ~IsDefault(config, row.item)
    /\ Edits(Reset(config, row.item)) /\ SaveAs(config')
ResetTab ==
    LET rows == VisibleRows(popup, config)
        stale == {i \in ItemRows(rows) : ~IsDefault(config, rows[i].item)}
        resets[i \in 0..Len(rows)] ==
            IF i = 0 THEN config
            ELSE IF i \in stale THEN Reset(resets[i-1], rows[i].item) ELSE resets[i-1]
    IN /\ AtList /\ stale # {}
       /\ Edits(resets[Len(rows)]) /\ SaveAs(config')

----------------------------------------------------------------------------
(* The reader's own keys, in memory: `[` and `]` step whichever of cap and *)
(* margin set the last frame's column; `M` the preset; `f` the chrome.     *)
CapStep == 2
Stepped(c, wider) ==
    LET capped == c.cap > 0 /\ lastMeasure >= c.cap
        room == IF wider THEN c.cap < MaxCap ELSE c.cap > MinCap
    IN IF capped /\ room
       THEN [c EXCEPT !.cap = Bounded(IF wider THEN @ + CapStep ELSE @ - CapStep, MinCap, MaxCap)]
       ELSE [c EXCEPT !.margin = Bounded(IF wider THEN @ - 1 ELSE @ + 1, 0, MaxMargin)]
StepMeasure(wider) == AtPage /\ Edits(Stepped(config, wider)) /\ UNCHANGED disk
CycleReadingMode ==
    AtPage /\ Edits(WithMode(config, NextMode(ReadingMode(config)))) /\ UNCHANGED disk
ToggleFocus == AtPage /\ Edits([config EXCEPT !.focus = ~@]) /\ UNCHANGED disk
CycleTheme ==
    AtPage /\ Edits([config EXCEPT !.theme = (@ + 1) % 2]) /\ SaveAs(config')
(* A frame wraps for the configuration it finds, and settles the position. *)
DrawPage ==
    /\ lastMeasure' = Measure(config) /\ wrappedFor' = WrapInput(config) /\ held' = FALSE
    /\ UNCHANGED <<config, popup, disk, wanted, prefFaults, prefStrokes>>

(* The program is left and started again; before that, the file may be     *)
(* edited by hand or damaged.                                              *)
Restart ==
    /\ AtPage
    /\ config' = Loaded(file) /\ MovedAside
    /\ lastMeasure' = Measure(config') /\ wrappedFor' = WrapInput(config') /\ held' = FALSE
    /\ UNCHANGED <<popup, wanted>>
Suffers(fault) ==
    /\ prefFaults < MaxFaults /\ prefFaults' = prefFaults + 1 /\ file.is = "good"
    /\ file' = IF fault = "edited"
               THEN [file EXCEPT !.of.margin = MaxMargin + 1, !.of.cap = MinCap - 1,
                                 !.of.order = <<Formats[2], "unknown", Formats[2]>>]
               ELSE [file EXCEPT !.is = fault]
    /\ UNCHANGED <<config, popup, backup, page, wanted, prefStrokes>>

PrefNext ==
    \/ \E s \in Scopes : Open(s)
    \/ CloseSettings \/ BeginFilter \/ CommitFilter \/ DropFilter
    \/ \E d \in {-5, -1, 1, 5} : Move(d)
    \/ \E t \in TabsOf("reader") \cup TabsOf("library") : GotoTab(t)
    \/ \E q \in DOMAIN Finds \cup {NoQuery} : TypeFilter(q)
    \/ \E d \in {-1, 1} : Change(d)
    \/ BeginAdd \/ CancelAdd \/ FindFolders \/ DeleteFolder
    \/ \E place \in Typeable \cup {Nowhere} : CommitAdd(place)
    \/ ResetFocused \/ ResetTab
    \/ \E wider \in BOOLEAN : StepMeasure(wider)
    \/ CycleReadingMode \/ ToggleFocus \/ CycleTheme \/ DrawPage \/ Restart
    \/ \E fault \in Faults : Suffers(fault)
PrefSpec == PrefInit /\ [][PrefNext]_prefVars

----------------------------------------------------------------------------
PrefTypeOK ==
    /\ popup.scope \in Scopes \cup {"none"} /\ popup.row \in Nat \ {0}
    /\ config.margin \in 0..MaxMargin /\ config.cap \in {0} \cup MinCap..MaxCap
    /\ config.spacing \in 0..MaxSpacing /\ held \in BOOLEAN
    /\ prefFaults \in 0..MaxFaults /\ prefStrokes \in 0..PrefStrokes

(* Whatever befell the file, a folder the reader added and did not remove  *)
(* is in use, in the file, or in the copy moved aside: no save writes the  *)
(* defaults over the only place that had it.                               *)
Has(c, place) == \E i \in 1..Len(c.paths) : c.paths[i] = place
FoldersSurvive ==
    \A place \in wanted : Has(config, place) \/ Has(file.of, place) \/ Has(backup.of, place)

OnOption ==
    \/ popup = NoSettings \/ IsItem(RowUnder(popup, config))
    \/ ItemRows(VisibleRows(popup, config)) = {}
(* The cursor is on an option whenever one is shown, however the rows came *)
(* to change; a frame that wraps anew does so at a position that was held; *)
(* R leaves nothing on view off its default, one option's reset not undone *)
(* by another's; every format keeps one rank; and a key that widens the      *)
(* column never narrows it, whatever the last frame was.                   *)
SettingsSound ==
    [][/\ OnOption'
       /\ (DrawPage /\ WrapInput(config) # wrappedFor) => held
       /\ ResetTab => \A i \in ItemRows(VisibleRows(popup, config)) :
             IsDefault(config', VisibleRows(popup, config)[i].item)
       /\ Range(config'.order) = Range(Formats) /\ Len(config'.order) = Len(Formats)
       /\ StepMeasure(TRUE) => Measure(config') >= Measure(config)
       /\ StepMeasure(FALSE) => Measure(config') <= Measure(config)]_prefVars

(* apply.rs, step_measure: "The key then always does what it says".  Fails *)
(* in a wide pane at the cap's floor: the margin moves, the column not.    *)
PressMoves ==
    [][\A wider \in BOOLEAN :
          (StepMeasure(wider) /\ lastMeasure = Measure(config) /\ LayoutKey(config') # LayoutKey(config))
             => Measure(config') # Measure(config)]_prefVars
(* config/mod.rs, save: "settings are saved on every Settings-overlay      *)
(* close".  Fails for the close that starts the folder search.             *)
SavedOnClose ==
    [][(popup # NoSettings /\ popup' = NoSettings) => file'.of = [config' EXCEPT !.focus = FALSE]]_prefVars
=============================================================================
