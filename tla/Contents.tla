------------------------------- MODULE Contents -------------------------------
(***************************************************************************)
(* The reader's contents pane (app/reader/sidebar.rs, its keys in          *)
(* app/dispatch, its clicks in app/mouse.rs): an outline whose parents     *)
(* fold, a filter over it, a cursor that is a row of what both leave, and  *)
(* a window onto those rows that follows the cursor or what is being read. *)
(* Rows count from 1; the window shows rows offset+1 to offset+height.     *)
(***************************************************************************)
EXTENDS Integers, FiniteSets, Sequences

CONSTANTS
    Outline,       \* the entries, in order: [depth, section, says]
    Typed,       \* what is typed into the filter; says holds those it matches
    Heights,       \* rows the pane may have
    TocStrokes     \* bound: inputs of one behaviour

Entries == 1..Len(Outline)
NoFilter == "no filter"
Empty == "empty"
NoRow == 0

ASSUME ContentsAssumption ==
    /\ Len(Outline) \in Nat \ {0} /\ Outline[1].depth = 0 /\ Heights \subseteq Nat \ {0}
    /\ {NoFilter, Empty} \cap Typed = {}
    /\ \A e \in Entries : Outline[e].depth \in Nat /\ Outline[e].section \in Nat

VARIABLES
    reading,       \* the section being read
    inSidebar,     \* focus
    sidebarSel, sidebarOffset, sidebarH,
    paneH,         \* rows the next frame gives the pane
    collapsed, sidebarFilter,
    lastActive,    \* the row the window last followed
    tocStrokes,
    drawnRows      \* ghost: the entries the last frame drew, <<>> once they changed
tocPane == <<sidebarSel, sidebarOffset, sidebarH, lastActive>>
tocVars == <<reading, inSidebar, tocPane, paneH, collapsed, sidebarFilter, tocStrokes, drawnRows>>

Least(a, b) == IF a < b THEN a ELSE b
Most(a, b) == IF a > b THEN a ELSE b
Between(x, lo, hi) == Most(lo, Least(x, hi))
RowsInOrder(S) == [k \in 1..Cardinality(S) |->
                      CHOOSE i \in S : Cardinality({j \in S : j <= i}) = k]

----------------------------------------------------------------------------
IsParent(e) == e < Len(Outline) /\ Outline[e + 1].depth > Outline[e].depth
(* The entries below e: those after it, deeper, up to the next that is not.*)
Below(e, d) == d > e /\ \A k \in (e + 1)..d : Outline[k].depth > Outline[e].depth
Unfolded(folds) == {d \in Entries : ~\E e \in folds : IsParent(e) /\ Below(e, d)}
Matching(q) == {e \in Entries : q \in Outline[e].says}
(* outline_visible: a filter searches the whole outline, folded or not.    *)
VisibleUnder(filter, folds) ==
    RowsInOrder(IF filter \in {NoFilter, Empty} THEN Unfolded(folds) ELSE Matching(filter))
Visible == VisibleUnder(sidebarFilter, collapsed)
RowOf(entry, rows) ==
    IF \E r \in 1..Len(rows) : rows[r] = entry
    THEN CHOOSE r \in 1..Len(rows) : rows[r] = entry ELSE NoRow
SelectedIn(rows) == IF sidebarSel \in 1..Len(rows) THEN rows[sidebarSel] ELSE NoRow
Selected == SelectedIn(Visible)

(* active_outline: the last entry of the greatest section up to this one.  *)
Active(sec) ==
    LET upto == {e \in Entries : Outline[e].section <= sec}
        at == {e \in upto : \A k \in upto : Outline[k].section <= Outline[e].section}
    IN IF upto = {} THEN NoRow ELSE CHOOSE e \in at : \A k \in at : k <= e
ActiveRow(sec, rows) == RowOf(Active(sec), rows)

CenteredOn(row, rows) ==
    Least(Most(row - 1 - sidebarH \div 2, 0), Most(Len(rows) - sidebarH, 0))

TocInit ==
    /\ reading \in {Outline[e].section : e \in Entries} /\ inSidebar = FALSE
    /\ sidebarSel = 1 /\ sidebarOffset = 0 /\ paneH \in Heights /\ sidebarH = paneH
    /\ collapsed = {} /\ sidebarFilter = NoFilter /\ lastActive = NoRow
    /\ tocStrokes = 0 /\ drawnRows = <<>>

Input == tocStrokes < TocStrokes /\ tocStrokes' = tocStrokes + 1 /\ drawnRows' = <<>>
Key(filtering) == Input /\ (sidebarFilter # NoFilter) = filtering

----------------------------------------------------------------------------
(* sidebar_move, over the rows the step leaves.                            *)
MoveTo(row, rows) ==
    IF rows = <<>> THEN UNCHANGED <<sidebarSel, sidebarOffset>>
    ELSE /\ sidebarSel' = Between(row, 1, Len(rows))
         /\ sidebarOffset' = CenteredOn(sidebarSel', rows)
Steps(d) ==
    /\ Input /\ (inSidebar \/ sidebarFilter # NoFilter)
    /\ MoveTo(sidebarSel + d, Visible)
    /\ UNCHANGED <<reading, inSidebar, sidebarH, lastActive, paneH, collapsed, sidebarFilter>>
(* g and G: the cursor alone; G counts entries, not rows.                  *)
Ends(row) ==
    /\ Key(FALSE) /\ inSidebar /\ row \in {1, Len(Outline)}
    /\ sidebarSel' = row
    /\ UNCHANGED <<reading, inSidebar, sidebarOffset, sidebarH, lastActive, paneH, collapsed,
                   sidebarFilter>>
(* Tab: into the pane at what is being read, and out.                      *)
FocusToggle ==
    /\ Key(FALSE) /\ inSidebar' = ~inSidebar
    /\ IF inSidebar THEN UNCHANGED <<sidebarSel, sidebarOffset>>
       ELSE /\ sidebarSel' = Most(ActiveRow(reading, Visible), 1)
            /\ sidebarOffset' = CenteredOn(sidebarSel', Visible)
    /\ UNCHANGED <<reading, sidebarH, lastActive, paneH, collapsed, sidebarFilter>>

(* sidebar_activate: jump_to the entry, and back to the page.              *)
Jump(entry) ==
    IF entry = NoRow THEN UNCHANGED <<reading, inSidebar>>
    ELSE reading' = Outline[entry].section /\ inSidebar' = FALSE
Activate ==
    /\ Key(FALSE) /\ inSidebar /\ Jump(Selected)
    /\ UNCHANGED <<tocPane, paneH, collapsed, sidebarFilter>>
(* l and h: unfold or jump; fold, or to the parent.                        *)
Expand ==
    /\ Key(FALSE) /\ inSidebar /\ Selected # NoRow
    /\ IF IsParent(Selected) /\ Selected \in collapsed
       THEN collapsed' = collapsed \ {Selected} /\ UNCHANGED <<reading, inSidebar>>
       ELSE Jump(Selected) /\ UNCHANGED collapsed
    /\ UNCHANGED <<tocPane, paneH, sidebarFilter>>
ParentOf(e) ==
    LET above == {j \in 1..(e - 1) : Outline[j].depth < Outline[e].depth}
    IN IF above = {} THEN NoRow ELSE CHOOSE j \in above : \A k \in above : k <= j
Collapse ==
    /\ Key(FALSE) /\ inSidebar /\ Selected # NoRow
    /\ IF IsParent(Selected) /\ Selected \notin collapsed
       THEN collapsed' = collapsed \cup {Selected} /\ UNCHANGED sidebarSel
       ELSE /\ sidebarSel' = LET row == RowOf(ParentOf(Selected), Visible)
                             IN IF ParentOf(Selected) # NoRow /\ row # NoRow THEN row
                                ELSE sidebarSel
            /\ UNCHANGED collapsed
    /\ UNCHANGED <<reading, inSidebar, sidebarOffset, sidebarH, lastActive, paneH, sidebarFilter>>

----------------------------------------------------------------------------
(* The filter.                                                             *)
StartFilter ==
    /\ Key(FALSE) /\ inSidebar
    /\ sidebarFilter' = Empty /\ sidebarSel' = 1 /\ sidebarOffset' = 0
    /\ UNCHANGED <<reading, inSidebar, sidebarH, lastActive, paneH, collapsed>>
Type(q) ==
    /\ Key(TRUE) /\ sidebarFilter' = q
    /\ MoveTo(sidebarSel, VisibleUnder(q, collapsed))
    /\ UNCHANGED <<reading, inSidebar, sidebarH, lastActive, paneH, collapsed>>
(* clear_sidebar_filter: the entry landed on, then its row without a filter*)
(* (mutant: the row stays, whatever it comes to be)                        *)
KeptRowOf(landed, rows) == sidebarSel
LandedRow(landed, rows) ==
    IF landed # NoRow /\ RowOf(landed, rows) # NoRow THEN RowOf(landed, rows) ELSE sidebarSel
ClearFilter ==
    LET rows == VisibleUnder(NoFilter, collapsed) IN
    /\ sidebarFilter' = NoFilter
    /\ sidebarSel' = LandedRow(Selected, rows)
    /\ sidebarOffset' = CenteredOn(sidebarSel', rows)
    /\ UNCHANGED <<sidebarH, lastActive, paneH, collapsed>>
LeaveFilter == Key(TRUE) /\ ClearFilter /\ UNCHANGED <<reading, inSidebar>>
TabFromFilter == Key(TRUE) /\ ClearFilter /\ inSidebar' = FALSE /\ UNCHANGED reading
EnterFromFilter == Key(TRUE) /\ Jump(Selected) /\ ClearFilter

----------------------------------------------------------------------------
(* The mouse: the wheel moves the window only; a click jumps to the row    *)
(* under it and leaves the cursor there.  Below the title, as many rows as *)
(* the pane has, less one unless the filter's line takes it.               *)
Wheel(d) ==
    /\ Input
    /\ sidebarOffset' = Between(sidebarOffset + d, 0, Most(Len(Visible) - Most(sidebarH, 1), 0))
    /\ UNCHANGED <<reading, inSidebar, sidebarSel, sidebarH, lastActive, paneH, collapsed,
                   sidebarFilter>>
Clickable == IF sidebarFilter = NoFilter THEN 1..(sidebarH - 1) ELSE 1..sidebarH
Click(line) ==
    LET row == sidebarOffset + line IN
    /\ Input /\ line \in Clickable /\ row <= Len(Visible)
    /\ reading' = Outline[Visible[row]].section
    /\ sidebarSel' = row /\ inSidebar' = TRUE
    /\ UNCHANGED <<sidebarOffset, sidebarH, lastActive, paneH, collapsed, sidebarFilter>>
(* Reading on, or another place of the pane, without it.                   *)
ReadOn(sec) ==
    /\ Input /\ ~inSidebar /\ reading' = sec
    /\ UNCHANGED <<inSidebar, tocPane, paneH, collapsed, sidebarFilter>>
ResizePane(h) ==
    /\ Input /\ paneH' = h
    /\ UNCHANGED <<reading, inSidebar, tocPane, collapsed, sidebarFilter>>

(* update_sidebar_view, then the rows drawn.                               *)
Followed(a) ==
    IF a <= sidebarOffset THEN a - 1
    ELSE IF a > sidebarOffset + paneH THEN a - paneH ELSE sidebarOffset
DrawPane ==
    LET a == ActiveRow(reading, Visible)
        follows == ~inSidebar /\ a # lastActive
        top == IF follows /\ a # NoRow THEN Followed(a) ELSE sidebarOffset
    IN /\ sidebarH' = paneH
       /\ sidebarOffset' = Least(top, Most(Len(Visible) - paneH, 0))
       /\ lastActive' = IF inSidebar THEN lastActive ELSE a
       /\ drawnRows' = [i \in 1..Least(paneH, Len(Visible) - sidebarOffset') |->
                           Visible[sidebarOffset' + i]]
       /\ UNCHANGED <<reading, inSidebar, sidebarSel, paneH, collapsed, sidebarFilter, tocStrokes>>

TocNext ==
    \/ \E d \in {-2, -1, 1, 2} : Steps(d)
    \/ \E row \in Entries : Ends(row)
    \/ FocusToggle \/ Activate \/ Expand \/ Collapse
    \/ StartFilter \/ \E q \in Typed \cup {Empty} : Type(q)
    \/ LeaveFilter \/ TabFromFilter \/ EnterFromFilter
    \/ \E d \in {-3, 3} : Wheel(d)
    \/ \E h \in Heights : ResizePane(h)
    \/ \E line \in Entries : Click(line)
    \/ \E e \in Entries : ReadOn(Outline[e].section)
    \/ DrawPane
TocSpec == TocInit /\ [][TocNext]_tocVars

----------------------------------------------------------------------------
TocTypeOK ==
    /\ sidebarSel \in Entries /\ sidebarOffset \in 0..Len(Outline) /\ collapsed \subseteq Entries
    /\ sidebarFilter \in Typed \cup {NoFilter, Empty} /\ sidebarH \in Heights

InWindow(row, top, h) == row \in (top + 1)..(top + h)
(* Whatever is folded, filtered or scrolled: a click on a drawn row goes   *)
(* to the entry drawn there; leaving the filter keeps the entry it had     *)
(* landed on, unless a fold hides it; a step leaves the cursor in the      *)
(* window; and while the page is read, the window follows what is read.    *)
PaneFollows ==
    [][/\ \A line \in 1..Len(drawnRows) : Click(line) =>
             Visible'[sidebarSel'] = drawnRows[line]
       /\ (LeaveFilter /\ Selected \in Unfolded(collapsed)) => Visible'[sidebarSel'] = Selected
       /\ \A d \in {-1, 1} : (Steps(d) /\ Visible # <<>>) =>
             InWindow(sidebarSel', sidebarOffset', sidebarH)
       /\ LET a == ActiveRow(reading, Visible) IN
             (DrawPane /\ ~inSidebar /\ a \notin {lastActive, NoRow}) =>
                InWindow(a, sidebarOffset', sidebarH')]_tocVars

(* sidebar.rs: "Close the filter, keeping the cursor on whatever it had    *)
(* landed on".  Fails for an entry a folded parent hides.                  *)
LandedKept ==
    [][(LeaveFilter /\ Selected # NoRow) =>
          sidebarSel' <= Len(Visible') /\ Visible'[sidebarSel'] = Selected]_tocVars
(* The cursor is a row that is there.  Fails: G goes to the last entry's   *)
(* number, past the rows left by a fold.                                   *)
CursorOnARow == inSidebar => sidebarSel <= Len(Visible)
=============================================================================
