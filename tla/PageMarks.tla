------------------------------ MODULE PageMarks ------------------------------
(***************************************************************************)
(* What a reader puts on a page (app/reader/selection.rs, anchors.rs, the  *)
(* pick-mode and the annotations of mod.rs, visual_key and highlight_quote *)
(* of app/dispatch/overlays.rs): the caret and its selection, the link     *)
(* cursor, the number badges, bookmarks, notes and highlights.  All of     *)
(* them point into the wrapped lines, which a chapter change leaves behind *)
(* until the next frame, and a new width lays out otherwise.               *)
(*                                                                         *)
(* A line is [kind, idx, text, links]: its characters, the link each one   *)
(* is part of, and for a figure or a code block its number in the chapter. *)
(* A wrap's hyphen is a character of the line, never of the text.  Lines,  *)
(* columns and positions count from 1.                                     *)
(***************************************************************************)
EXTENDS Integers, FiniteSets, Sequences, SequencesExt

CONSTANTS
    Laid,          \* width -> chapter -> the lines wrap_blocks makes
    Leads,         \* link -> [sec, ch] it leads to; sec 0: out of the book
    Opens,         \* chapter -> the numbers of the figures the viewer can open
    PageLines,     \* rows of a column
    Columns,       \* columns in view
    QuoteCap,      \* characters current_quote keeps
    LooseFrom,     \* from this length find_line also looks inside a quote
    Colors,        \* HighlightColor::ALL, in order
    Queries,       \* characters searched for
    Burst,         \* keys may come before the frame the last one asked for
    MaxMarks,      \* bound: annotations stored
    MarkStrokes    \* bound: keys of one behaviour

Widths == DOMAIN Laid
Chapters == UNION {DOMAIN Laid[w] : w \in Widths}
Gap == " "
Hyphen == "-"
NoLink == "none"
NoCaret == <<0, 0>>
NoSelect == [caret |-> NoCaret, anchor |-> NoCaret]
NoPrompt == [section |-> 0, quote |-> <<>>]

ASSUME MarksAssumption ==
    /\ {PageLines, Columns, QuoteCap, Len(Colors)} \subseteq Nat \ {0}
    /\ IsFiniteSet(Chapters) /\ Chapters = 1..Cardinality(Chapters)
    /\ \A w \in Widths : DOMAIN Laid[w] = Chapters
    /\ \A w \in Widths, c \in Chapters :
          /\ Laid[w][c] \in Seq([kind : STRING, idx : Nat, text : Seq(STRING), links : Seq(STRING)])
          /\ Laid[w][c] # <<>>
(* The places links of the book lead to are of the book, and each figure   *)
(* has its rows at every width.                                            *)
ASSUME BookAssumption ==
    \A w \in Widths, c \in Chapters :
        /\ \A l \in 1..Len(Laid[w][c]) : \A k \in 1..Len(Laid[w][c][l].links) :
              Laid[w][c][l].links[k] # NoLink =>
                  Leads[Laid[w][c][l].links[k]].sec \in {0} \cup Chapters
        /\ \A idx \in Opens[c] : \E l \in 1..Len(Laid[w][c]) :
              Laid[w][c][l].kind = "image" /\ Laid[w][c][l].idx = idx

VARIABLES
    chapter, scroll,
    laid,          \* [sec, width] the lines are the wrap of
    wrapped,       \* their key still holds: load forces another wrap
    width,         \* what the next frame wraps at
    paged,         \* page mode
    select,        \* caret and anchor, <<line, column>> each
    anchorSel,     \* the link cursor, 0 for none
    hint,          \* the elements badged, all of a kind; <<>> outside the pick-mode
    pen,
    found, match,  \* search.matches, <<chapter, line>> each, and idx
    marks,         \* the annotations, oldest first
    gutter,        \* lines marked for a bookmark or a note
    wash,          \* cells washed, with the quote they are washed for
    prompt,        \* the note being written
    use,           \* what the keys of this behaviour are about
    markStrokes,
    moved          \* ghost: a motion since the last frame

place == <<chapter, scroll, laid, wrapped, width, paged>>
pointers == <<select, anchorSel, hint, pen>>
search == <<found, match>>
stored == <<marks, gutter, wash, prompt>>
marksVars == <<place, pointers, search, stored, use, markStrokes, moved>>

Lesser(a, b) == IF a < b THEN a ELSE b
Greater(a, b) == IF a > b THEN a ELSE b
Ascending(S) == [k \in 1..Cardinality(S) |->
                CHOOSE i \in S : Cardinality({j \in S : j <= i}) = k]
LinesOf(l) == Laid[l.width][l.sec]
Lines == LinesOf(laid)
Drawn == wrapped /\ laid.width = width

----------------------------------------------------------------------------
(* The text of cells.                                                      *)

(* What split_whitespace and a join leave of a piece of text.              *)
Squeezed(text) ==
    LET letter(i) == text[i].ch # Gap
        kept == {i \in 1..Len(text) :
                    \/ letter(i)
                    \/ /\ i > 1 /\ letter(i - 1)
                       /\ \E j \in i..Len(text) : letter(j)}
        order == Ascending(kept)
    IN [k \in 1..Len(order) |-> text[order[k]]]

Broken(line) == line.text # <<>> /\ Last(line.text) = Hyphen
(* (mutant: the wrap's hyphen is taken for text)                           *)
LineTextHyphened(lines, l, from, to) ==
    Append([i \in 1..Greater(to - from + 1, 0) |->
                [ch |-> lines[l].text[from + i - 1], at |-> <<l, from + i - 1>>]],
           [ch |-> Gap, at |-> NoCaret])
(* The characters of one line's columns, then the line break: nothing      *)
(* where the wrap put a hyphen.                                            *)
LineText(lines, l, from, to) ==
    LET col == IF Broken(lines[l]) THEN Lesser(to, Len(lines[l].text) - 1) ELSE to
        chars == [i \in 1..Greater(col - from + 1, 0) |->
                    [ch |-> lines[l].text[from + i - 1], at |-> <<l, from + i - 1>>]]
    IN IF Broken(lines[l]) /\ to >= Len(lines[l].text) THEN chars
       ELSE Append(chars, [ch |-> Gap, at |-> NoCaret])
TextBetween(lines, a, b) ==
    Squeezed(FlattenSeq([i \in 1..Greater(b[1] - a[1] + 1, 0) |->
        LET l == a[1] + i - 1
        IN LineText(lines, l, IF l = a[1] THEN a[2] ELSE 1,
                    IF l = b[1] THEN Lesser(b[2], Len(lines[l].text)) ELSE Len(lines[l].text))]))
Chars(text) == [i \in 1..Len(text) |-> text[i].ch]
(* What is on a line, the wrap's hyphen included.                          *)
WholeLine(lines, l) ==
    Chars(Squeezed([i \in 1..Len(lines[l].text) |-> [ch |-> lines[l].text[i], at |-> <<l, i>>]]))
FlatIndex(lines) == TextBetween(lines, <<1, 1>>, <<Len(lines), Len(Last(lines).text)>>)

(* resolve_spans: the first place the chapter's text spells the quote.     *)
Spells(flat, i, quote) ==
    i + Len(quote) - 1 <= Len(flat) /\ \A k \in 1..Len(quote) : flat[i + k - 1].ch = quote[k]
ResolveSpans(quote, lines) ==
    LET flat == FlatIndex(lines)
        spelt == {i \in 1..Len(flat) : Spells(flat, i, quote)}
        first == CHOOSE i \in spelt : \A j \in spelt : i <= j
        cells == {flat[first + k - 1].at : k \in 1..Len(quote)} \ {NoCaret}
    IN IF quote = <<>> \/ spelt = {} THEN {}
       ELSE {p \in UNION {{<<x[1], i>> : i \in 1..Len(lines[x[1]].text)} : x \in cells} :
                /\ \E x \in cells : x[1] = p[1] /\ x[2] <= p[2]
                /\ \E x \in cells : x[1] = p[1] /\ x[2] >= p[2]}

(* loose_key and find_line: the line of a quote, an equal line first, then *)
(* the first that holds it, or that a long quote holds.                    *)
Loose(text) ==
    Squeezed([i \in 1..Len(text) |->
                [ch |-> IF text[i] \in {Gap, Hyphen} THEN Gap ELSE text[i], at |-> NoCaret]])
LooseLine(lines, l) == Chars(Loose(lines[l].text))
Holds(text, part) == part # <<>> /\ \E i \in 0..Len(text) - Len(part) :
                        SubSeq(text, i + 1, i + Len(part)) = part
FindLine(quote, lines) ==
    LET n == Chars(Loose(quote))
        equal == {l \in 1..Len(lines) : LooseLine(lines, l) = n}
        near == {l \in 1..Len(lines) :
                    \/ Holds(LooseLine(lines, l), n)
                    \/ Len(n) >= LooseFrom /\ Holds(n, LooseLine(lines, l))}
        from == IF equal # {} THEN equal ELSE near
    IN IF n = <<>> THEN {} ELSE {l \in from : \A k \in from : l <= k}

----------------------------------------------------------------------------
(* recompute_annotation_lines, over the lines at hand.                     *)
GutterOf(ms, sec, lines) ==
    UNION {FindLine(ms[i].quote, lines) :
              i \in {k \in 1..Len(ms) : ms[k].kind # "highlight" /\ ms[k].section = sec}}
WashOf(ms, sec, lines) ==
    {[quote |-> ms[i].quote, color |-> ms[i].color, cells |-> ResolveSpans(ms[i].quote, lines)] :
        i \in {k \in 1..Len(ms) : ms[k].kind = "highlight" /\ ms[k].section = sec}}
SetAnnotations(ms) ==
    /\ marks' = ms
    /\ gutter' = GutterOf(ms, chapter, Lines)
    /\ wash' = WashOf(ms, chapter, Lines)

(* recompute_anchors: a link is one target of each line it has cells on,   *)
(* however many words it spans there.                                      *)
Starts(line) ==
    {c \in 1..Len(line.links) :
        /\ line.links[c] # NoLink
        /\ ~\E b \in 1..(c - 1) :
              /\ line.links[b] = line.links[c]
              /\ \A k \in (b + 1)..(c - 1) :
                    line.links[k] = line.links[c] \/ line.text[k] = Gap}
HitsOf(lines) ==
    FlattenSeq([l \in 1..Len(lines) |->
        LET cols == Ascending(Starts(lines[l]))
        IN [i \in 1..Len(cols) |-> [line |-> l, link |-> lines[l].links[cols[i]]]]])
Hits == HitsOf(Lines)

(* ensure_wrapped, for chapter c at width w: lines, marks and links anew.  *)
Wrapped(c, w, sel) ==
    /\ laid' = [sec |-> c, width |-> w] /\ wrapped' = TRUE
    /\ gutter' = GutterOf(marks, c, Laid[w][c]) /\ wash' = WashOf(marks, c, Laid[w][c])
    /\ anchorSel' = IF sel <= Len(HitsOf(Laid[w][c])) THEN sel ELSE 0

MaxScroll(n) == Greater(n - PageLines + 1, 1)
Clamped(l, n) == Greater(Lesser(l, MaxScroll(n)), 1)
Span == PageLines * Columns
Snapped(l) == ((l - 1) \div Span) * Span + 1

----------------------------------------------------------------------------
MarksInit ==
    /\ chapter \in Chapters /\ scroll = 1 /\ width \in Widths
    /\ laid = [sec |-> chapter, width |-> width] /\ wrapped = TRUE /\ paged \in BOOLEAN
    /\ select = NoSelect /\ anchorSel = 0 /\ hint = <<>> /\ pen = Colors[1]
    /\ found = <<>> /\ match = 0
    /\ marks = <<>> /\ gutter = {} /\ wash = {} /\ prompt = NoPrompt
    /\ use \in {"caret", "links", "badges", "search"}
    /\ markStrokes = 0 /\ moved = FALSE

Press(what) ==
    /\ use \in what /\ prompt = NoPrompt /\ (Drawn \/ Burst)
    /\ markStrokes < MarkStrokes /\ markStrokes' = markStrokes + 1 /\ UNCHANGED use
Caret == select.caret
Selecting == select.anchor # NoCaret
Moved(b) == moved' = b

(* load: the chapter changes, its lines stay the old one's.                *)
Load(c) ==
    /\ chapter' = c /\ wrapped' = FALSE /\ hint' = <<>> /\ anchorSel' = 0

(* A click in the contents or a wheel past the chapter's end: it reaches   *)
(* the page whatever the keys are captured by.                             *)
ClickChapter(c) ==
    /\ Press({"caret", "links", "badges", "search"})
    /\ IF c = chapter THEN UNCHANGED <<chapter, wrapped, hint, anchorSel>> ELSE Load(c)
    /\ scroll' = 1 /\ Moved(FALSE)
    /\ UNCHANGED <<laid, width, paged, select, pen, search, stored>>
WheelTo(l) ==
    /\ Press({"caret", "badges"})
    /\ scroll' = Clamped(l, Len(Lines)) /\ Moved(FALSE)
    /\ UNCHANGED <<chapter, laid, wrapped, width, paged, pointers, search, stored>>
Resize(w) ==
    /\ Press({"caret", "links", "badges", "search"}) /\ width' = w /\ Moved(FALSE)
    /\ UNCHANGED <<chapter, scroll, laid, wrapped, paged, pointers, search, stored>>

(* A frame: ensure_wrapped, resolve_pending, clamp_scroll.  The snap to a  *)
(* page waits while a caret drives the view.                               *)
(* (mutant: it does not wait)                                              *)
RestsAlwaysSnapped(l) == IF paged THEN Snapped(l) ELSE l
RestsAt(l) == IF paged /\ select = NoSelect THEN Snapped(l) ELSE l
Draw ==
    /\ Wrapped(chapter, width, anchorSel)
    /\ scroll' = Clamped(RestsAt(scroll), Len(Laid[width][chapter]))
    /\ Moved(FALSE)
    /\ UNCHANGED <<chapter, width, paged, select, hint, pen, search, marks, prompt, use, markStrokes>>

----------------------------------------------------------------------------
(* The caret (visual_key).                                                 *)

Blank(line) == \A i \in 1..Len(line.text) : line.text[i] = Gap
StartSelection ==
    /\ Press({"caret"}) /\ select = NoSelect /\ hint = <<>>
    /\ LET seen == {l \in scroll..Len(Lines) : ~Blank(Lines[l])}
           line == IF seen = {} THEN Lesser(scroll, Len(Lines))
                   ELSE CHOOSE l \in seen : \A k \in seen : l <= k
       IN select' = [caret |-> <<line, 1>>, anchor |-> NoCaret]
    /\ Moved(FALSE)
    /\ UNCHANGED <<place, anchorSel, hint, pen, search, stored>>

MaxCol(l) == Greater(Len(Lines[l].text), 1)
Onto(l, c) == <<l, Lesser(c, MaxCol(l))>>
ClampedCaret(p) == Onto(Lesser(p[1], Len(Lines)), p[2])
(* The start of the next word, and of this word or the one before.         *)
WordStarts(l) ==
    {c \in 1..Len(Lines[l].text) :
        Lines[l].text[c] # Gap /\ (c = 1 \/ Lines[l].text[c - 1] = Gap)}
Motion(p, way) ==
    LET l == p[1] c == p[2] n == Len(Lines) half == Greater(Span \div 2, 1)
        down(k) == Onto(Lesser(l + k, n), c)
        up(k) == Onto(Greater(l - k, 1), c)
        before == IF l > 1 THEN <<l - 1, MaxCol(l - 1)>> ELSE p
        after == IF l < n THEN <<l + 1, 1>> ELSE p
        ahead == {x \in WordStarts(l) : x > c}
        behind == {x \in WordStarts(l) : x < c}
    IN CASE way = "left" -> IF c > 1 THEN <<l, c - 1>> ELSE before
         [] way = "right" -> IF c < MaxCol(l) THEN <<l, c + 1>> ELSE after
         [] way = "down" -> down(1)
         [] way = "up" -> up(1)
         [] way = "halfdown" -> down(half)
         [] way = "halfup" -> up(half)
         [] way = "wordforward" ->
               IF ahead # {} THEN <<l, CHOOSE x \in ahead : \A y \in ahead : x <= y>>
               ELSE IF l < n THEN after ELSE <<l, MaxCol(l)>>
         [] way = "wordback" ->
               IF c = 1 THEN before
               ELSE IF behind # {} THEN <<l, CHOOSE x \in behind : \A y \in behind : x >= y>>
               ELSE <<l, 1>>
         [] way = "start" -> <<l, 1>>
         [] way = "end" -> <<l, MaxCol(l)>>
Ways == {"left", "right", "down", "up", "halfdown", "halfup", "wordforward", "wordback",
         "start", "end"}
FollowCaret(l) ==
    LET near == IF l < scroll THEN l
                ELSE IF l >= scroll + Span THEN l + 1 - Span ELSE scroll
    IN Lesser(near, MaxScroll(Len(Lines)))
MoveCaret(way) ==
    /\ Press({"caret"}) /\ select # NoSelect
    /\ select' = [caret |-> Motion(ClampedCaret(Caret), way),
                  anchor |-> IF Selecting THEN ClampedCaret(select.anchor) ELSE NoCaret]
    /\ scroll' = FollowCaret(select'.caret[1])
    /\ Moved(Drawn)
    /\ UNCHANGED <<chapter, laid, wrapped, width, paged, anchorSel, hint, pen, search, stored>>
ToggleAnchor ==
    /\ Press({"caret"}) /\ select # NoSelect
    /\ select' = [select EXCEPT !.anchor = IF Selecting THEN NoCaret ELSE Caret]
    /\ UNCHANGED <<place, anchorSel, hint, pen, search, stored, moved>>
(* Esc, V, and y, which copies first.                                      *)
LeaveSelection ==
    /\ Press({"caret"}) /\ select # NoSelect /\ select' = NoSelect
    /\ UNCHANGED <<place, anchorSel, hint, pen, search, stored, moved>>

Ordered ==
    LET a == IF Selecting THEN select.anchor ELSE Caret
    IN IF a[1] < Caret[1] \/ (a[1] = Caret[1] /\ a[2] <= Caret[2]) THEN <<a, Caret>>
       ELSE <<Caret, a>>
SelectionText ==
    LET a == Ordered[1] b == Ordered[2] n == Len(Lines)
    IN IF ~Selecting \/ a[1] > Lesser(b[1], n) THEN <<>>
       ELSE Chars(TextBetween(Lines, a, IF b[1] > n THEN <<n, Len(Lines[n].text)>> ELSE b))
CurrentLineText ==
    LET from == Lesser(IF select # NoSelect THEN Caret[1] ELSE scroll, Len(Lines))
        seen == {l \in from..Len(Lines) : ~Blank(Lines[l])}
    IN IF seen = {} THEN <<>>
       ELSE WholeLine(Lines, CHOOSE l \in seen : \A k \in seen : l <= k)
CurrentQuote ==
    LET t == CurrentLineText IN SubSeq(t, 1, Lesser(Len(t), QuoteCap))

----------------------------------------------------------------------------
(* Annotations, with ghosts: the page they were made on had been drawn, at *)
(* which width, and whether the words are a whole line's.                  *)

Mark(kind, quote, color) ==
    [kind |-> kind, section |-> chapter, quote |-> quote, color |-> color,
     drawn |-> Drawn, at |-> laid.width, line |-> ~Selecting]
Marking ==
    /\ Press({"caret"}) /\ hint = <<>>
    /\ UNCHANGED <<place, anchorSel, hint, search, moved>>
Room == Len(marks) < MaxMarks

AddBookmark ==
    /\ Marking /\ UNCHANGED <<select, pen, prompt>>
    /\ IF \E i \in 1..Len(marks) :
            /\ marks[i].kind = "bookmark" /\ marks[i].section = chapter
            /\ marks[i].quote = CurrentQuote
       THEN UNCHANGED <<marks, gutter, wash>>
       ELSE Room /\ SetAnnotations(Append(marks, Mark("bookmark", CurrentQuote, 0)))

(* highlight_quote: a colour paints, 0 steps the cycle of what is there,   *)
(* whose end is no highlight.                                              *)
HighlightQuote(quote, color) ==
    LET same == {i \in 1..Len(marks) : marks[i].kind = "highlight"
                                       /\ marks[i].section = chapter /\ marks[i].quote = quote}
        i == CHOOSE k \in same : \A j \in same : k <= j
        turn == {k \in 1..Len(Colors) - 1 : same # {} /\ Colors[k] = marks[i].color}
        next == IF color # 0 THEN color
                ELSE IF same = {} THEN Colors[1]
                ELSE IF turn = {} THEN 0 ELSE Colors[(CHOOSE k \in turn : TRUE) + 1]
    IN IF quote = <<>> THEN SetAnnotations(marks)
       ELSE IF same = {} THEN Room /\ SetAnnotations(Append(marks, Mark("highlight", quote, next)))
       ELSE IF next = 0 THEN SetAnnotations(RemoveAt(marks, i))
       ELSE SetAnnotations([marks EXCEPT ![i].color = next])
HighlightLine ==
    /\ Marking /\ ~Selecting /\ HighlightQuote(CurrentLineText, 0)
    /\ UNCHANGED <<select, pen, prompt>>
HighlightSelection(color) ==
    /\ Marking /\ Selecting
    /\ pen' = color /\ HighlightQuote(SelectionText, color)
    /\ UNCHANGED <<select, prompt>>

(* A note's place is kept while its text is written; nothing else hears    *)
(* the keys meanwhile.                                                     *)
AddNote ==
    /\ Marking /\ Room
    /\ LET quote == IF Selecting THEN SelectionText ELSE CurrentQuote
       IN IF Selecting /\ quote = <<>> THEN UNCHANGED prompt
          ELSE prompt' = [section |-> chapter, quote |-> quote]
    /\ select' = NoSelect
    /\ UNCHANGED <<pen, marks, gutter, wash>>
CommitNote(written) ==
    /\ prompt # NoPrompt /\ prompt' = NoPrompt
    /\ IF written
       THEN SetAnnotations(Append(marks, [Mark("note", prompt.quote, 0)
                                              EXCEPT !.section = prompt.section]))
       ELSE UNCHANGED <<marks, gutter, wash>>
    /\ UNCHANGED <<place, pointers, search, use, markStrokes, moved>>

----------------------------------------------------------------------------
(* The link cursor.                                                        *)

ScrollIntoView(l, lines) ==
    Clamped(IF l < scroll THEN l
            ELSE IF l >= scroll + PageLines THEN Greater(l - PageLines \div 2, 1) ELSE scroll,
            Len(lines))
(* step_anchor wraps first, at the last frame's width.                     *)
StepAnchor(forward) ==
    /\ Press({"links"}) /\ select = NoSelect /\ hint = <<>>
    /\ LET lines == Laid[laid.width][chapter]
           hits == HitsOf(lines)
           n == Len(hits)
           below == {i \in 1..n : hits[i].line >= scroll}
           above == {i \in 1..n : hits[i].line < scroll + PageLines}
           next == IF anchorSel # 0
                   THEN ((anchorSel - 1 + (IF forward THEN 1 ELSE n - 1)) % n) + 1
                   ELSE IF forward
                   THEN IF below = {} THEN 1 ELSE CHOOSE i \in below : \A j \in below : i <= j
                   ELSE IF above = {} THEN n ELSE CHOOSE i \in above : \A j \in above : i >= j
       IN IF n = 0 THEN Wrapped(chapter, laid.width, anchorSel) /\ UNCHANGED scroll
          ELSE /\ Wrapped(chapter, laid.width, next)
               /\ scroll' = ScrollIntoView(hits[next].line, lines)
    /\ Moved(FALSE)
    /\ UNCHANGED <<chapter, width, paged, select, hint, pen, search, marks, prompt>>
ClearAnchor ==
    /\ Press({"links"}) /\ anchorSel # 0 /\ anchorSel' = 0 /\ Moved(FALSE)
    /\ UNCHANGED <<place, select, hint, pen, search, stored>>

LineOfChar(lines, ch) ==
    LET on == {l \in 1..Len(lines) : ch \in ToSet(lines[l].text)}
    IN IF on = {} THEN 1 ELSE CHOOSE l \in on : \A k \in on : l <= k
(* activate_anchor: out of the book, to a place of this chapter, or to     *)
(* another chapter, wrapped at once at the last frame's width.             *)
ActivateAnchor ==
    /\ Press({"links"}) /\ anchorSel \in 1..Len(Hits)
    /\ LET link == Hits[anchorSel].link
           to == Leads[link]
       IN /\ IF to.sec = 0
             THEN anchorSel' = 0
                  /\ UNCHANGED <<chapter, scroll, laid, wrapped, hint, gutter, wash>>
             ELSE IF to.sec = chapter
             THEN /\ anchorSel' = 0
                  /\ scroll' = Clamped(LineOfChar(Lines, to.ch), Len(Lines))
                  /\ UNCHANGED <<chapter, laid, wrapped, hint, gutter, wash>>
             ELSE LET lines == Laid[laid.width][to.sec] IN
                  /\ chapter' = to.sec /\ hint' = <<>>
                  /\ Wrapped(to.sec, laid.width, 0)
                  /\ scroll' = Clamped(LineOfChar(lines, to.ch), Len(lines))
    /\ Moved(FALSE)
    /\ UNCHANGED <<width, paged, select, pen, search, marks, prompt>>

(* w and b: to the next figure, table or code block; two of a kind that    *)
(* touch are one.                                                          *)
ElementStarts(lines) ==
    {l \in 1..Len(lines) :
        lines[l].kind # "body" /\ (l = 1 \/ lines[l - 1].kind # lines[l].kind)}
JumpElement(forward) ==
    /\ Press({"links"}) /\ select = NoSelect
    /\ Wrapped(chapter, laid.width, anchorSel)
    /\ LET lines == Laid[laid.width][chapter]
           ahead == {l \in ElementStarts(lines) : l > scroll}
           behind == {l \in ElementStarts(lines) : l < scroll}
           to == IF forward THEN {l \in ahead : \A k \in ahead : l <= k}
                 ELSE {l \in behind : \A k \in behind : l >= k}
       IN scroll' = IF to = {} THEN scroll ELSE Clamped(CHOOSE l \in to : TRUE, Len(lines))
    /\ Moved(FALSE)
    /\ UNCHANGED <<chapter, width, paged, select, hint, pen, search, marks, prompt>>

----------------------------------------------------------------------------
(* The search of the whole book.  It wraps every chapter for itself,       *)
(* without the rows its figures are given: each is a line of caption.      *)

Unfigured(lines) ==
    LET kept == {l \in 1..Len(lines) :
                    lines[l].kind = "image" => l = 1 \/ lines[l - 1].idx # lines[l].idx}
        order == Ascending(kept)
    IN [i \in 1..Len(order) |-> lines[order[i]]]
MatchesIn(w, c, q) ==
    LET lines == Unfigured(Laid[w][c])
        order == Ascending({l \in 1..Len(lines) : q \in ToSet(lines[l].text)})
    IN [i \in 1..Len(order) |-> <<c, order[i]>>]
MatchesOf(w, q) == FlattenSeq([c \in 1..Cardinality(Chapters) |-> MatchesIn(w, c, q)])
GotoMatch(to) ==
    /\ IF to[1] = chapter THEN UNCHANGED <<chapter, wrapped, hint, anchorSel>> ELSE Load(to[1])
    /\ scroll' = to[2]
Searching ==
    /\ Press({"search"}) /\ Moved(FALSE)
    /\ UNCHANGED <<laid, width, paged, select, pen, stored>>
RunSearch(q) ==
    /\ Searching
    /\ found' = MatchesOf(laid.width, q)
    /\ IF found' = <<>>
       THEN match' = 0 /\ UNCHANGED <<chapter, scroll, wrapped, hint, anchorSel>>
       ELSE match' = 1 /\ GotoMatch(found'[1])
SearchStep(forward) ==
    /\ Searching /\ found # <<>> /\ UNCHANGED found
    /\ match' = ((match - 1 + (IF forward THEN 1 ELSE Len(found) - 1)) % Len(found)) + 1
    /\ GotoMatch(found[match'])
(* Esc, once the link cursor is gone.                                      *)
ClearHighlight ==
    /\ Searching /\ found # <<>> /\ anchorSel = 0
    /\ found' = <<>> /\ match' = 0
    /\ UNCHANGED <<chapter, scroll, wrapped, hint, anchorSel>>

----------------------------------------------------------------------------
(* The pick-mode: badges on the figures or the code blocks in view, nine   *)
(* of them; nothing for none, the element itself for one.  A figure must   *)
(* be one of the chapter's that the viewer opens.                          *)

MaxBadges == 9
Shows(line, kind) == line.kind = kind /\ (kind = "image" => line.idx \in Opens[chapter])
InView(kind) ==
    LET seen == {l \in scroll..Lesser(scroll + Span - 1, Len(Lines)) : Shows(Lines[l], kind)}
        first == {l \in seen : \A k \in seen : Lines[k].idx = Lines[l].idx => l <= k}
        order == Ascending(first)
    IN [i \in 1..Lesser(Len(order), MaxBadges) |-> [kind |-> kind, idx |-> Lines[order[i]].idx]]
HintStart(kind) ==
    /\ Press({"badges"}) /\ hint = <<>> /\ select = NoSelect
    /\ hint' = IF Len(InView(kind)) > 1 THEN InView(kind) ELSE <<>>
    /\ Moved(FALSE)
    /\ UNCHANGED <<place, select, anchorSel, pen, search, stored>>
HintPick(n) ==
    /\ Press({"badges"}) /\ n \in 1..Len(hint)
    /\ hint' = <<>> /\ Moved(FALSE)
    /\ UNCHANGED <<place, select, anchorSel, pen, search, stored>>
HintCancel ==
    /\ Press({"badges"}) /\ hint # <<>> /\ hint' = <<>> /\ Moved(FALSE)
    /\ UNCHANGED <<place, select, anchorSel, pen, search, stored>>

MarksNext ==
    \/ \E c \in Chapters : ClickChapter(c)
    \/ \E l \in 1..Len(Lines) : WheelTo(l)
    \/ \E w \in Widths : Resize(w)
    \/ Draw
    \/ StartSelection \/ ToggleAnchor \/ LeaveSelection
    \/ \E way \in Ways : MoveCaret(way)
    \/ AddBookmark \/ HighlightLine \/ AddNote
    \/ \E i \in 1..Len(Colors) : HighlightSelection(Colors[i])
    \/ \E written \in BOOLEAN : CommitNote(written)
    \/ \E forward \in BOOLEAN : StepAnchor(forward)
    \/ ClearAnchor \/ ActivateAnchor
    \/ \E forward \in BOOLEAN : JumpElement(forward) \/ SearchStep(forward)
    \/ \E q \in Queries : RunSearch(q)
    \/ ClearHighlight
    \/ \E kind \in {"image", "code"} : HintStart(kind)
    \/ HintCancel \/ \E n \in 1..MaxBadges : HintPick(n)
MarksSpec == MarksInit /\ [][MarksNext]_marksVars

----------------------------------------------------------------------------
MarksTypeOK ==
    /\ {chapter, laid.sec} \subseteq Chapters /\ {width, laid.width} \subseteq Widths
    /\ scroll \in Nat \ {0} /\ anchorSel \in 0..Len(Hits)
    /\ pen \in ToSet(Colors) /\ Len(marks) <= MaxMarks

(* selection.rs: "a sub-line highlight re-washes the same characters at    *)
(* any width".  A highlight of a selection made on a page that was drawn   *)
(* is found again wherever its chapter is shown, whatever wrap it was      *)
(* taken from and wherever a word was broken: the cells it washes spell    *)
(* its quote.                                                              *)
Spelled(cells, lines) ==
    Chars(Squeezed(FlattenSeq([l \in 1..Len(lines) |->
        LET cols == {c[2] : c \in {x \in cells : x[1] = l}}
        IN IF cols = {} THEN <<>>
           ELSE LineText(lines, l, CHOOSE c \in cols : \A d \in cols : c <= d,
                         IF Broken(lines[l]) /\ Len(lines[l].text) - 1 \in cols
                         THEN Len(lines[l].text)
                         ELSE CHOOSE c \in cols : \A d \in cols : c >= d)])))
SpeltOut(m) ==
    (m.kind = "highlight" /\ m.drawn /\ m.section = chapter /\ wrapped) =>
        \E x \in wash : x.quote = m.quote /\ Spelled(x.cells, Lines) = x.quote
SelectionsSpell == \A i \in 1..Len(marks) : ~marks[i].line => SpeltOut(marks[i])
(* A bookmark or a note made on a drawn page is marked in the gutter       *)
(* whenever that chapter is shown at that width, on a line that reads as   *)
(* it does.                                                                *)
BookmarksFound ==
    \A i \in 1..Len(marks) :
        (/\ marks[i].kind = "bookmark" /\ marks[i].drawn /\ marks[i].quote # <<>>
         /\ marks[i].section = chapter /\ wrapped /\ laid.width = marks[i].at) =>
            \E l \in gutter : Holds(WholeLine(Lines, l), marks[i].quote)
(* Marks are found again where they were put.                              *)
MarksFoundAgain == SelectionsSpell /\ BookmarksFound

BadgesHere(kind) ==
    \A i \in 1..Len(hint) : hint[i].kind = kind =>
        \E l \in 1..Len(Laid[width][chapter]) :
            Laid[width][chapter][l].kind = kind /\ Laid[width][chapter][l].idx = hint[i].idx
PointersHere ==
    /\ anchorSel # 0 => wrapped /\ laid.sec = chapter /\ anchorSel <= Len(Hits)
    /\ BadgesHere("image")
(* Whatever chapter the keys, the mouse and the frames lead to: the link   *)
(* cursor is on a link of the chapter shown and the badges of figures are  *)
(* of its own; and a caret that was just moved is in view of the frame     *)
(* that follows.                                                           *)
PagePointers ==
    [][/\ PointersHere'
       /\ (Draw /\ moved /\ select # NoSelect) =>
            Caret[1] \in scroll'..(scroll' + Span - 1)]_marksVars

(* mod.rs current_line_text: "A whole-line H highlight stores this, so it  *)
(* re-washes the entire line via resolve_spans at any width".  Fails: the  *)
(* line's text keeps the hyphen the wrap put there, which the chapter's    *)
(* text does not have, so nothing is ever washed.                          *)
LinesSpell == \A i \in 1..Len(marks) : marks[i].line => SpeltOut(marks[i])

(* search.rs: what is searched "must mirror the display so a match's line  *)
(* index lands where it shows".  Fails: the rows of the figures above a    *)
(* match are missing from its line.                                        *)
MatchShown ==
    [][\A q \in Queries :
         (SearchStep(TRUE) /\ Drawn /\ chapter' = chapter /\ found = MatchesOf(width, q)) =>
            \E l \in scroll'..Lesser(scroll' + Span - 1, Len(Lines)) :
                q \in ToSet(Lines[l].text)]_marksVars

(* The badges of code blocks are of the chapter's own too.  Fails: between *)
(* a chapter change and its frame they are those of the chapter before.    *)
CodeBadgesHere == BadgesHere("code")

(* A mark is stored with words of its own chapter.  Fails: a key between a *)
(* chapter change and its frame takes the words of the chapter before.     *)
MarksOwnWords ==
    \A i \in 1..Len(marks) :
        marks[i].quote # <<>> =>
            \E w \in Widths : \E k \in 1..Len(FlatIndex(Laid[w][marks[i].section])) :
                Spells(FlatIndex(Laid[w][marks[i].section]), k, marks[i].quote)
=============================================================================
