------------------------------- MODULE Reflow -------------------------------
(***************************************************************************)
(* Wrapping a section to the column (delryn-render's layout, and           *)
(* Reader::ensure_wrapped which decides when): blocks of text, figures,    *)
(* listings, tables and notes become display lines, at the measure and     *)
(* with the typography of the moment.  The reader keeps the lines until    *)
(* the inputs they were made from change.                                  *)
(*                                                                         *)
(* A letter is a character; the few that behave differently are named.     *)
(* Styles, colours and anchors are left out: a word is one run.            *)
(***************************************************************************)
EXTENDS Integers, Sequences, FiniteSets, SequencesExt, FiniteSetsExt

CONSTANTS
    Documents,      \* sections, each a sequence of blocks
    Columns,        \* measures, in cells
    Toggles,        \* the settings that are changed
    MaxToggles,     \* a bound on how many differ from the start at once
    FigureRows,     \* per figure, its rows once it is sized
    MathCols,       \* per inline equation, its cells once it is sized ...
    MathRows,       \* ... and its rows
    MinHyphenate, MaxHyphenate, HyphenEdge, MaxStretch, FoldPreview, FoldThreshold,
    ParaSpacing, PanBy, FoldNote

VARIABLES
    blocks,         \* the section's blocks
    typo,           \* the measure and the settings that are on
    wrapKey,        \* what `lines` were wrapped under
    lines           \* the display lines

reflowVars == <<blocks, typo, wrapKey, lines>>

ASSUME ReflowAssumption ==
    /\ Columns \subseteq Nat \ {0} /\ MaxToggles \in Nat
    /\ {MinHyphenate, MaxHyphenate, HyphenEdge, MaxStretch, FoldPreview, FoldThreshold,
        ParaSpacing, PanBy, FoldNote} \subseteq Nat

Minus(m, n) == IF m > n THEN m - n ELSE 0
Most(m, n) == IF m > n THEN m ELSE n
Least(m, n) == IF m < n THEN m ELSE n

-----------------------------------------------------------------------------
(* Characters and cells.                                                   *)

Space == " "
SoftHyphen == "~"
Dash == "-"
Wide == "W"       \* a letter of two cells
Mark == "^"       \* a combining mark, of none
Digit == "7"
NumberLabel == "#"  \* stands for the whole text of an equation number, "Eq. 4"

IsAscii(c) == c \notin {Space, SoftHyphen, Dash, Wide, Mark, Digit, NumberLabel, ",", "."}
IsAlnum(c) == IsAscii(c) \/ c \in {Wide, Digit}

CharWidth(c) == CASE c = Wide -> 2 [] c \in {Mark, SoftHyphen} -> 0 [] c = NumberLabel -> 5 [] OTHER -> 1

TextGlyph(c) == [ch |-> c, w |-> CharWidth(c), rows |-> 1, math |-> 0]
MathGlyph(id) == [ch |-> Space, w |-> MathCols[id], rows |-> Most(MathRows[id], 1), math |-> id]

RECURSIVE CellsWidth(_)
CellsWidth(gs) == IF gs = <<>> THEN 0 ELSE Head(gs).w + CellsWidth(Tail(gs))

RECURSIVE SumOf(_)
SumOf(ns) == IF ns = <<>> THEN 0 ELSE Head(ns) + SumOf(Tail(ns))

RECURSIVE TextWidth(_)
TextWidth(s) == IF s = <<>> THEN 0 ELSE CharWidth(Head(s)) + TextWidth(Tail(s))

\* split_whitespace.
Runs(s) ==
    LET starts == {i \in 1 .. Len(s) : s[i] # Space /\ (i = 1 \/ s[i - 1] = Space)}
        ends(i) == CHOOSE j \in i .. Len(s) :
                       /\ \A k \in i .. j : s[k] # Space
                       /\ j = Len(s) \/ s[j + 1] = Space
        order == SetToSortSeq(starts, <)
    IN  [k \in 1 .. Len(order) |-> SubSeq(s, order[k], ends(order[k]))]

RECURSIVE Joined(_)
Joined(ws) ==
    IF Len(ws) <= 1 THEN FlattenSeq(ws) ELSE Head(ws) \o <<Space>> \o Joined(Tail(ws))

-----------------------------------------------------------------------------
(* Display lines: a kind, and runs of cells from left to right.            *)

Body == [k |-> "Body", i |-> 0]
Kind(k, i) == [k |-> k, i |-> i]
Run(role, w, glyphs) == [role |-> role, w |-> w, glyphs |-> glyphs]
Line(kind, runs) == [kind |-> kind, runs |-> runs]
BlankLine == Line(Body, <<>>)

\* The sequence itself, worked out once.
WorkedOut(s) == s \o <<>>

LineWidth(l) == SumOf([i \in 1 .. Len(l.runs) |-> l.runs[i].w])
Times(n, l) == [i \in 1 .. n |-> l]

-----------------------------------------------------------------------------
(* A paragraph: to words, to lines, to display lines.                      *)

\* tidy_spacing: " -distribution" after a short styled variable loses its space.
Trimmed(s) == Joined(Runs(s))
Tidied(spans) ==
    LET strip(i) ==
            LET token == Trimmed(spans[i - 1].text)
                text == spans[i].text
                from == CHOOSE k \in 1 .. Len(text) + 1 :
                            /\ \A j \in 1 .. k - 1 : text[j] = Space
                            /\ k = Len(text) + 1 \/ text[k] # Space
            IN  /\ spans[i - 1].styled /\ Len(token) \in 1 .. 3
                /\ \A j \in 1 .. Len(token) : token[j] # Space
                /\ from > 1 /\ from < Len(text)
                /\ text[from] = Dash /\ IsAlnum(text[from + 1])
    IN  [i \in 1 .. Len(spans) |->
            IF i > 1 /\ strip(i)
            THEN [spans[i] EXCEPT !.text = SelectSeq(@, LAMBDA c : c # Space)]
            ELSE spans[i]]

\* The glyphs of the spans; an equation that has its cells is one glyph.
GlyphsOf(spans, sized) ==
    FlattenSeq([i \in 1 .. Len(spans) |->
        IF spans[i].math # 0 /\ sized /\ MathCols[spans[i].math] > 0
        THEN <<MathGlyph(spans[i].math)>>
        ELSE [k \in 1 .. Len(spans[i].text) |-> TextGlyph(spans[i].text[k])]])

\* flatten_to_words: words of segments of glyphs.
NoEmpty(segs) == SelectSeq(segs, LAMBDA s : s # <<>>)
RECURSIVE WordsFrom(_, _, _, _)
WordsFrom(gs, words, segs, inWord) ==
    IF gs = <<>> THEN IF inWord THEN Append(words, NoEmpty(segs)) ELSE words
    ELSE LET g == Head(gs)
             rest == Tail(gs)
         IN  IF g.math = 0 /\ g.ch = Space
             THEN IF inWord THEN WordsFrom(rest, Append(words, NoEmpty(segs)), <<<<>>>>, FALSE)
                  ELSE WordsFrom(rest, words, segs, FALSE)
             ELSE IF g.math = 0 /\ g.ch = SoftHyphen
             THEN WordsFrom(rest, words,
                            IF inWord /\ Last(segs) # <<>> THEN Append(segs, <<>>) ELSE segs, inWord)
             ELSE WordsFrom(rest, words,
                            [segs EXCEPT ![Len(segs)] = Append(@, g)], TRUE)
FlattenToWords(spans, sized) == WordsFrom(GlyphsOf(spans, sized), <<>>, <<<<>>>>, FALSE)

\* hyphenate_word, with a break after every second letter for the patterns.
Syllables(core) == {k \in HyphenEdge .. core - HyphenEdge : k % 2 = 0}
HyphenateWord(word) ==
    LET seg == word[1]
        isCore(g) == IsAscii(g.ch) /\ g.math = 0
        core == Max({n \in 0 .. Len(seg) : \A k \in 1 .. n : isCore(seg[k])})
        at == SetToSortSeq(Syllables(core), <)
        cuts == <<0>> \o at \o <<Len(seg)>>
    IN  IF \/ Len(word) # 1
           \/ core \notin MinHyphenate .. MaxHyphenate
           \/ \E k \in core + 1 .. Len(seg) : IsAlnum(seg[k].ch) \/ seg[k].math # 0
           \/ at = <<>>
        THEN word
        ELSE [k \in 1 .. Len(at) + 1 |-> SubSeq(seg, cuts[k] + 1, cuts[k + 1])]

Avail(width, first, cont, line) == Most(Minus(width, IF line = 1 THEN first ELSE cont), 1)

Piece(cells, hyphen) == [cells |-> cells, hyphen |-> hyphen]

\* fill_lines: as many words as fit, a word broken at the last of its breaks
\* that leaves room for the hyphen.
RECURSIVE FillLines(_, _, _, _, _, _)
FillLines(queue, width, first, cont, done, cur) ==
    IF queue = <<>> THEN IF cur = <<>> THEN done ELSE Append(done, cur)
    ELSE
    LET word == Head(queue)
        room == Avail(width, first, cont, Len(done) + 1)
        used == SumOf([i \in 1 .. Len(cur) |-> CellsWidth(cur[i].cells)]) + Minus(Len(cur), 1)
        gap == IF cur = <<>> THEN 0 ELSE 1
        upTo(k) == CellsWidth(FlattenSeq(SubSeq(word, 1, k)))
        breaks == {k \in 1 .. Len(word) - 1 : used + gap + upTo(k) < room}
        whole == Piece(FlattenSeq(word), FALSE)
    IN  IF used + gap + CellsWidth(whole.cells) <= room
        THEN FillLines(Tail(queue), width, first, cont, done, Append(cur, whole))
        ELSE IF breaks # {}
        THEN LET k == Max(breaks)
             IN  FillLines(<<SubSeq(word, k + 1, Len(word))>> \o Tail(queue), width, first, cont,
                           Append(done, Append(cur, Piece(FlattenSeq(SubSeq(word, 1, k)), TRUE))),
                           <<>>)
        ELSE IF cur # <<>>
        THEN FillLines(queue, width, first, cont, Append(done, cur), <<>>)
        ELSE FillLines(Tail(queue), width, first, cont, Append(done, <<whole>>), <<>>)

(* break_paragraph.  Line i .. j holds the atoms after i up to j.          *)
LinePenalty == 10
HyphenPenalty == 50
DoubleHyphenDemerits == 3000
InfBadness == 10000
OverfullDemerits == 1000000

\* round(100 * (slack / gaps) ^ 3).
Badness(slack, gaps, lastLine) ==
    IF lastLine \/ slack = 0 THEN 0
    ELSE IF gaps = 0 THEN InfBadness
    ELSE Least(InfBadness, (200 * slack * slack * slack + gaps * gaps * gaps) \div (2 * gaps * gaps * gaps))

Demerits(b, hyphenated, afterHyphen) ==
    (LinePenalty + b) * (LinePenalty + b)
    + (IF hyphenated THEN HyphenPenalty * HyphenPenalty
                          + (IF afterHyphen THEN DoubleHyphenDemerits ELSE 0)
       ELSE 0)

\* A paragraph as atoms: their widths, and the join after each but the last.
BrokenAt(p, i) == i \in 1 .. Len(p.widths) - 1 /\ p.joins[i] = "hyphen"
GapsIn(p, i, j) == Cardinality({k \in i + 1 .. j - 1 : p.joins[k] = "space"})
Natural(p, i, j) ==
    SumOf(SubSeq(p.widths, i + 1, j)) + GapsIn(p, i, j) + (IF BrokenAt(p, j) THEN 1 ELSE 0)
RoomFrom(p, i) == IF i = 0 THEN p.firstAvail ELSE p.contAvail
BadnessOf(p, i, j) ==
    Badness(RoomFrom(p, i) - Natural(p, i, j), GapsIn(p, i, j), j = Len(p.widths))

Settable(p, i, j) ==
    \/ /\ \A k \in i + 1 .. j : Natural(p, i, k) <= RoomFrom(p, i)
       /\ BadnessOf(p, i, j) <= Badness(MaxStretch, 1, FALSE)
    \/ j = i + 1 /\ Natural(p, i, j) > RoomFrom(p, i)
LineCost(p, i, j) ==
    IF Natural(p, i, j) > RoomFrom(p, i) THEN OverfullDemerits
    ELSE Demerits(BadnessOf(p, i, j), BrokenAt(p, j), BrokenAt(p, i))

Unreached == -1
\* best and from: a later start replaces an earlier one only when it is cheaper.
Cheapest(p) ==
    LET n == Len(p.widths)
        best[j \in 0 .. n] ==
            IF j = 0 THEN [cost |-> 0, from |-> 0]
            ELSE LET starts == {i \in 0 .. j - 1 : best[i].cost # Unreached /\ Settable(p, i, j)}
                     total(i) == best[i].cost + LineCost(p, i, j)
                 IN  IF starts = {} THEN [cost |-> Unreached, from |-> 0]
                     ELSE LET least == Min({total(i) : i \in starts})
                          IN  [cost |-> least, from |-> Min({i \in starts : total(i) = least})]
    IN  best
RECURSIVE EndsFrom(_, _)
EndsFrom(best, at) == IF at = 0 THEN <<>> ELSE Append(EndsFrom(best, best[at].from), at)

NoBreaking == <<0>>
BreakParagraph(p) ==
    LET best == Cheapest(p)
        n == Len(p.widths)
    IN  IF best[n].cost = Unreached THEN NoBreaking ELSE EndsFrom(best, n)

\* optimal_lines: segments as atoms, and the chosen lines as pieces.
Atoms(words) == FlattenSeq(words)
JoinsOf(words) ==
    Front(FlattenSeq([w \in 1 .. Len(words) |->
        [s \in 1 .. Len(words[w]) |-> IF s < Len(words[w]) THEN "hyphen" ELSE "space"]]))
Paragraph(words, width, first, cont) ==
    LET atoms == Atoms(words)
    IN
    [widths |-> WorkedOut([k \in 1 .. Len(atoms) |-> CellsWidth(atoms[k])]),
     joins |-> JoinsOf(words),
     firstAvail |-> Avail(width, first, cont, 1), contAvail |-> Avail(width, first, cont, 2)]
RECURSIVE PiecesOf(_, _, _, _)
PiecesOf(atoms, joins, from, to) ==
    LET until == Min({k \in from .. to : k = to \/ joins[k] = "space"})
        cells == FlattenSeq(SubSeq(atoms, from, until))
    IN  IF until < to THEN <<Piece(cells, FALSE)>> \o PiecesOf(atoms, joins, until + 1, to)
        ELSE <<Piece(cells, to < Len(atoms) /\ joins[to] = "hyphen")>>
OptimalLines(words, ends) ==
    [l \in 1 .. Len(ends) |->
        PiecesOf(Atoms(words), JoinsOf(words), IF l = 1 THEN 1 ELSE ends[l - 1] + 1, ends[l])]

\* emit_lines: the slack over the gaps, and rows above and below a tall equation.
GapExtra(i, gaps, slack) == ((i + 1) * slack) \div gaps - (i * slack) \div gaps
EmitLine(line, li, last, width, first, cont, kind, justify) ==
    LET lead == IF li = 1 THEN first ELSE cont
        gaps == Len(line) - 1
        placed == SumOf([i \in 1 .. Len(line) |->
                            CellsWidth(line[i].cells) + (IF line[i].hyphen THEN 1 ELSE 0)])
        room == Minus(Avail(width, first, cont, li), placed + gaps)
        justified == justify /\ kind = Body /\ ~last /\ gaps >= 1 /\ room <= gaps * MaxStretch
        runsOf(i) ==
            (IF i = 1 THEN <<>>
             ELSE <<Run("gap", 1 + (IF justified THEN GapExtra(i - 2, gaps, room) ELSE 0), <<>>)>>)
            \o <<Run("word", CellsWidth(line[i].cells), line[i].cells)>>
            \o (IF line[i].hyphen THEN <<Run("hyphen", 1, <<>>)>> ELSE <<>>)
        tall == Max({1} \cup UNION {{line[i].cells[k].rows : k \in 1 .. Len(line[i].cells)} : i \in 1 .. Len(line)})
        spacer == Times((tall - 1) \div 2, Line(kind, <<>>))
    IN  spacer
        \o <<Line(kind, (IF lead = 0 THEN <<>> ELSE <<Run("prefix", lead, <<>>)>>)
                        \o FlattenSeq([i \in 1 .. Len(line) |-> runsOf(i)]))>>
        \o spacer

LinesOf(words, ends, width, first, cont, justify) ==
    CASE words = <<>> -> <<>>
      [] words # <<>> /\ justify /\ ends # NoBreaking -> OptimalLines(words, ends)
      [] OTHER -> FillLines(words, width, first, cont, <<>>, <<>>)
EmitLines(ls, width, first, cont, kind, justify) ==
    FlattenSeq([li \in 1 .. Len(ls) |->
        EmitLine(ls[li], li, li = Len(ls), width, first, cont, kind, justify)])
WrapWords(words, width, first, cont, kind, justify) ==
    EmitLines(LinesOf(words, BreakParagraph(Paragraph(words, width, first, cont)), width, first, cont, justify),
              width, first, cont, kind, justify)
Hyphenated(raw, hyphenate) ==
    IF hyphenate THEN WorkedOut([w \in 1 .. Len(raw) |-> HyphenateWord(raw[w])]) ELSE raw
WrapSpans(spans, width, first, cont, kind, justify, hyphenate, sized) ==
    WrapWords(Hyphenated(FlattenToWords(spans, sized), hyphenate), width, first, cont, kind, justify)

-----------------------------------------------------------------------------
(* Tables.                                                                 *)

\* pack_words, over the widths of the words: how many land on each line.
RECURSIVE PackWords(_, _)
PackWords(ws, width) ==
    IF ws = <<>> THEN <<>>
    ELSE LET n == Max({1} \cup {k \in 1 .. Len(ws) : SumOf(SubSeq(ws, 1, k)) + k - 1 <= Most(width, 1)})
         IN  <<n>> \o PackWords(SubSeq(ws, n + 1, Len(ws)), width)

\* truncate_to_width: the longest prefix that fits.
PrefixWithin(s, width) ==
    Max({n \in 0 .. Len(s) : \A k \in 0 .. n : TextWidth(SubSeq(s, 1, k)) <= width})

RECURSIVE HardBroken(_, _)
HardBroken(word, width) ==
    IF TextWidth(word) <= width THEN IF word = <<>> THEN <<>> ELSE <<word>>
    ELSE LET n == Most(PrefixWithin(word, width), 1)
         IN  <<SubSeq(word, 1, n)>> \o HardBroken(SubSeq(word, n + 1, Len(word)), width)

WrapText(s, width) ==
    LET words == FlattenSeq([k \in 1 .. Len(Runs(s)) |-> HardBroken(Runs(s)[k], width)])
        counts == PackWords([k \in 1 .. Len(words) |-> TextWidth(words[k])], width)
        before(l) == SumOf(SubSeq(counts, 1, l - 1))
    IN  IF width = 0 \/ words = <<>> THEN <<<<>>>>
        ELSE [l \in 1 .. Len(counts) |-> Joined(SubSeq(words, before(l) + 1, before(l) + counts[l]))]

\* fit_columns: what fits an equal share keeps its width, and the rest share on.
RECURSIVE Shared(_, _, _, _)
Shared(natural, out, remaining, pending) ==
    IF pending = {} THEN out
    ELSE LET share == Most(remaining \div Cardinality(pending), 1)
             fits == {i \in pending : natural[i] <= share}
         IN  IF fits = {} THEN [i \in DOMAIN out |-> IF i \in pending THEN share ELSE out[i]]
             ELSE Shared(natural, [i \in DOMAIN out |-> IF i \in fits THEN natural[i] ELSE out[i]],
                         Minus(remaining, MapThenSumSet(LAMBDA i : natural[i], fits)),
                         pending \ fits)
FitColumns(natural, budget) ==
    Shared(natural, [i \in 1 .. Len(natural) |-> 0], budget, 1 .. Len(natural))

CellText(cell) == Joined(Runs(cell))
Cell(row, i) == IF i <= Len(row) THEN CellText(row[i]) ELSE <<>>

\* fit: cut with an ellipsis, or padded; w cells either way.
Fit(s, w) ==
    Run("cell", w,
        IF TextWidth(s) <= w THEN s
        ELSE IF w <= 1 THEN <<>> ELSE SubSeq(s, 1, PrefixWithin(s, w - 1)))

RowLines(wrapped, colW, shaded) ==
    [l \in 1 .. Max({1} \cup {Len(wrapped[i]) : i \in 1 .. Len(colW)}) |->
        Line(Kind("Table", shaded),
             [i \in 1 .. 2 * Len(colW) - 1 |->
                IF i % 2 = 0 THEN Run("separator", 3, <<>>)
                ELSE LET c == (i + 1) \div 2
                     IN  Fit(IF l <= Len(wrapped[c]) THEN wrapped[c][l] ELSE <<>>, colW[c])])]
TableRow(cells, colW, wraps, shaded) ==
    RowLines([i \in 1 .. Len(colW) |->
                IF wraps THEN WrapText(Cell(cells, i), colW[i]) ELSE <<Cell(cells, i)>>],
             colW, shaded)

ColumnsOf(table) == Max({Len(table.header)} \cup {Len(table.rows[r]) : r \in 1 .. Len(table.rows)})
NaturalWidths(table) ==
    [i \in 1 .. ColumnsOf(table) |->
        Max({TextWidth(Cell(table.header, i))}
            \cup {TextWidth(Cell(table.rows[r], i)) : r \in 1 .. Len(table.rows)})]
TableBudget(table, width) == Most(Minus(width, 3 * (ColumnsOf(table) - 1)), ColumnsOf(table))
ColumnsWithin(natural, budget) == IF SumOf(natural) > budget THEN FitColumns(natural, budget) ELSE natural
ColumnWidths(table, width) == ColumnsWithin(NaturalWidths(table), TableBudget(table, width))
\* The header, if there is one, over a rule, and the rows, every other one shaded.
TableLines(table, colW, wraps) ==
    LET bare == table.header = <<>>
        rows == (IF bare THEN <<>> ELSE <<table.header>>) \o table.rows
        body(r) == IF bare THEN r ELSE r - 1
        rule == Line(Kind("Table", 0), <<Run("rule", SumOf(colW) + 3 * (Len(colW) - 1), <<>>)>>)
    IN  FlattenSeq([r \in 1 .. Len(rows) |->
            TableRow(rows[r], colW, wraps, IF body(r) > 0 /\ body(r) % 2 = 0 THEN 1 ELSE 0)
            \o (IF body(r) = 0 THEN <<rule>> ELSE <<>>)])
WrapTable(table, width, wraps) == TableLines(table, ColumnWidths(table, width), wraps)

-----------------------------------------------------------------------------
(* Listings.                                                               *)

Digits(n) == IF n < 10 THEN 1 ELSE IF n < 100 THEN 2 ELSE 3

Padded(runs, width) ==
    LET w == SumOf([i \in 1 .. Len(runs) |-> runs[i].w])
    IN  IF w < width THEN Append(runs, Run("pad", width - w, <<>>)) ELSE runs

\* pack_runs counts characters, not cells.
RECURSIVE PackRuns(_, _)
PackRuns(s, room) ==
    IF Len(s) <= room THEN <<s>>
    ELSE <<SubSeq(s, 1, room)>> \o PackRuns(SubSeq(s, room + 1, Len(s)), room)
CodeRun(s) == Run("code", TextWidth(s), s)

EmitCode(listing, idx, o) ==
    LET kind == Kind("Code", idx)
        total == Len(listing.lines)
        folded == /\ o.foldOver > 0 /\ total > o.foldOver
                  /\ (("fold" \in o.on) # ("flip" \in o.on /\ idx = 0))
        shown == IF folded THEN Least(Least(FoldPreview, o.foldOver), total) ELSE total
        gutter == IF "numbers" \in o.on THEN Digits(Most(total, 1)) ELSE 0
        lead == IF "numbers" \in o.on THEN gutter + 3 ELSE 0
        room == Most(Minus(o.width, lead), 1)
        panned(s) == SubSeq(s, o.pan + 1, Least(o.pan + room, Len(s)))
        rowsOf(s) ==
            IF "wrap" \in o.on
            THEN LET packed == PackRuns(s, room)
                 IN  [j \in 1 .. Len(packed) |->
                        Line(kind, Padded(<<Run(IF j = 1 THEN "number" ELSE "gutter", lead, <<>>),
                                            CodeRun(packed[j])>>, o.width))]
            ELSE <<Line(kind, Padded(<<Run("number", lead, <<>>), CodeRun(panned(s))>>, o.width))>>
    IN  (IF listing.tag = 0 THEN <<>>
         ELSE <<Line(kind, Padded(<<Run("pad", Minus(o.width, listing.tag), <<>>),
                                    Run("tag", listing.tag, <<>>)>>, o.width))>>)
        \o FlattenSeq([i \in 1 .. shown |-> rowsOf(listing.lines[i])])
        \o (IF folded THEN <<Line(kind, Padded(<<Run("marker", lead + FoldNote, <<>>)>>, o.width))>>
            ELSE <<>>)

-----------------------------------------------------------------------------
(* Figures and displayed equations, with the number of the equation if the *)
(* paragraph after it is one.                                              *)

NoNumber == 0
RightAligned(number, width) == Run("label", Most(width, number), <<>>)

CenteredIn(l, width) ==
    LET pad == Minus(width, LineWidth(l)) \div 2
    IN  IF pad = 0 THEN l ELSE [l EXCEPT !.runs = <<Run("prefix", pad, <<>>)>> \o @]

EmitImage(figure, idx, rows, number, width) ==
    LET picture == [r \in 1 .. rows |->
                      Line(Kind("Image", idx),
                           IF r = rows /\ number # NoNumber THEN <<RightAligned(number, width)>> ELSE <<>>)]
        placeholder == <<Line(Body, <<Run("alt", figure.alt, <<>>)>>)>>
                       \o (IF number = NoNumber THEN <<>>
                           ELSE <<Line(Body, <<RightAligned(number, width)>>)>>)
        unsized == [s \in 1 .. Len(figure.caption) |-> [figure.caption[s] EXCEPT !.math = 0]]
        caption == WrapSpans(unsized, width, 0, 0, Body, FALSE, FALSE, FALSE)
    IN  (IF rows > 0 THEN picture ELSE placeholder)
        \o (IF rows > 0 /\ figure.caption # <<>> THEN <<BlankLine>> ELSE <<>>)
        \o [l \in 1 .. Len(caption) |-> CenteredIn(caption[l], width)]

EmitMath(rows, number, width) ==
    LET kind == Kind("Math", 0)
        pad(w) == Minus(width, w) \div 2
        last == Len(rows)
        fits == number # NoNumber /\ rows # <<>> /\ pad(rows[last]) + rows[last] + 1 + number <= width
        row(i) == Line(kind, <<Run("prefix", pad(rows[i]), <<>>), Run("math", rows[i], <<>>)>>
                             \o (IF i = last /\ fits
                                 THEN <<Run("gap", Minus(width, pad(rows[i]) + rows[i] + number), <<>>),
                                        Run("label", number, <<>>)>>
                                 ELSE <<>>))
    IN  [i \in 1 .. last |-> row(i)]
        \o (IF number = NoNumber \/ fits THEN <<>> ELSE <<Line(kind, <<RightAligned(number, width)>>)>>)

-----------------------------------------------------------------------------
(* wrap_blocks.                                                            *)

NoLevel == -1
GapBelow(prev, nextIsHeading) == IF prev >= 2 /\ ~nextIsHeading THEN 0 ELSE ParaSpacing
ExtraRowAbove(level, prev) == IF level \in 0 .. 2 /\ prev = NoLevel THEN 1 ELSE 0

\* equation_number_para, of a block that may not be there.
NumberOf(bs, i) ==
    IF /\ i \in 1 .. Len(bs) /\ bs[i].t = "para" /\ bs[i].marker = 0
       /\ Trimmed(FlattenSeq([s \in 1 .. Len(bs[i].spans) |-> bs[i].spans[s].text])) = <<NumberLabel>>
    THEN CharWidth(NumberLabel) ELSE NoNumber
NumberFor(bs, i) ==
    IF bs[i].t = "math" \/ (bs[i].t = "image" /\ bs[i].math) THEN NumberOf(bs, i + 1) ELSE NoNumber

\* emit_para's prefixes: an indent, a quote bar, a marker over its hanging pad.
Tidy(spans, o) == IF "tidy" \in o.on THEN Tidied(spans) ELSE spans
EmitProse(block, lead, kind, justify, o) ==
    WrapSpans(Tidy(block.spans, o), o.width, lead, lead, kind, justify, "hyphenate" \in o.on,
              "sized" \in o.on)
LeadOf(block) == 2 * block.indent + (IF block.quote THEN 2 ELSE block.marker)
EmitPara(block, o) ==
    EmitProse(block, LeadOf(block),
              IF block.quote THEN Kind("Quote", 0) ELSE Body, "justify" \in o.on, o)

\* wrap_nested: narrower, plain, its pictures and listings not addressed.
Nested(o, border) ==
    [width |-> Most(Minus(o.width, border), 1), pan |-> 0, foldOver |-> 0, rows |-> <<>>,
     on |-> (o.on \cap {"numbers", "table", "tidy", "sized"}) \cup {"wrap"}]
Bordered(ls, border, kind) ==
    [l \in 1 .. Len(ls) |-> Line(kind, <<Run("prefix", border, <<>>)>> \o ls[l].runs)]

\* The last pass: blank lines after each line of text.
TextKinds == {"Body", "Heading", "Quote"}
Spread(ls, o) ==
    IF "spacing" \notin o.on THEN ls
    ELSE FlattenSeq([l \in 1 .. Len(ls) |->
            IF ls[l].runs # <<>> /\ ls[l].kind.k \in TextKinds THEN <<ls[l], BlankLine>> ELSE <<ls[l]>>])

StartOfBlocks == [out |-> <<>>, item |-> FALSE, heading |-> NoLevel, first |-> TRUE,
                  figures |-> 0, listings |-> 0, notes |-> 0, skip |-> FALSE]

RECURSIVE WrapBlocks(_, _)
Emit(bs, i, st, o) ==
    LET b == bs[i]
        nested(inner, border, kind) == Bordered(WrapBlocks(inner, Nested(o, border)), border, kind)
        note == Kind("Footnote", st.notes)
        body == nested(b.blocks, b.label, note)
    IN  CASE b.t = "blank" -> <<BlankLine>>
          [] b.t = "rule" -> <<Line(Kind("Rule", 0), <<Run("rule", o.width, <<>>)>>)>>
          [] b.t = "heading" -> EmitProse(b, 0, Kind("Heading", b.level), FALSE, o)
          [] b.t = "para" -> EmitPara(b, o)
          [] b.t = "image" -> EmitImage(b, st.figures,
                                        IF st.figures < Len(o.rows) THEN o.rows[st.figures + 1] ELSE 0,
                                        NumberFor(bs, i), o.width)
          [] b.t = "math" -> EmitMath(b.rows, NumberFor(bs, i), o.width)
          [] b.t = "code" -> EmitCode(b, st.listings, o)
          [] b.t = "table" -> WrapTable(b, o.width, "table" \in o.on)
          [] b.t = "callout" -> <<Line(Kind("Quote", 0), <<Run("prefix", 2, <<>>), Run("head", b.head, <<>>)>>)>>
                                \o nested(b.blocks, 2, Kind("Quote", 0))
          [] b.t = "footnote" ->
                 IF body = <<>> THEN <<Line(note, <<Run("label", b.label, <<>>)>>)>>
                 ELSE [body EXCEPT ![1].runs[1] = Run("label", b.label, <<>>)]

RECURSIVE EmitBlocks(_, _, _, _)
EmitBlocks(bs, i, st, o) ==
    IF i > Len(bs) THEN st.out
    ELSE IF st.skip THEN EmitBlocks(bs, i + 1, [st EXCEPT !.skip = FALSE], o)
    ELSE
    LET b == bs[i]
        item == b.t = "para" /\ b.marker # 0
        level == IF b.t = "heading" THEN b.level ELSE NoLevel
        air == IF st.first \/ b.t = "blank" \/ (item /\ st.item) THEN 0
               ELSE GapBelow(st.heading, level # NoLevel) + ExtraRowAbove(level, st.heading)
        seen(type) == IF b.t = type THEN 1 ELSE 0
    IN  EmitBlocks(bs, i + 1,
            [out |-> st.out \o Times(air, BlankLine) \o Emit(bs, i, st, o),
             item |-> item, heading |-> level, first |-> FALSE,
             figures |-> st.figures + seen("image"), listings |-> st.listings + seen("code"),
             notes |-> st.notes + seen("footnote"), skip |-> NumberFor(bs, i) # NoNumber], o)

WrapBlocks(bs, o) == Spread(EmitBlocks(bs, 1, StartOfBlocks, o), o)

-----------------------------------------------------------------------------
(* The reader: settings change, and the next frame wraps again if the key  *)
(* it keeps is not theirs.                                                 *)

Options(t) ==
    [width |-> t.width, on |-> t.on, foldOver |-> FoldThreshold,
     pan |-> IF "pan" \in t.on THEN PanBy ELSE 0,
     rows |-> IF "sized" \in t.on THEN FigureRows ELSE <<>>]
\* (mutant: the key does not have whether equations and pictures are sized)
KeyWithoutSizes(t) == [width |-> t.width, on |-> t.on \ {"sized", "numbers"}]
\* WrapKey: what is shown of the listings' numbers is not part of it.
KeyOf(t) == [width |-> t.width, on |-> t.on \ {"numbers"}]

ReflowInit ==
    /\ blocks \in Documents
    /\ typo = [width |-> Max(Columns), on |-> {"wrap", "numbers", "table", "tidy"}]
    /\ wrapKey = [width |-> 0, on |-> {}]
    /\ lines = <<>>

Changes == {"wrap", "numbers", "table", "tidy"}
ChangedFrom(on) == (on \ Changes) \cup (Changes \ on)
Change(t) ==
    /\ wrapKey = KeyOf(typo)
    /\ LET on == IF t \in typo.on THEN typo.on \ {t} ELSE typo.on \cup {t}
       IN  /\ Cardinality(ChangedFrom(on)) <= MaxToggles
           /\ typo' = [typo EXCEPT !.on = on]
    /\ UNCHANGED <<blocks, wrapKey, lines>>
Resize(w) ==
    /\ wrapKey = KeyOf(typo)
    /\ w # typo.width /\ typo' = [typo EXCEPT !.width = w]
    /\ UNCHANGED <<blocks, wrapKey, lines>>

\* ensure_wrapped.
EnsureWrapped ==
    /\ wrapKey # KeyOf(typo)
    /\ wrapKey' = KeyOf(typo) /\ lines' = WrapBlocks(blocks, Options(typo))
    /\ UNCHANGED <<blocks, typo>>

ReflowNext ==
    \/ \E t \in Toggles : Change(t)
    \/ \E w \in Columns : Resize(w)
    \/ EnsureWrapped
ReflowSpec == ReflowInit /\ [][ReflowNext]_reflowVars

-----------------------------------------------------------------------------
(* Properties.                                                             *)

\* What there is to read, in order: every glyph but spaces and soft hyphens, the
\* captions, and what stands in callouts and notes.  The number that went to
\* the line of its equation is not read twice.
RECURSIVE MeantBy(_, _)
MeantBy(bs, sized) ==
    LET letters(spans, s) ==
            SelectSeq(GlyphsOf(spans, s), LAMBDA g : g.math # 0 \/ g.ch \notin {Space, SoftHyphen})
        plain(spans) == [s \in 1 .. Len(spans) |-> [spans[s] EXCEPT !.math = 0]]
        of(i) == CASE i > 1 /\ NumberFor(bs, i - 1) # NoNumber -> <<>>
                   [] bs[i].t \in {"para", "heading"} -> letters(bs[i].spans, sized)
                   [] bs[i].t = "image" -> letters(plain(bs[i].caption), FALSE)
                   [] bs[i].t \in {"callout", "footnote"} -> MeantBy(bs[i].blocks, sized)
                   [] OTHER -> <<>>
    IN  FlattenSeq([i \in 1 .. Len(bs) |-> of(i)])

WithRole(ls, role) ==
    FlattenSeq([l \in 1 .. Len(ls) |-> SelectSeq(ls[l].runs, LAMBDA r : r.role = role)])
ShownBy(ls, role) ==
    LET rs == WithRole(ls, role) IN FlattenSeq([r \in 1 .. Len(rs) |-> rs[r].glyphs])
BlocksOf(type) == SelectSeq(blocks, LAMBDA b : b.t = type)
Numbers == SelectSeq([i \in 1 .. Len(blocks) |-> NumberFor(blocks, i)], LAMBDA n : n # NoNumber)

\* The words come out as they went in, whatever broke them over lines, and so
\* do the listings shown whole; each equation that has a number keeps one.
NothingLost ==
    LET listings == BlocksOf("code")
        short(c) == Len(c.lines) <= FoldThreshold
    IN  /\ ShownBy(lines, "word") = MeantBy(blocks, "sized" \in typo.on)
        /\ ("wrap" \in typo.on /\ \A c \in 1 .. Len(listings) : short(listings[c])) =>
               ShownBy(lines, "code") =
                   FlattenSeq([c \in 1 .. Len(listings) |-> FlattenSeq(listings[c].lines)])
        /\ BlocksOf("footnote") = <<>> => Len(WithRole(lines, "label")) = Len(Numbers)

\* The rows of a figure are together, and as many as were reserved for it.
FiguresReserved ==
    \A f \in 0 .. Len(Options(typo).rows) - 1 :
        LET at == {l \in 1 .. Len(lines) : lines[l].kind = Kind("Image", f)}
        IN  f < Len(BlocksOf("image")) =>
                /\ Cardinality(at) = Options(typo).rows[f + 1]
                /\ \A l, m \in at : \A k \in l .. m : k \in at

\* Nothing is wider than the column but a line of one word that is.
InTheColumn ==
    \A l \in 1 .. Len(lines) :
        LineWidth(lines[l]) > typo.width =>
            \/ Len(SelectSeq(lines[l].runs, LAMBDA r : r.role = "word")) = 1
            \/ Len(SelectSeq(lines[l].runs, LAMBDA r : r.role \in {"alt", "math", "head", "label", "tag", "marker"})) > 0
            \/ lines[l].kind.k \in {"Table", "Code"}

\* Each way of breaking p into lines the code would set, by the ends of the
\* lines but the last, and the cheapest by the definition of the demerits.
Breakings(p) ==
    LET n == Len(p.widths)
        starts(ends) == {0} \cup ends
        endOf(ends, i) == Min({j \in ends \cup {n} : j > i})
    IN  {ends \in SUBSET (1 .. n - 1) : \A i \in starts(ends) : Settable(p, i, endOf(ends, i))}
CostOf(p, ends) ==
    LET endOf(i) == Min({j \in ends \cup {Len(p.widths)} : j > i})
        cost(i) == IF Natural(p, i, endOf(i)) > RoomFrom(p, i) THEN OverfullDemerits
                   ELSE Demerits(BadnessOf(p, i, endOf(i)), BrokenAt(p, endOf(i)),
                                 i \in ends /\ BrokenAt(p, i))
    IN  MapThenSumSet(cost, {0} \cup ends)

\* The words of a paragraph as they are set.
WordsSet(b, o) ==
    Hyphenated(FlattenToWords(Tidy(b.spans, o), "sized" \in o.on), "hyphenate" \in o.on)
BrokenAtItsBest(p, ends) ==
    \A all \in {Breakings(p)} :
        IF ends = NoBreaking THEN all = {}
        ELSE all # {} /\ CostOf(p, Range(Front(ends))) = Min({CostOf(p, e) : e \in all})
LinesFilled(ls, o) ==
    \A l \in 1 .. Len(ls) - 1 :
        Len(SelectSeq(ls[l].runs, LAMBDA r : r.role = "gap")) > 0 => LineWidth(ls[l]) = o.width
\* A justified paragraph is broken at the least cost of all its breakings, and
\* then its lines but the last reach the edge; no breaking means none exists.
SetAtItsBest ==
    \A b \in Range(BlocksOf("para")), o \in {Options(typo)} :
        \A words \in {WordsSet(b, o)} :
            \A p \in {Paragraph(words, o.width, LeadOf(b), LeadOf(b))} :
                ("justify" \in o.on /\ words # <<>> /\ Len(p.widths) <= 9) =>
                    \A ends \in {BreakParagraph(p)}, ls \in {EmitPara(b, o)} :
                        /\ BrokenAtItsBest(p, ends)
                        /\ (ends # NoBreaking /\ ~b.quote /\ Len(ls) = Len(ends)) => LinesFilled(ls, o)

\* A table's columns share the measure so that none is cut while a wider one
\* has room to give, and every line of it is as wide as the others.
ColumnsShared ==
    \A table \in Range(BlocksOf("table")) :
        \A natural \in {NaturalWidths(table)}, colW \in {ColumnWidths(table, typo.width)},
           ls \in {WrapTable(table, typo.width, "table" \in typo.on)} :
            /\ \A i, j \in 1 .. Len(colW) :
                   colW[i] < natural[i] => colW[j] <= Most(colW[i], 1)
            /\ SumOf(colW) <= TableBudget(table, typo.width)
            /\ \A l, m \in 1 .. Len(ls) : LineWidth(ls[l]) = LineWidth(ls[m])

\* The lines on screen are those of the settings of the moment, but for the
\* numbers of the listings, which the key leaves out.
LinesFresh ==
    \E n \in SUBSET {"numbers"} :
        lines = WrapBlocks(blocks, Options([typo EXCEPT !.on = (@ \ {"numbers"}) \cup n]))

Wrapped == wrapKey = KeyOf(typo)
(* What wrapping keeps: the words in their order, the listings, the numbers *)
(* of the equations and the rows of the figures, at the settings that hold; *)
(* and how it sets them: inside the column, at the least cost when          *)
(* justified, and a table's columns sharing what there is.                  *)
KeptByWrapping ==
    Wrapped =>
        /\ NothingLost /\ FiguresReserved /\ LinesFresh
        /\ InTheColumn /\ SetAtItsBest /\ ColumnsShared
=============================================================================
