----------------------------- MODULE MCBookText -----------------------------
(***************************************************************************)
(* A book's text and what is read over it, checked in one run: `suite`     *)
(* names the component a behaviour is of, and the others stand still.      *)
(***************************************************************************)
EXTENDS MCSectionLoader, Reflow, Popups, FigureViewer, InlineDeck, Equations, HtmlBlocks
VARIABLE suite
textVars == <<suite, vars, reflowVars, popVars, figVars, inlineVars, eqVars, htmlVars>>

\* Sections to wrap.  A word of n letters, and text with what it is made of.
Word(n) == [k \in 1 .. n |-> "a"]
Text(ws) == Joined(ws)
Plain(text) == [text |-> text, styled |-> FALSE, math |-> 0]
Styled(text) == [text |-> text, styled |-> TRUE, math |-> 0]
Equation(id) == [text |-> <<"x", " ", "=">>, styled |-> FALSE, math |-> id]
Para(spans) == [t |-> "para", spans |-> spans, indent |-> 0, quote |-> FALSE, marker |-> 0]
Titled(level, text) == [t |-> "heading", level |-> level, spans |-> <<Plain(text)>>]
Figure(caption, math) == [t |-> "image", alt |-> 4, caption |-> caption, math |-> math]
Listing(ls) == [t |-> "code", tag |-> 3, lines |-> ls]
Numbered == Para(<<Plain(<<" ", "#">>)>>)

Prose == Text(<<Word(3), Word(2), Word(5), Word(1), Word(4), Word(6), Word(2), Word(3)>>)
\* At 8 cells the cheapest lines that may all end in a hyphen do.
Ladder == Text(<<Word(2), Word(4), Word(1), Word(4), Word(6)>>)
Halves == <<"a", "b", "~", "c", "d", "e", " ", "W", "W", " ", "a", "^", "-", " ", "a", "b", "a", "b", "a", ",">>
MCDocuments ==
    { <<Titled(1, Text(<<Word(2), Word(9)>>)), Para(<<Plain(Prose)>>), Para(<<Plain(Ladder)>>)>>,
      <<Para(<<Plain(Halves), Styled(<<"k">>), Plain(<<" ", "-", "b">>)>>),
        Para(<<Plain(<<"a", " ">>), Equation(1), Plain(<<" ", "a", "b", " ", "c">>), Equation(2)>>)>>,
      <<Figure(<<Plain(Text(<<Word(4), Word(5)>>))>>, FALSE), Titled(2, Word(3)), Titled(3, Word(4)),
        Figure(<<>>, TRUE), Numbered, Para(<<Plain(Word(2))>>)>>,
      <<[t |-> "math", rows |-> <<3, 4>>], Numbered, Numbered, [t |-> "blank"],
        [Para(<<Plain(Text(<<Word(4), Word(2)>>))>>) EXCEPT !.marker = 2],
        [Para(<<Plain(Text(<<Word(3), Word(3)>>))>>) EXCEPT !.marker = 2, !.indent = 1], [t |-> "rule"]>>,
      <<Listing(<<Word(3), Word(9), <<>>, <<"W", "W", "a">>, Word(2)>>), Listing(<<Word(2)>>)>>,
      <<[t |-> "table", header |-> <<Word(2), Word(9), Word(3)>>,
         rows |-> <<<<Text(<<Word(1), Word(2)>>), Text(<<Word(3), Word(4), Word(1)>>)>>,
                    <<Word(4), <<"W", "a">>, Word(1), <<>>>>>>],
        [Para(<<Plain(Prose)>>) EXCEPT !.quote = TRUE]>>,
      <<[t |-> "callout", head |-> 5, blocks |-> <<Para(<<Plain(Text(<<Word(3), Word(5)>>))>>)>>],
        [t |-> "footnote", label |-> 4, blocks |-> <<Para(<<Equation(2), Plain(Word(5))>>),
                                                     Figure(<<>>, FALSE)>>],
        [t |-> "footnote", label |-> 4, blocks |-> <<>>]>> }
MCFigureRows == <<2, 3>>
MCMathCols == <<3, 4>>
MCMathRows == <<1, 3>>

\* Two marks and two notes, three of them there.  Three chapters with figures of
\* every kind, the first and the last of them without a named one.
MCPopFolders == <<"f1">>
MCPopEntries == [id \in 1 .. 4 |-> IF id = 2 THEN "marks" ELSE "notes"]
MCFigBook == <<<<"bare", "math">>, <<"math", "named", "bare">>, <<"torn", "empty", "odd">>>>
MCFigCode == <<1, 2, 0>>

\* Two books, each laid out with a part folded and without it: a figure taller
\* than a column, and a sum inline, once or twice, that hangs over its line.
Shown(key, line, height) == [key |-> key, atom |-> FALSE, line |-> line, rows |-> height]
Inline(key, line, height) == [key |-> key, atom |-> TRUE, line |-> line, rows |-> height]
MCInlFlow ==
    [b1 |-> [open |-> <<Shown("fig", 0, 3), Inline("sum", 4, 3), Inline("sum", 7, 3)>>,
             shut |-> <<Inline("sum", 1, 3)>>],
     b2 |-> [open |-> <<Shown("fig", 0, 2), Inline("sum", 2, 1)>>,
             shut |-> <<Shown("fig", 1, 2), Inline("sum", 3, 1)>>]]

\* Formulas: each kind of node over what matters to it, in the numbers the schema
\* gives it; a glyph's ink is its place.  They stand alone, beside a sum to break,
\* or are carried by elements and pictures in every way there is.
El(tag, kids) == [tag |-> tag, is |-> "none", ink |-> 0, kids |-> kids]
Tok(tag, is) == [tag |-> tag, is |-> is, ink |-> 0, kids |-> <<>>]
RECURSIVE Inked(_, _)
Inked(n, at) ==
    [n EXCEPT !.ink = at, !.kids = [i \in DOMAIN n.kids |-> Inked(n.kids[i], Append(at, i))]]
EqX == Tok("mi", "sign")
EqIs == Tok("mo", "rel")
EqPlus == Tok("mo", "bin")
EqHat == Tok("mo", "hat")
EqHalf == El("mfrac", <<EqX, EqX>>)
EqSum == El("mrow", <<EqX, EqIs, EqX>>)
EqMarks ==
    {Tok("mo", is) : is \in {"ghost", "hat", "dot", "cap", "cup", "rule"}}
    \cup {EqX, EqSum, El("mrow", <<EqHat>>), El("mrow", <<>>)}
EqParts == {EqX, EqIs, EqPlus, Tok("mo", "fence"), EqHalf, Tok("text", "sign"), Tok("annotation", "other")}
EqRows == UNION {[1 .. n -> EqParts] : n \in 0 .. 3}
\* Loose text stands in no row that is read as a fence around something.
Loose(n) == \E i \in DOMAIN n.kids : n.kids[i].tag = "text"
EqFormulas ==
    {El(t, <<a, b>>) : t \in {"mfrac", "msup", "msub", "munder", "mover", "mroot"}, a \in {EqX, EqSum}, b \in EqMarks}
    \cup {El(t, <<a>>) : t \in {"mfrac", "msup", "munder", "mroot", "munderover"}, a \in EqMarks}
    \cup {El(t, k) : t \in {"msubsup", "munderover"}, k \in [1 .. 3 -> {EqX, EqHalf, EqHat, Tok("mo", "rule")}]}
    \cup {f \in {El(t, r) : t \in {"mrow", "msqrt", "mphantom", "menclose", "mfenced"}, r \in EqRows} :
            ~(Loose(f) /\ (f.tag = "mfenced" \/ (f.tag = "mrow" /\ Fenced(f))))}
    \cup {El("mtable", <<El("mtr", r), El("mtr", q)>>) :
            r, q \in {<<>>, <<El("mtd", <<EqX>>)>>, <<El("mtd", <<EqHalf, EqX>>), El("mtd", <<>>)>>}}
    \cup {El("mtable", r) : r \in {q \in EqRows : Len(q) < 3}}
    \cup {El("semantics", <<a, Tok("annotation", b)>>) : a \in {EqX, EqSum, EqHalf}, b \in {"tex", "other"}}
EqWide ==
    LET sides == {EqX, EqHalf, El("mrow", <<EqX, EqPlus, EqX>>), El("mover", <<EqX, EqHat>>)}
    IN  {<<EqX, EqIs, a, EqPlus, b, EqIs, EqX>> : a, b \in sides}
Presentation(f) == [kind |-> "presentation", math |-> Inked(El("math", f), <<>>)]
EqBare(tag) ==
    [tag |-> tag, alttext |-> Nothing, alt |-> Nothing, payload |-> Nothing, inside |-> Nothing,
     described |-> Nothing, beside |-> Nothing, comment |-> Nothing, picture |-> "none", classed |-> FALSE]
EqNative(f) == [EqBare("math") EXCEPT !.inside = Presentation(f)]
TexOf(parses, reads) == [kind |-> "tex", parses |-> parses, reads |-> reads, ink |-> <<0>>, is |-> "tex"]
EqSome == Presentation(<<EqHalf, EqIs, EqX>>)
EqSources == {Nothing, EqSome, [Presentation(<<El("mphantom", <<EqX>>)>>) EXCEPT !.kind = "content"]}
EqPictures == {"none", "found", "lost"}
MCEqSites ==
    {EqNative(<<f>>) : f \in EqFormulas} \cup {EqNative(f) : f \in EqWide}
    \cup {[EqNative(<<EqHalf, EqIs, EqX>>) EXCEPT !.alttext = t, !.picture = p] :
            t \in {Nothing, TexOf(TRUE, FALSE), TexOf(FALSE, FALSE), TexOf(FALSE, TRUE)}, p \in EqPictures}
    \cup {[EqBare("frame") EXCEPT !.payload = a, !.inside = b, !.picture = p] : a, b \in EqSources, p \in EqPictures}
    \cup {[EqBare("img") EXCEPT !.alt = a, !.described = b, !.beside = c, !.comment = d, !.picture = p, !.classed = q] :
            a \in EqSources \cup {TexOf(TRUE, TRUE), TexOf(FALSE, TRUE), TexOf(FALSE, FALSE),
                                  [kind |-> "plain", ink |-> <<9>>, is |-> "sign"]},
            b, c, d \in {Nothing, EqSome}, p \in EqPictures, q \in BOOLEAN}

\* Sections: what a paragraph and a box may be filled with, two by two, what may
\* stand in a list, a figure or a table, and what lies deeper than the walks go.
Hl(tag, is, kids) == [El(tag, kids) EXCEPT !.is = is]
HlText(is) == Hl("text", is, <<>>)
HlWord == HlText("word")
HlPic == Hl("img", "picture", <<>>)
HlOf(tag, kids) == Hl(tag, "none", kids)
HlBits ==
    {HlText(is) : is \in {"word", "blank", "label", "figure", "note", "first"}}
    \cup {Hl("img", is, <<>>) : is \in {"picture", "icon", "math", "tex"}}
    \cup {Hl("math", is, <<>>) : is \in {"plain", "block"}}
    \cup {Hl("span", is, <<HlWord>>) : is \in {"chrome", "displayed", "lineclass"}}
    \cup {HlOf("code", <<HlWord, HlOf("br", <<>>), HlWord>>), HlOf("a", <<>>), HlOf("a", <<HlPic>>)}
HlRuns == {<<>>} \cup {<<a>> : a \in HlBits} \cup {<<a, b>> : a, b \in HlBits}
HlBoxes ==
    {Hl("p", is, r) : is \in {"none", "caption", "footnote", "equation"}, r \in HlRuns}
    \cup {Hl("div", is, r) : is \in {"none", "callout", "caption", "code", "equation"}, r \in HlRuns}
    \cup {HlOf(t, r) : t \in {"h2", "li", "blockquote"}, r \in HlRuns}
HlFew ==
    {HlOf(t, <<HlWord>>) : t \in {"p", "h2", "figcaption", "li", "dt", "dd"}}
    \cup {HlOf("p", <<b>>) : b \in {HlPic, HlText("figure"), HlText("first")}}
    \cup {Hl("p", "caption", <<HlWord>>), HlOf("p", <<HlText("note"), HlWord>>), HlOf("p", <<HlWord, HlPic>>),
          HlOf("ul", <<HlOf("li", <<HlWord>>)>>), HlOf("li", <<HlText("first"), HlWord>>),
          HlOf("dd", <<HlPic>>), HlOf("dd", <<>>), Hl("span", "line", <<HlWord>>),
          HlOf("svg", <<Hl("image", "picture", <<>>)>>), Hl("math", "plain", <<>>), HlWord, HlText("label"), HlPic}
HlPairs == {<<a>> : a \in HlFew} \cup {<<a, b>> : a, b \in HlFew}
HlWraps ==
    {HlOf(t, r) : t \in {"div", "ol", "ul", "dl", "figure", "li"}, r \in HlPairs}
    \cup {Hl("div", is, r) : is \in {"callout", "caption", "footnote"}, r \in HlPairs}
    \cup {HlOf(t, <<b>>) : t \in {"nav", "pre", "blockquote"}, b \in HlFew}
HlTable(is, kids) == Hl("table", is, <<HlOf("tr", <<HlOf("td", kids), HlOf("th", <<HlPic>>)>>)>>)
HlTables ==
    {HlTable(is, <<b>>) : is \in {"none", "aside"}, b \in HlFew}
    \cup {HlTable("none", <<a, HlTable("none", <<b>>)>>) : a, b \in {HlWord, HlPic}}
    \cup {HlOf("table", <<HlOf("caption", <<HlWord>>), HlOf("tr", <<HlOf("td", <<HlWord>>)>>)>>)}
\* Deeper than the walks go.
HlDeep(b) == HlOf("div", <<HlOf("div", <<HlOf("blockquote", <<HlOf("div", <<b>>), HlWord>>)>>)>>)
HlDeepLine(b) == HlOf("p", <<HlOf("span", <<HlOf("span", <<HlOf("span", <<b, HlWord>>)>>)>>)>>)
HlBodies ==
    {<<b>> : b \in HlBoxes \cup HlWraps \cup HlTables} \cup HlPairs
    \cup {<<HlDeep(b)>> : b \in HlFew} \cup {<<HlDeepLine(b)>> : b \in HlBits}
MCHtmlPages == {Inked(HlOf("body", b), <<>>) : b \in HlBodies}
HtmlRests == htmlPage = HlOf("body", <<>>) /\ htmlBlocks = Unparsed

\* A reader with nothing to wrap.
BookRests ==
    /\ blocks = <<>> /\ lines = <<>>
    /\ typo = [width |-> 1, on |-> {}] /\ wrapKey = KeyOf(typo)
\* A deck that no frame has been asked of.
InlineRests == inl.moves /\ screen.freezes /\ sight.laid = "open" /\ sight.top = 0
\* A page without mathematics.
EqRests == eqSite = Nothing /\ eqItem = Nothing /\ eqShown = Nothing
TextInit ==
    /\ Init /\ PopInit /\ FigInit /\ InlineInit
    /\ suite = "figures" \/ page.section = 1
    /\ \/ suite \in {"stack", "keys", "figures"} /\ BookRests /\ InlineRests /\ EqRests /\ HtmlRests
       \/ suite = "inline" /\ BookRests /\ EqRests /\ HtmlRests
       \/ suite = "wrap" /\ ReflowInit /\ InlineRests /\ EqRests /\ HtmlRests
       \/ suite = "equations" /\ EqInit /\ BookRests /\ InlineRests /\ HtmlRests
       \/ suite = "html" /\ HtmlInit /\ BookRests /\ InlineRests /\ EqRests
TextNext ==
    \/ suite = "stack" /\ Next /\ UNCHANGED <<suite, reflowVars, popVars, figVars, inlineVars, eqVars, htmlVars>>
    \/ suite = "wrap" /\ ReflowNext /\ UNCHANGED <<suite, vars, popVars, figVars, inlineVars, eqVars, htmlVars>>
    \/ suite = "keys" /\ PopNext /\ UNCHANGED <<suite, vars, reflowVars, figVars, inlineVars, eqVars, htmlVars>>
    \/ suite = "figures" /\ FigNext /\ UNCHANGED <<suite, vars, reflowVars, popVars, inlineVars, eqVars, htmlVars>>
    \/ suite = "inline" /\ InlineNext /\ UNCHANGED <<suite, vars, reflowVars, popVars, figVars, eqVars, htmlVars>>
    \/ suite = "equations" /\ EqNext /\ UNCHANGED <<suite, vars, reflowVars, popVars, figVars, inlineVars, htmlVars>>
    \/ suite = "html" /\ HtmlNext /\ UNCHANGED <<suite, vars, reflowVars, popVars, figVars, inlineVars, eqVars>>
StackStep(A) == suite = "stack" /\ A /\ UNCHANGED <<suite, reflowVars, popVars, figVars, inlineVars, eqVars, htmlVars>>
TextSpec ==
    /\ TextInit /\ [][TextNext]_textVars
    /\ WF_textVars(StackStep(Loader)) /\ WF_textVars(StackStep(Poll)) /\ WF_textVars(StackStep(DrawStack))
=============================================================================
