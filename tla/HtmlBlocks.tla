----------------------------- MODULE HtmlBlocks -----------------------------
(***************************************************************************)
(* How a section's XHTML becomes the blocks a reader sees (delryn-format,  *)
(* src/html): the walk that gathers loose text into paragraphs, the one    *)
(* classifier and an extractor for each role, and the two passes that      *)
(* join captions and stranded labels to what they belong to.               *)
(*                                                                         *)
(* A node has a tag, what it `is`, its kids, and its path from the body as  *)
(* its `ink`.  An element `is` what its class says; a text is a word,  *)
(* blank, a bare "label", a list's "first" or "second" number, the words   *)
(* "figure" 1 or the keyword "note"; a picture `is` that, an "icon", "math" *)
(* or "tex" with a display delimiter; a formula says if it is a "block" or *)
(* "inline", has such a "tex", or is "plain".  Styles, links, indents,     *)
(* languages of listings and their own line numbers are left out.          *)
(***************************************************************************)
EXTENDS Naturals, Sequences, FiniteSets, SequencesExt

CONSTANTS
    HtmlPages,              \* the bodies of sections
    MaxBlockDepth,      \* where the walks of blocks and of lines
    MaxInlineDepth      \* give up and take the text below as it is

VARIABLES
    htmlPage,               \* the body
    htmlBlocks          \* its blocks, once parsed
htmlVars == <<htmlPage, htmlBlocks>>
Unparsed == <<[t |-> "unparsed"]>>

-----------------------------------------------------------------------------
(* The document. *)
At(path) == FoldLeft(LAMBDA p, i : p.kids[i], htmlPage, path)
Parent(p) == At(Front(p.ink))
\* A node and all below it, in document order.
RECURSIVE Below(_)
Below(p) == <<p>> \o FlattenSeq([i \in DOMAIN p.kids |-> Below(p.kids[i])])
Among(ps, Good(_)) == SelectSeq(ps, Good)
Some(ps, Good(_)) == \E i \in DOMAIN ps : Good(ps[i])

IsElement(p) == p.tag # "text"
IsWord(p) == p.tag = "text" /\ p.is # "blank"
IsImg(p) == p.tag \in {"img", "image"}
IsRealImage(p) == IsImg(p) /\ p.is = "picture"
IsMathNode(p) == p.tag = "math" \/ (IsImg(p) /\ p.is \in {"math", "tex"})
IsChrome(p) == IsElement(p) /\ p.is = "chrome"
Headings == {"h1", "h2"}
BlockTags ==
    {"p", "div", "section", "aside", "nav", "figure", "figcaption", "ul", "ol", "li", "dl",
     "blockquote", "pre", "hr", "table", "tr", "td", "th", "svg"} \cup Headings

-----------------------------------------------------------------------------
(* Whether a formula stands alone. *)
\* What the nearest class says, of the node or of what wraps it and it alone.
RECURSIVE ClassSignal(_, _)
ClassSignal(p, steps) ==
    CASE p.is = "equation" /\ p.tag # "text" -> "display"
      [] p.is = "lineclass" -> "inline"
      [] p.ink = <<>> \/ steps = 1 -> "none"
      [] Len(Among(Parent(p).kids, IsElement)) # 1 -> "none"
      [] OTHER -> ClassSignal(Parent(p), steps - 1)
MathClassSignal(p) == ClassSignal(p, 5)
HasContent(p) == Some(Below(p), LAMBDA d : IsWord(d) \/ d.tag \in {"img", "image", "svg", "math"})
\* The sole content of a block, but for empty markers.
StandsAlone(p) ==
    /\ p.ink # <<>> /\ Parent(p).tag \in {"p", "div", "section", "li", "td", "th", "blockquote", "figure"}
    /\ ~Some(Parent(p).kids, LAMBDA k : k # p /\ k.tag # "br" /\ HasContent(k))
MathIsDisplay(p) ==
    CASE p.is = "block" -> TRUE
      [] p.is = "inline" -> FALSE
      [] MathClassSignal(p) # "none" -> MathClassSignal(p) = "display"
      [] p.is = "tex" -> TRUE
      [] OTHER -> StandsAlone(p)
\* The one equation an element holds, if it is one to be shown by itself.
StandaloneMath(p) ==
    LET math == Among(Below(p), IsMathNode)
    IN  IF /\ Len(math) = 1 /\ MathIsDisplay(math[1])
           /\ Some(Below(p), IsWord) => MathClassSignal(math[1]) # "none"
        THEN math ELSE <<>>
\* The one picture of an equation's wrapper that does not say it is mathematics.
EquationImage(p) ==
    LET images == Among(Below(p), LAMBDA d : IsImg(d) /\ d.is # "icon")
    IN  IF MathClassSignal(p) = "display" /\ Len(images) = 1 THEN images ELSE <<>>
FirstOf(found, other) == IF found # <<>> THEN found ELSE other
EquationOf(p) == IF IsMathNode(p) THEN <<p>> ELSE FirstOf(StandaloneMath(p), EquationImage(p))

-----------------------------------------------------------------------------
(* The classifier: what an element is, the most telling sign first. *)
IsCaption(p) == IsElement(p) /\ p.is = "caption"
RealImages(p) == Among(Below(p), IsRealImage)
IsFigureContainer(p) ==
    /\ Some(p.kids, LAMBDA k : k.tag = "figcaption" \/ IsCaption(k))
    /\ Len(RealImages(p)) = 1
HasMultilineCode(p) ==
    Some(p.kids, LAMBDA k : k.tag = "code" /\ Some(Below(k), LAMBDA d : d.tag = "br"))
IsCodeBlock(p) ==
    \/ p.tag = "pre" \/ HasMultilineCode(p)
    \/ p.tag \in {"p", "div", "section"} /\ p.is = "code"
IsToc(p) == p.tag = "nav" \/ (IsElement(p) /\ p.is = "toc")
\* The elements that a node stands in.
Around(p) == {At(SubSeq(p.ink, 1, k)) : k \in 0 .. Len(p.ink) - 1}
InToc(p) == \E a \in Around(p) : IsToc(a)
Classify(p) ==
    LET tag == p.tag
        boxed == tag \in {"div", "section"}
    IN  CASE p.is = "callout" /\ (boxed \/ tag \in {"aside", "blockquote"}) -> "callout"
          [] p.is = "footnote" /\ (boxed \/ tag \in {"aside", "p", "li"}) -> "footnote"
          [] EquationOf(p) # <<>> -> "math"
          [] IsCodeBlock(p) -> "code"
          [] tag \in Headings -> "heading"
          [] tag = "figure" \/ (boxed /\ IsFigureContainer(p)) -> "figure"
          [] IsCaption(p) /\ (boxed \/ tag = "p") -> "caption"
          [] tag \in {"p", "td", "th"} -> "paragraph"
          [] tag \in {"ul", "ol"} -> "list"
          [] tag = "blockquote" -> "quote"
          [] tag = "dl" -> "deflist"
          [] tag = "hr" -> "rule"
          [] IsImg(p) -> "image"
          [] tag = "table" /\ p.is = "aside" /\ Some(Below(p), LAMBDA d : d.tag = "img") -> "iconed"
          [] tag = "table" -> "table"
          [] OTHER -> "container"
\* Whether the walk lays an element out by itself.
IsBlock(p) ==
    /\ IsElement(p)
    /\ CASE p.is = "displayed" -> TRUE
         [] IsMathNode(p) -> MathIsDisplay(p)
         [] IsImg(p) -> IsRealImage(p)
         [] OTHER -> p.tag \in BlockTags

-----------------------------------------------------------------------------
(* Runs of text.  A span is the node it shows; `Gap` is a space put between. *)
Span(p) == [at |-> p.ink, is |-> IF p.tag = "text" THEN p.is ELSE "picture"]
Gap == [at |-> <<>>, is |-> "blank"]
IsSpace(span) == span.is = "blank"
AllBlank(spans) == \A i \in DOMAIN spans : IsSpace(spans[i])
RECURSIVE TrimStart(_)
TrimStart(spans) == IF spans # <<>> /\ IsSpace(Head(spans)) THEN TrimStart(Tail(spans)) ELSE spans
Leads(spans, is) == TrimStart(spans) # <<>> /\ Head(TrimStart(spans)).is = is
\* Without its first word, and the spaces about that.
StripLead(spans) == TrimStart(Tail(TrimStart(spans)))
TextOf(p) ==
    LET said == Among(Below(p), LAMBDA d : d.tag \in {"text", "math"})
    IN  [i \in DOMAIN said |-> Span(said[i])]

RECURSIVE CollectInline(_, _)
CollectInline(p, depth) ==
    CASE depth >= MaxInlineDepth -> TextOf(p)
      [] p.tag = "text" -> <<Span(p)>>
      [] IsChrome(p) -> <<>>
      [] p.tag = "br" -> <<Gap>>
      [] p.tag \in {"img", "math"} -> <<Span(p)>>
      [] OTHER -> FlattenSeq([i \in DOMAIN p.kids |-> CollectInline(p.kids[i], depth + 1)])
InlineSpans(p) == FlattenSeq([i \in DOMAIN p.kids |-> CollectInline(p.kids[i], 0)])

-----------------------------------------------------------------------------
(* The walk.  A context says whether it is in a quotation, in a list that is
   packed tight, and how deep.                                              *)
Block(t, spans) ==
    [t |-> t, spans |-> spans, caption |-> <<>>, blocks |-> <<>>, marker |-> "none", quote |-> FALSE]
HtmlPara(spans, ctx) ==
    [Block("para", spans) EXCEPT !.quote = ctx.quote, !.marker = IF ctx.tight THEN "tight" ELSE "none"]
Holding(t, blocks) == [Block(t, <<>>) EXCEPT !.blocks = blocks]
HtmlPicture(p, caption) == [Block("image", <<Span(p)>>) EXCEPT !.caption = caption]
Flush(run, ctx) == IF AllBlank(run) THEN <<>> ELSE <<HtmlPara(run, ctx)>>
Unless(empty, block) == IF empty THEN <<>> ELSE <<block>>
FirstPara(blocks) == SelectInSeq(blocks, LAMBDA b : b.t = "para")
FirstText(blocks) == SelectInSeq(blocks, LAMBDA b : b.t = "para" /\ ~AllBlank(b.spans))

\* The paragraphs and headings of a caption as one line.
Coalesce(blocks) ==
    FoldLeft(LAMBDA line, b :
        CASE b.t \notin {"para", "heading"} \/ AllBlank(b.spans) -> line
          [] line = <<>> \/ IsSpace(Last(line)) \/ IsSpace(b.spans[1]) -> line \o b.spans
          [] OTHER -> line \o <<Gap>> \o b.spans, <<>>, blocks)
Caption(inner, ctx) ==
    IF Some(inner, LAMBDA b : b.t \notin {"para", "heading"}) THEN inner
    ELSE Flush(Coalesce(inner), [ctx EXCEPT !.tight = FALSE])
\* What the caption of a figure is in: what is marked as one, else its first
\* heading or paragraph that is not empty.
CaptionsOf(p) ==
    FirstOf(Among(Below(p), LAMBDA d : d.tag = "figcaption"),
    FirstOf(Among(Below(p), IsCaption),
           Among(Below(p), LAMBDA d : d.tag \in Headings \cup {"p"} /\ ~AllBlank(InlineSpans(d)))))
FigureCaption(captions, walked) ==
    LET line == Coalesce(walked[1])
    IN  CASE captions = <<>> -> <<>>
          [] captions # <<>> /\ ~AllBlank(line) -> line
          [] OTHER -> InlineSpans(captions[1])

\* The picture of a paragraph that is nothing else.
SoleFigure(p) ==
    LET images == Among(Below(p), IsImg)
    IN  IF /\ Len(images) = 1 /\ IsRealImage(images[1])
           /\ ~Some(Below(p), LAMBDA d : IsWord(d) \/ d.tag = "math")
        THEN images ELSE <<>>
HtmlParagraph(p, ctx) ==
    LET spans == InlineSpans(p)
    IN  CASE SoleFigure(p) # <<>> -> <<HtmlPicture(SoleFigure(p)[1], <<>>)>>
          [] SoleFigure(p) = <<>> /\ Leads(spans, "note") /\ ~ctx.quote /\ ~ctx.tight ->
                <<Holding("callout", <<Block("para", StripLead(spans))>>)>>
          [] OTHER -> Flush(spans, ctx)
Heading(p, ctx) ==
    LET spans == InlineSpans(p)
        entry == p.tag # "h1" /\ InToc(p)
    IN  Unless(AllBlank(spans), IF entry THEN HtmlPara(spans, [ctx EXCEPT !.tight = TRUE])
                                ELSE Block("heading", spans))

\* The item's own number, restated in it, is dropped: with its block, if that is all.
Ordinals == <<"first", "second">>
StripOrdinal(blocks, n) ==
    LET k == FirstText(blocks)
    IN  IF k = 0 \/ ~Leads(blocks[k].spans, Ordinals[n]) THEN blocks
        ELSE LET rest == StripLead(blocks[k].spans)
             IN  IF rest = <<>> THEN RemoveAt(blocks, k) ELSE [blocks EXCEPT ![k].spans = rest]
ListItem(walked, ordered, n) ==
    LET item == IF ordered THEN StripOrdinal(walked, n) ELSE walked
        k == FirstPara(item)
    IN  IF k = 0 THEN item ELSE [item EXCEPT ![k].marker = "item"]

\* A term goes before the first paragraph of its description.
DefEntry(term, blocks, ctx) ==
    LET k == FirstPara(blocks)
    IN  CASE k = 0 -> <<HtmlPara(term, ctx)>> \o blocks
          [] k # 0 /\ term = <<>> -> blocks
          [] OTHER -> [blocks EXCEPT ![k].spans = term \o <<Gap>> \o @]
DefList(p, walked, ctx) ==
    LET listed == FoldLeft(LAMBDA done, k :
            CASE k.tag = "dt" -> [done EXCEPT !.term = InlineSpans(k)]
              [] k.tag = "dd" -> [out |-> done.out \o DefEntry(done.term, walked[done.n], ctx),
                                  term |-> <<>>, n |-> done.n + 1]
              [] OTHER -> done,
            [out |-> <<>>, term |-> <<>>, n |-> 1], p.kids)
    IN  listed.out \o Flush(listed.term, ctx)

\* The cells of every row, of nested tables too.
IsCell(p) == p.tag \in {"td", "th"}
Table(p) ==
    LET rows == Among(Below(p), LAMBDA d : d.tag = "tr")
        cells == FlattenSeq([i \in DOMAIN rows |-> Among(rows[i].kids, IsCell)])
    IN  Unless(cells = <<>>, Block("table", FlattenSeq([i \in DOMAIN cells |-> InlineSpans(cells[i])])))
ContentCells(p) == Among(Below(p), LAMBDA d : IsCell(d) /\ Some(Below(d), LAMBDA t : IsWord(t) \/ t.tag = "math"))
\* The text of the elements that are a line each, if there are any, else all of it.
CodeLines(p) ==
    LET fixed == Among(Below(p), LAMBDA d : IsElement(d) /\ d.is = "line")
    IN  IF fixed = <<>> THEN TextOf(p) ELSE FlattenSeq([i \in DOMAIN fixed |-> TextOf(fixed[i])])

\* What an element of a role walks, each by itself, and in what context.
Walks(role, p) ==
    CASE role = "list" -> Among(p.kids, LAMBDA k : k.tag = "li")
      [] role = "deflist" -> Among(p.kids, LAMBDA k : k.tag = "dd")
      [] role = "iconed" -> ContentCells(p)
      [] role = "figure" /\ Len(RealImages(p)) = 1 ->
            LET captions == CaptionsOf(p) IN SubSeq(captions, 1, Min({1, Len(captions)}))
      [] role = "figure" /\ Len(RealImages(p)) # 1 -> <<p>>
      [] role \in {"callout", "footnote", "quote", "caption", "container"} -> <<p>>
      [] OTHER -> <<>>
WalkContext(role, p, ctx) ==
    [ctx EXCEPT !.quote = role = "quote" \/ (@ /\ role \notin {"callout", "footnote"}),
                !.tight = @ \/ role = "deflist" \/ (role = "container" /\ IsToc(p))]
\* The blocks of an element, given those of what it walks.
Extract(role, p, ctx, walked) ==
    LET boxed(t, blocks) == Unless(blocks = <<>>, Holding(t, blocks))
    IN  CASE role = "deep" -> Flush(CollectInline(p, 0), ctx)
          [] role \in {"callout", "footnote"} -> boxed(role, walked[1])
          [] role = "code" -> Unless(AllBlank(CodeLines(p)), Block("code", CodeLines(p)))
          [] role = "math" -> <<Block("math", <<Span(EquationOf(p)[1])>>)>>
          [] role = "heading" -> Heading(p, ctx)
          [] role = "paragraph" -> HtmlParagraph(p, ctx)
          [] role = "list" -> FlattenSeq([n \in DOMAIN walked |-> ListItem(walked[n], p.tag = "ol", n)])
          [] role = "deflist" -> DefList(p, walked, WalkContext(role, p, ctx))
          [] role = "rule" -> <<Block("rule", <<>>)>>
          [] role = "image" -> <<HtmlPicture(p, <<>>)>>
          [] role = "figure" /\ Len(RealImages(p)) = 1 ->
                <<HtmlPicture(RealImages(p)[1], FigureCaption(Walks(role, p), walked))>>
          [] role = "iconed" -> boxed("callout", FlattenSeq(walked))
          [] role = "table" -> Table(p)
          [] role = "caption" -> Caption(walked[1], ctx)
          [] OTHER -> walked[1]

\* (mutant: the text after the last block is dropped)
EndedWithTheBlocks(walked, ctx) == walked.out
Ended(walked, ctx) == walked.out \o Flush(walked.run, ctx)
\* Loose text runs together until a block: the walk of what an element holds.
RECURSIVE WalkChildren(_, _)
WalkEach(ps, ctx) == [i \in DOMAIN ps |-> WalkChildren(ps[i], ctx)]
BlockElement(p, role, ctx) == Extract(role, p, ctx, WalkEach(Walks(role, p), WalkContext(role, p, ctx)))
WalkChildren(p, ctx) ==
    LET below == [ctx EXCEPT !.depth = @ + 1]
    IN  Ended(FoldLeft(LAMBDA done, k :
            CASE IsChrome(k) -> done
              [] ~IsChrome(k) /\ IsBlock(k) ->
                    [out |-> done.out \o Flush(done.run, ctx) \o
                             BlockElement(k, IF below.depth >= MaxBlockDepth THEN "deep" ELSE Classify(k), below),
                     run |-> <<>>]
              [] OTHER -> [done EXCEPT !.run = @ \o CollectInline(k, 0)],
            [out |-> <<>>, run |-> <<>>], p.kids), ctx)

-----------------------------------------------------------------------------
(* What belongs together is joined: to a picture without a caption the labelled
   paragraph after it, to a paragraph the bare marker before it.              *)
IsPlain(block) == block.t = "para" /\ block.marker = "none"
AttachCaptions(blocks) ==
    FoldLeft(LAMBDA done, b :
        IF /\ done # <<>> /\ Last(done).t = "image" /\ Last(done).caption = <<>>
           /\ IsPlain(b) /\ Leads(b.spans, "figure")
        THEN [done EXCEPT ![Len(done)].caption = b.spans] ELSE Append(done, b), <<>>, blocks)
IsLabel(block) ==
    LET said == SelectSeq(block.spans, LAMBDA s : ~IsSpace(s))
    IN  IsPlain(block) /\ ~block.quote /\ Len(said) = 1 /\ said[1].is \in {"label", "first", "second"}
JoinLabels(blocks) ==
    FoldLeft(LAMBDA done, b :
        IF done # <<>> /\ IsLabel(Last(done)) /\ IsPlain(b) /\ b.spans # <<>>
        THEN Append(Front(done), [b EXCEPT !.spans = Last(done).spans \o <<Gap>> \o @])
        ELSE Append(done, b), <<>>, blocks)

Parsed == htmlBlocks = <<>> \/ htmlBlocks[1].t # "unparsed"
HtmlInit == htmlPage \in HtmlPages /\ htmlBlocks = Unparsed
ParseBlocks ==
    /\ ~Parsed
    /\ htmlBlocks' = JoinLabels(AttachCaptions(
                        WalkChildren(htmlPage, [quote |-> FALSE, tight |-> FALSE, depth |-> 0])))
    /\ UNCHANGED htmlPage
HtmlNext == ParseBlocks

-----------------------------------------------------------------------------
(* Properties *)
\* What a reader is shown, block by block.
RECURSIVE Said(_)
Said(block) ==
    SelectSeq(block.spans \o block.caption, LAMBDA s : ~IsSpace(s))
    \o FlattenSeq([i \in DOMAIN block.blocks |-> Said(block.blocks[i])])
Read == LET all == FlattenSeq([i \in DOMAIN htmlBlocks |-> Said(htmlBlocks[i])])
        IN  [i \in DOMAIN all |-> all[i].at]
\* What there is to see.
ToRead == SelectSeq(Below(htmlPage), LAMBDA p : IsWord(p) \/ IsImg(p) \/ p.tag = "math")
Before(at, to) ==
    \E k \in DOMAIN at \cap DOMAIN to : at[k] < to[k] /\ \A j \in 1 .. k - 1 : at[j] = to[j]

\* What the parser means to leave out of an element `a` it stands in: all of its
\* chrome, what is not part of a list or a table, the number or the keyword that
\* its block says, and what is beside the equation, the picture and the lines
\* that an element is taken for.
LeftOutBy(p, a) ==
    LET role == Classify(a)
        turn == p.ink[Len(a.ink) + 1]
        kid == a.kids[turn]
        after == {k \in turn + 1 .. Len(a.kids) : a.kids[k].tag \in {"dt", "dd"}}
    IN  \/ IsChrome(a)
        \/ role = "math"
        \/ role = "figure" /\ Len(RealImages(a)) = 1
        \/ role = "list" /\ kid.tag # "li"
        \/ role = "deflist" /\ kid.tag \notin {"dt", "dd"}
        \/ role = "deflist" /\ kid.tag = "dt" /\ after # {} /\ a.kids[Min(after)].tag = "dt"
        \/ role \in {"table", "iconed"} /\ ~\E c \in Around(p) : Len(c.ink) > Len(a.ink) /\ IsCell(c)
        \/ role = "iconed" /\ ~IsWord(p)
        \/ role = "code"
        \/ role = "paragraph" /\ IsWord(p) /\ p.is = "note"
        \/ p.tag = "image" /\ a.ink # <<>> /\ (role \in {"paragraph", "heading", "table"} \/ ~IsBlock(a))
        \/ a.tag = "li" /\ IsWord(p) /\ p.is \in {"first", "second"}
LeftOut(p) ==
    \/ IsImg(p) /\ Len(p.ink) > MaxInlineDepth
    \/ \E a \in Around(p) : LeftOutBy(p, a)
\* What it shows again: the rows of a table in a table, and the picture of a figure
\* that stands in the paragraph taken for its caption.
Twice(p) ==
    \/ Cardinality({a \in Around(p) : a.tag = "table"}) > 1
    \/ IsImg(p) /\ \E a \in Around(p) : Classify(a) = "figure" /\ RealImages(a) = <<p>>

\* Every word of a section and every picture and formula in it is shown, but what
\* is left out on purpose, and the words in their order, none of them twice:
\* whatever holds them, however the walks gather, join, attach and strip them.
EveryWordOnce ==
    LET read == Read
        loose(at) == IsImg(At(at))
    IN  Parsed =>
            /\ \A p \in ToSet(ToRead) : (\E i \in DOMAIN read : read[i] = p.ink) \/ LeftOut(p)
            /\ \A j \in DOMAIN read : \A i \in 1 .. j - 1 :
                  \/ Before(read[i], read[j])
                  \/ read[i] # read[j] /\ (loose(read[i]) \/ loose(read[j]))
                  \/ Twice(At(read[j]))
=============================================================================
