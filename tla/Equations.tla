----------------------------- MODULE Equations -----------------------------
(***************************************************************************)
(* How an equation of a book is recovered and drawn (delryn-eqn):          *)
(* detect.rs gathers every source the markup carries, typeset.rs maps      *)
(* Presentation MathML to the layout engine's tree, unicode.rs transcribes *)
(* it to text, render.rs goes down the ladder type, picture, text and      *)
(* breaks a wide display equation into lines.                              *)
(*                                                                         *)
(* A glyph is an `ink` of its own and what it is to the mapping, `is`: a   *)
(* sign, a relation ("rel") or an operator ("bin") of the engine, a fence, *)
(* an accent ("hat", or "dot", which text does not call a decoration), a   *)
(* brace over or under ("cap", "cup"), an underline ("rule"), "tex" of an  *)
(* annotation, or nothing to see ("ghost": an invisible operator; "none":  *)
(* an empty token, or an element that only holds others).  The engine's    *)
(* parser and layout are external.                                         *)
(***************************************************************************)
EXTENDS Naturals, Sequences, FiniteSets, SequencesExt

CONSTANTS
    EqSites,        \* the occurrences of mathematics in a book
    EqDepth,        \* MAX_DEPTH and MAX_MATH_DEPTH: how deep the walks go
    EqWidths        \* the columns, in glyphs, that a display equation is broken at; 0: unset

VARIABLES
    eqSite,         \* the occurrence
    eqItem,         \* its MathItem, once detected
    eqShown         \* what the ladder made of it
eqVars == <<eqSite, eqItem, eqShown>>

Nothing == [kind |-> "nothing"]
Undetected == [kind |-> "undetected"]
Tokens == {"mi", "mn", "mo", "mtext"}
Annotations == {"annotation", "annotation-xml"}
Inkless == {"ghost", "none"}
Accents == {"hat", "dot"}

\* A glyph, and the glyphs of a token or of stray text: none of an empty one.
Glyph(n) == [ink |-> n.ink, is |-> n.is]
Glyphs(n) == IF n.is \in Inkless THEN <<>> ELSE <<Glyph(n)>>
\* The children that are elements, without the annotations (typeset's) or with them.
Elements(n) == SelectSeq(n.kids, LAMBDA k : k.tag # "text")
Presented(n) == SelectSeq(Elements(n), LAMBDA k : k.tag \notin Annotations)
\* `node` and all below it, in document order.
RECURSIVE Descend(_)
Descend(n) == <<n>> \o FlattenSeq([i \in DOMAIN n.kids |-> Descend(n.kids[i])])
TokenText(n) == FlattenSeq([i \in DOMAIN Descend(n) |-> Glyphs(Descend(n)[i])])

-----------------------------------------------------------------------------
(* The engine's tree (ParseNode): what a node is, the glyphs it draws itself
   (an accent's, two fences') and its parts.                                *)
Unmapped == [t |-> "unmapped"]
Node(t, glyphs, parts) == [t |-> t, glyphs |-> glyphs, parts |-> parts]
Ord(parts) == Node("ord", <<>>, parts)
Leaf(n) == IF n.is \in Inkless THEN Ord(<<>>) ELSE Node("leaf", <<Glyph(n)>>, <<>>)
Normal(node) == IF node.t = "ord" /\ Len(node.parts) = 1 THEN node.parts[1] ELSE node
\* What a tree draws: nothing of a phantom, which only takes up room.
RECURSIVE Drawn(_)
Drawn(node) ==
    IF node.t = "phantom" THEN <<>>
    ELSE node.glyphs \o FlattenSeq([i \in DOMAIN node.parts |-> Drawn(node.parts[i])])

IsFence(n) == n.tag = "mo" /\ n.is \in {"fence", "none"}
RECURSIVE IsTall(_)
IsTall(n) ==
    \/ n.tag \in {"mfrac", "mtable", "msqrt", "mroot", "msubsup", "munderover", "mover", "munder"}
    \/ /\ n.tag \in {"mrow", "mstyle", "mpadded", "math", "mphantom", "semantics"}
       /\ \E i \in DOMAIN Presented(n) : IsTall(Presented(n)[i])
\* A row that is a fence, something tall, and a fence.
Fenced(n) ==
    LET kids == Presented(n)
    IN  /\ Len(kids) >= 3 /\ IsFence(kids[1]) /\ IsFence(Last(kids))
        /\ \E i \in 2 .. Len(kids) - 1 : IsTall(kids[i])
\* The glyph of a script that is nothing but one, e.g. an accent.
Sole(n) == IF Len(TokenText(n)) = 1 THEN TokenText(n)[1].is ELSE "more"

\* (mutant: an accent over is taken for one whatever there is under)
UnderOverAny(under, over, base, scripts) ==
    LET mark == IF over # <<>> THEN Sole(over[1]) ELSE "more"
    IN  IF mark \in Accents THEN Node("accent", TokenText(over[1]), <<base>>)
        ELSE Node("scripts", <<>>, <<base>> \o scripts)
\* An accent, a brace or a line where the script is the mark of one; else scripts.
UnderOver(under, over, base, scripts) ==
    LET over1 == IF under = <<>> /\ over # <<>> THEN Sole(over[1]) ELSE "more"
        under1 == IF over = <<>> /\ under # <<>> THEN Sole(under[1]) ELSE "more"
    IN  CASE over1 \in Accents -> Node("accent", TokenText(over[1]), <<base>>)
          [] over1 = "cap" -> Node("brace", TokenText(over[1]), <<base>>)
          [] under1 = "cup" -> Node("brace", TokenText(under[1]), <<base>>)
          [] under1 = "rule" -> Node("underline", TokenText(under[1]), <<base>>)
          [] OTHER -> Node("scripts", <<>>, <<base>> \o scripts)
\* An embedded TeX annotation is preferred to the presentation beside it.
Semantics(n, children) ==
    LET tex == SelectSeq(n.kids, LAMBDA k : k.tag = "annotation" /\ k.is = "tex")
    IN  IF tex # <<>> THEN Leaf(tex[1]) ELSE Normal(Ord(children))
Row(n, parts, children) ==
    LET kids == Presented(n)
    IN  IF Fenced(n)
        THEN Node("fence", Glyphs(kids[1]) \o Glyphs(Last(kids)), SubSeq(parts, 2, Len(parts) - 1))
        ELSE Normal(Ord(children))
\* The cells of a table, row by row.
Cells(n) ==
    LET rows == SelectSeq(Presented(n), LAMBDA r : r.tag = "mtr")
    IN  FlattenSeq([i \in DOMAIN rows |-> SelectSeq(Presented(rows[i]), LAMBDA c : c.tag = "mtd")])

\* A node of the markup, given the trees of its elements, of all it holds and of
\* its cells; a table without one is not mapped.
MapNode(n, parts, children, cells) ==
    LET kids == Presented(n)
        has(k) == Len(kids) >= k
    IN  CASE n.tag \in Tokens \cup {"text"} -> Leaf(n)
          [] n.tag \in {"mfrac", "msup", "msub"} /\ has(2) -> Node(n.tag, <<>>, SubSeq(parts, 1, 2))
          [] n.tag = "msubsup" /\ has(3) -> Node("scripts", <<>>, <<parts[1], parts[3], parts[2]>>)
          [] n.tag = "munderover" /\ has(3) ->
                UnderOver(<<kids[2]>>, <<kids[3]>>, parts[1], <<parts[3], parts[2]>>)
          [] n.tag = "munder" /\ has(2) -> UnderOver(<<kids[2]>>, <<>>, parts[1], <<parts[2]>>)
          [] n.tag = "mover" /\ has(2) -> UnderOver(<<>>, <<kids[2]>>, parts[1], <<parts[2]>>)
          [] n.tag = "msqrt" -> Node("root", <<>>, children)
          [] n.tag = "mroot" /\ has(2) -> Node("root", <<>>, SubSeq(parts, 1, 2))
          [] n.tag = "mfenced" -> Node("fence", <<>>, parts)
          [] n.tag = "mtable" -> IF cells = <<>> THEN Unmapped ELSE Node("grid", <<>>, cells)
          [] n.tag = "mspace" -> Ord(<<>>)
          [] n.tag = "mphantom" -> Node("phantom", <<>>, children)
          [] n.tag = "semantics" -> Semantics(n, children)
          [] n.tag \in {"mrow", "math", "mstyle", "mpadded"} -> Row(n, parts, children)
          [] OTHER -> Unmapped
\* A node that is not mapped degrades to what it holds.
Degraded(n, mapped, children) ==
    CASE mapped # Unmapped -> mapped
      [] n.tag = "text" -> Leaf(n)
      [] OTHER -> Normal(Ord(children))

RECURSIVE MapOrDegrade(_, _), MapChildren(_, _)
MapChildren(n, depth) ==
    IF depth >= EqDepth THEN <<>>
    ELSE LET kept == SelectSeq(n.kids, LAMBDA k :
                        IF k.tag = "text" THEN k.is # "none" ELSE k.tag \notin Annotations)
         IN  [i \in DOMAIN kept |->
                IF kept[i].tag = "text" THEN Leaf(kept[i]) ELSE MapOrDegrade(kept[i], depth + 1)]
MapOrDegrade(n, depth) ==
    IF depth >= EqDepth THEN Ord(<<>>)
    ELSE LET parts == [i \in DOMAIN Presented(n) |-> MapOrDegrade(Presented(n)[i], depth + 1)]
             children == MapChildren(n, depth + 1)
             cells == [i \in DOMAIN Cells(n) |-> Ord(MapChildren(Cells(n)[i], depth + 1))]
         IN  Degraded(n, MapNode(n, parts, children, cells), children)

-----------------------------------------------------------------------------
(* The Unicode floor: the glyphs a formula is transcribed to.  A script that
   is only a decoration is dropped, and so is the index of a root.           *)
IsDecoration(glyphs) == glyphs # <<>> /\ \A i \in DOMAIN glyphs : glyphs[i].is \in {"hat", "rule"}
RECURSIVE EmitGlyphs(_, _)
EmitEach(kids, depth) == FlattenSeq([i \in DOMAIN kids |-> EmitGlyphs(kids[i], depth + 1)])
Limit(kid, depth) ==
    LET said == EmitGlyphs(kid, depth + 1)
    IN  IF IsDecoration(said) THEN <<>> ELSE said
EmitGlyphs(n, depth) ==
    LET kids == Elements(n)
        has(k) == Len(kids) >= k
    IN  CASE depth >= EqDepth -> TokenText(n)
          [] n.tag \in Tokens \cup {"text"} -> Glyphs(n)
          [] n.tag = "msubsup" /\ has(3) -> EmitEach(SubSeq(kids, 1, 3), depth)
          [] n.tag = "munderover" /\ has(3) ->
                EmitGlyphs(kids[1], depth + 1) \o Limit(kids[2], depth) \o Limit(kids[3], depth)
          [] n.tag \in {"munder", "mover"} /\ has(2) -> EmitGlyphs(kids[1], depth + 1) \o Limit(kids[2], depth)
          [] n.tag \in {"msub", "msup", "mfrac"} /\ has(2) -> EmitEach(SubSeq(kids, 1, 2), depth)
          [] n.tag = "mroot" /\ has(2) -> EmitGlyphs(kids[1], depth + 1)
          [] n.tag = "mfenced" -> EmitEach(kids, depth)
          [] n.tag = "semantics" -> EmitEach(SubSeq(kids, 1, IF has(1) THEN 1 ELSE 0), depth)
          [] n.tag \in {"mspace", "annotation"} -> <<>>
          [] OTHER -> EmitEach(n.kids, depth)

-----------------------------------------------------------------------------
(* Detection.  A site is the element and what it carries, each a source or
   Nothing: TeX that the engine parses or not and that the floor can read or
   not ([kind |-> "tex"]), MathML of either kind, or a plain description.   *)
IsTex(source) == source # Nothing /\ source.kind = "tex"
IsMathml(source) == source # Nothing /\ source.kind \in {"presentation", "content"}
OrElse(source, other) == IF source # Nothing THEN source ELSE other
Tex(glyph) == [kind |-> "tex", parses |-> TRUE, reads |-> TRUE, ink |-> glyph.ink, is |-> glyph.is]

IsMath(site) ==
    \/ site.tag \in {"math", "frame"}
    \/ /\ site.tag = "img"
       /\ \/ site.classed \/ IsTex(site.alt) \/ IsMathml(site.alt)
          \/ site.comment # Nothing \/ site.described # Nothing
\* The TeX annotation within the markup, if there is one.
AnnotationTex(site) ==
    IF ~IsMathml(site.inside) THEN Nothing
    ELSE LET tex == SelectSeq(Descend(site.inside.math), LAMBDA n : n.tag = "annotation" /\ n.is = "tex")
         IN  IF tex = <<>> THEN Nothing ELSE Tex(tex[1])
AuthoredLatex(site) ==
    OrElse(site.alttext,
    OrElse(AnnotationTex(site),
           IF site.tag = "img" /\ IsTex(site.alt) THEN site.alt ELSE Nothing))
HarvestMathml(site) ==
    IF site.tag = "math" THEN site.inside
    ELSE OrElse(IF site.tag = "img" /\ IsMathml(site.alt) THEN site.alt ELSE Nothing,
         OrElse(site.payload,
         OrElse(site.inside,
         OrElse(site.described,
         OrElse(site.beside, site.comment)))))
\* The last resort of the text: what the picture is said to be, or the bare glyphs.
HarvestUnicode(site) ==
    CASE site.tag = "img" /\ site.alt # Nothing /\ site.alt.kind = "plain" -> <<Glyph(site.alt)>>
      [] site.tag # "img" /\ site.inside # Nothing -> TokenText(site.inside.math)
      [] OTHER -> <<>>
BestText(site) ==
    LET tex == AuthoredLatex(site)
        mathml == HarvestMathml(site)
        told == IF mathml = Nothing THEN <<>> ELSE EmitGlyphs(mathml.math, 0)
    IN  CASE tex # Nothing /\ tex.reads -> <<Glyph(tex)>>
          [] told # <<>> -> told
          [] OTHER -> HarvestUnicode(site)
Detect(site) ==
    LET item == [typeset |-> OrElse(AuthoredLatex(site), HarvestMathml(site)),
                 picture |-> site.picture, text |-> BestText(site)]
    IN  IF \/ ~IsMath(site)
           \/ item.typeset = Nothing /\ item.picture = "none" /\ item.text = <<>>
        THEN Nothing ELSE item

-----------------------------------------------------------------------------
(* The ladder. *)
\* to_nodes: the tree of a source, or none for one that cannot be typeset.
Maps(source) == source.kind = "presentation" \/ (source.kind = "tex" /\ source.parses)
ToNodes(source) ==
    CASE ~Maps(source) -> <<>>
      [] source.kind = "tex" -> <<Leaf(source)>>
      [] source.kind = "presentation" -> <<MapOrDegrade(source.math, 2)>>

\* The width of a run of the tree: every glyph of it takes a column.
DrawnBy(nodes) == FlattenSeq([i \in DOMAIN nodes |-> Drawn(nodes[i])])
Measure(nodes) == Len(DrawnBy(nodes))
FlatBody(nodes) == IF Len(nodes) = 1 /\ nodes[1].t = "ord" THEN nodes[1].parts ELSE nodes
Ranked(node, is) == node.t = "leaf" /\ node.glyphs[1].is \in is

\* A line of the flat tree from `start` on ends at the last stop its budget
\* reaches, the next one if it reaches none; the lines but the first are set in.
RECURSIVE LinesFrom(_, _, _, _)
LinesFrom(flat, start, budget, rest) ==
    LET stops == {i \in start + 1 .. Len(flat) : Ranked(flat[i], {"rel", "bin"})} \cup {Len(flat) + 1}
        fits(s) == Measure(SubSeq(flat, start, s - 1)) <= budget
        reached == {s \in stops : \A r \in stops : r <= s => fits(r)}
        end == IF reached # {} THEN Max(reached) ELSE Min(stops)
    IN  IF start > Len(flat) THEN <<>>
        ELSE <<SubSeq(flat, start, end - 1)>> \o LinesFrom(flat, end, rest, rest)
BreakIntoLines(flat, width) ==
    LET relations == {i \in DOMAIN flat : Ranked(flat[i], {"rel"})}
        head == IF relations = {} THEN 0 ELSE Measure(SubSeq(flat, 1, Min(relations) - 1))
        indent == Min({head, width \div 2})
    IN  LinesFrom(flat, 1, width, width - indent)
\* The lines that an equation is drawn in at a width, if one is set.
BuildWrapped(nodes, width) ==
    LET lines == BreakIntoLines(FlatBody(nodes), width)
    IN  IF width = 0 \/ Measure(nodes) <= width \/ Len(lines) < 2 THEN <<nodes>> ELSE lines

\* Whether a source is one the engine can map: what decides, as a section is
\* parsed, if an equation stays markup or becomes the picture or the text.
IsTypesettable(item) == item.typeset # Nothing /\ Maps(item.typeset)
DisplayMathBlock(item) == IF ~IsTypesettable(item) /\ item.picture # "none" THEN "image" ELSE "math"
InType(lines) == [rung |-> "type", lines |-> [i \in DOMAIN lines |-> DrawnBy(lines[i])]]
InText(item) == [rung |-> "text", glyphs |-> item.text]
\* The ladder: type if it maps and lays out, the picture if its bytes are found, else text.
RenderWrapped(item, width, lays) ==
    CASE IsTypesettable(item) /\ lays ->
            InType(BuildWrapped(ToNodes(item.typeset), IF item.display THEN width ELSE 0))
      [] item.picture = "found" -> [rung |-> "picture"]
      [] OTHER -> InText(item)

-----------------------------------------------------------------------------
EqInit == eqSite \in EqSites /\ eqItem = Undetected /\ eqShown = Nothing

\* Whether it stands alone is for the walk around it to say.
DetectEquation ==
    /\ eqItem = Undetected
    /\ LET item == Detect(eqSite)
       IN  \E display \in BOOLEAN :
               eqItem' = IF item = Nothing THEN Nothing ELSE item @@ [display |-> display]
    /\ UNCHANGED <<eqSite, eqShown>>

Undrawn == eqItem \notin {Undetected, Nothing} /\ eqShown = Nothing
\* The layout engine may fail on any equation, or panic and be caught.
ConvertMathBlock ==
    /\ Undrawn /\ eqItem.display
    /\ \E width \in EqWidths, graphics, lays \in BOOLEAN :
        eqShown' = CASE DisplayMathBlock(eqItem) = "image" -> [rung |-> "picture"]
                     [] DisplayMathBlock(eqItem) = "math" /\ graphics -> RenderWrapped(eqItem, width, lays)
                     [] OTHER -> InText(eqItem)
    /\ UNCHANGED <<eqSite, eqItem>>
\* In a line of prose type is an option, and a picture of one is never drawn.
ConvertInlineMath ==
    /\ Undrawn /\ ~eqItem.display
    /\ \E typesets, lays, low \in BOOLEAN :
        LET made == RenderWrapped(eqItem, 0, lays)
        IN  eqShown' = IF IsTypesettable(eqItem) /\ typesets /\ made.rung = "type" /\ low THEN made
                       ELSE InText(eqItem)
    /\ UNCHANGED <<eqSite, eqItem>>
EqNext == DetectEquation \/ ConvertMathBlock \/ ConvertInlineMath

-----------------------------------------------------------------------------
(* Properties *)
\* The glyphs of a formula that a reader is to see: those of no annotation and
\* of no phantom, and of a formula that carries its TeX only that.
RECURSIVE Visible(_)
Visible(n) ==
    LET annotated(k) == k.tag = "annotation" /\ k.is = "tex"
        tex == {i \in DOMAIN n.kids : n.tag = "semantics" /\ annotated(n.kids[i])}
        kids == IF tex # {} THEN {Min(tex)} ELSE {i \in DOMAIN n.kids : n.kids[i].tag \notin Annotations}
    IN  IF n.tag = "mphantom" THEN {}
        ELSE ToSet(Glyphs(n)) \cup UNION {Visible(n.kids[i]) : i \in kids}
\* What only the text leaves out of a formula: decorations and indices of roots.
RECURSIVE Untold(_)
Untold(n) ==
    UNION {Untold(n.kids[i]) : i \in DOMAIN n.kids}
    \cup {g \in ToSet(TokenText(n)) : g.is \in {"hat", "rule"}}
    \cup IF n.tag = "mroot" /\ Len(n.kids) > 1 THEN ToSet(TokenText(n.kids[2])) ELSE {}

\* An equation that is drawn from its MathML shows every glyph a reader is to
\* see, once: however its nodes nest, degrade or become accents, braces and
\* fences, and wherever its lines are broken, alone on the page or in a line of
\* prose.  Where it is only transcribed to text it says each glyph at most once,
\* and all of them but the decorations and the indices of roots.
InkKept ==
    LET source == eqItem.typeset
        drawn == FlattenSeq(eqShown.lines)
    IN  eqShown # Nothing /\ source # Nothing /\ source.kind = "presentation" =>
            CASE eqShown.rung = "type" -> IsInjective(drawn) /\ ToSet(drawn) = Visible(source.math)
              [] eqShown.rung = "text" ->
                    /\ IsInjective(eqShown.glyphs)
                    /\ Visible(source.math) \ Untold(source.math) \subseteq ToSet(eqShown.glyphs)
              [] eqShown.rung = "picture" -> TRUE
=============================================================================
