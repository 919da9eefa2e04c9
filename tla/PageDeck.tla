------------------------------ MODULE PageDeck ------------------------------
(***************************************************************************)
(* The deck that shows full PDF pages (app/page_deck.rs) and the terminal  *)
(* it drives.                                                              *)
(*                                                                         *)
(* The deck cannot read the terminal back: it keeps a picture of what it   *)
(* has transmitted (`resident`) and placed (`shown`) and emits only the    *)
(* difference.  The terminal keeps image data by image id, one id per      *)
(* section, and one placement per image; deleting an image frees both, and *)
(* clearing the screen drops the placements and keeps the data.  Some      *)
(* terminals will not redraw an image they are asked to place again in a   *)
(* different shape (`FrozenShapes`).                                       *)
(*                                                                         *)
(* A placement's cell box and source rectangle together are its `shape`,   *)
(* its cell position its `spot`.  Page bytes are what they were made from: *)
(* a book, the policy they were themed under, the raster they come from.   *)
(***************************************************************************)
EXTENDS Integers, Sequences

CONSTANTS
    Sections, Books, Policies, Rasters, Spots, Shapes,
    RetransmitMoves,  \* media::moves_need_retransmit(), read once
    FrozenShapes,     \* the terminal does not redraw a re-placed image in a new shape
    MaxTargets,       \* bound: how many pages share the screen
    None              \* no policy, no bytes, no shape

ASSUME PageDeckAssumption ==
    /\ RetransmitMoves \in BOOLEAN /\ FrozenShapes \in BOOLEAN
    /\ MaxTargets \in Nat
    /\ None \notin Policies /\ None \notin Shapes
    /\ None \notin [book : Books, policy : Policies, raster : Rasters]

\* moves_need_retransmit knows the terminals that need it.
ASSUME MovesDetected == FrozenShapes => RetransmitMoves

VARIABLES
    deck,   \* PageDeck: [shown, resident, policy]
    term    \* the terminal: [data, placed], each by section

Target    == [section : Sections, spot : Spots, shape : Shapes, raster : Rasters]
Residency == [policy : Policies, raster : Rasters, shape : Shapes \cup {None}]
Content   == [book : Books, policy : Policies, raster : Rasters]
Placement == [spot : Spots, shape : Shapes, raster : Rasters]

Nothing == [s \in {} |-> None]

SectionsOf(ts) == {ts[i].section : i \in DOMAIN ts}
TargetOf(ts, s) == ts[CHOOSE i \in DOMAIN ts : ts[i].section = s]

-----------------------------------------------------------------------------
(* The deck's own bookkeeping.                                             *)

\* What a target's data must match to be reused.
\* (mutant: the shape never is part of it)
NeededAnyShape(t, p) == [policy |-> p, raster |-> t.raster, shape |-> None]

Needed(t, p) ==
    [policy |-> p, raster |-> t.raster, shape |-> IF RetransmitMoves THEN t.shape ELSE None]

Shows(d, ts, p) == d.shown = ts /\ d.policy = p

\* The sections among the targets whose bytes are already in the terminal.
Reusable(d, ts, p) ==
    {s \in SectionsOf(ts) \cap DOMAIN d.resident : d.resident[s] = Needed(TargetOf(ts, s), p)}

\* A page that has to be transmitted has no bytes yet: the frame is held.
Held(d, ts, p, png) == \E s \in SectionsOf(ts) \ Reusable(d, ts, p) : png[s] = None

RenderedDeck(d, ts, p, png) ==
    IF Shows(d, ts, p) \/ Held(d, ts, p, png) THEN d
    ELSE [shown |-> ts,
          resident |-> [s \in SectionsOf(ts) |-> Needed(TargetOf(ts, s), p)],
          policy |-> p]

\* (mutants: a full redraw forgets nothing; clearing forgets to empty `resident`)
RestagedNothing(d) == d
ClearedShown(d) == [shown |-> <<>>, resident |-> d.resident, policy |-> None]

RestagedDeck(d) == [shown |-> <<>>, resident |-> d.resident, policy |-> None]

ClearedDeck(d) == [shown |-> <<>>, resident |-> Nothing, policy |-> None]

-----------------------------------------------------------------------------
(* What the escapes do to the terminal.                                    *)

\* The data left after the deck frees every resident page the targets cannot
\* reuse.
Freed(d, ts, p) == DOMAIN d.resident \ Reusable(d, ts, p)

\* An image placed again under the same ids moves; in a new shape it may be
\* left as it was.  `gone` has been freed, placements and all, by then.
Moved(t, gone, s, to) ==
    IF FrozenShapes /\ s \in DOMAIN t.placed \ gone /\ t.placed[s].shape # to.shape
    THEN t.placed[s] ELSE to

AsPlaced(target) == [spot |-> target.spot, shape |-> target.shape, raster |-> target.raster]

DataAfter(d, t, ts, p, png) ==
    [s \in (DOMAIN t.data \ Freed(d, ts, p)) \cup SectionsOf(ts) |->
        IF s \in SectionsOf(ts) \ Reusable(d, ts, p) THEN png[s] ELSE t.data[s]]

PlacedAfter(d, t, ts, p) ==
    [s \in (DOMAIN t.placed \ Freed(d, ts, p)) \cup SectionsOf(ts) |->
        IF s \in SectionsOf(ts) THEN Moved(t, Freed(d, ts, p), s, AsPlaced(TargetOf(ts, s)))
        ELSE t.placed[s]]

RenderedTerm(d, t, ts, p, png) ==
    IF Shows(d, ts, p) \/ Held(d, ts, p, png) THEN t
    ELSE [data |-> DataAfter(d, t, ts, p, png), placed |-> PlacedAfter(d, t, ts, p)]

\* terminal.clear()
WipedTerm(t) == [data |-> t.data, placed |-> Nothing]

ClearedTerm(d, t) ==
    [data   |-> [s \in DOMAIN t.data \ DOMAIN d.resident |-> t.data[s]],
     placed |-> [s \in DOMAIN t.placed \ DOMAIN d.resident |-> t.placed[s]]]

-----------------------------------------------------------------------------
(* The deck on its own, under a caller that asks for any targets.          *)

\* A caller's targets name each section once.
TargetSeq == {ts \in UNION {[1 .. n -> Target] : n \in 0 .. MaxTargets} :
                 \A i, j \in DOMAIN ts : ts[i].section = ts[j].section => i = j}

\* `png_for` serves a page in the raster its target was placed against, or
\* nothing yet.
Serves(ts, p, b, ready) ==
    [s \in Sections |->
        IF s \in ready /\ s \in SectionsOf(ts)
        THEN [book |-> b, policy |-> p, raster |-> TargetOf(ts, s).raster] ELSE None]

Render(ts, p, png) ==
    /\ deck' = RenderedDeck(deck, ts, p, png)
    /\ term' = RenderedTerm(deck, term, ts, p, png)

\* A full redraw: terminal.clear() and restage().
Restage ==
    /\ deck' = RestagedDeck(deck)
    /\ term' = WipedTerm(term)

Clear ==
    /\ deck' = ClearedDeck(deck)
    /\ term' = ClearedTerm(deck, term)

DeckInit ==
    /\ deck = [shown |-> <<>>, resident |-> Nothing, policy |-> None]
    /\ term = [data |-> Nothing, placed |-> Nothing]

DeckNext ==
    \/ \E ts \in TargetSeq, p \in Policies, b \in Books, ready \in SUBSET Sections :
           Render(ts, p, Serves(ts, p, b, ready))
    \/ Restage
    \/ Clear

DeckSpec == DeckInit /\ [][DeckNext]_<<deck, term>>

-----------------------------------------------------------------------------
(* Properties.                                                             *)

\* The deck's record and the terminal's contents are of the right shapes.
TypeOK ==
    /\ deck.shown \in TargetSeq
    /\ DOMAIN deck.resident \subseteq Sections
    /\ \A s \in DOMAIN deck.resident : deck.resident[s] \in Residency
    /\ deck.policy \in Policies \cup {None}
    /\ DOMAIN term.data \subseteq Sections
    /\ \A s \in DOMAIN term.data : term.data[s] \in Content
    /\ DOMAIN term.placed \subseteq Sections
    /\ \A s \in DOMAIN term.placed : term.placed[s] \in Placement

\* `resident` is exactly what the terminal holds: no page's data is left
\* behind without a record of it, none is believed to be there that is not,
\* and each was themed and rasterized as the deck believes ("the deck still
\* believing its data resident, and so never re-transmitting", page_deck.rs).
ResidentIsHeld ==
    /\ DOMAIN deck.resident = DOMAIN term.data
    /\ \A s \in DOMAIN term.data :
           /\ term.data[s].policy = deck.resident[s].policy
           /\ term.data[s].raster = deck.resident[s].raster

\* What the deck believes it shows is what is on the screen, page for page,
\* at the place and in the shape asked for, even on a terminal that leaves
\* an image alone when it is placed again in another shape.
ShownIsPlaced ==
    /\ DOMAIN term.placed = SectionsOf(deck.shown)
    /\ \A i \in DOMAIN deck.shown :
           term.placed[deck.shown[i].section] = AsPlaced(deck.shown[i])

\* Every page on screen is cut out of the raster its crop was computed
\* against, and themed like the rest of the frame: a spread never mixes
\* themes and a zoomed page's crop never indexes the base raster.
CropsFitTheirPage ==
    \A s \in DOMAIN term.placed :
        /\ s \in DOMAIN term.data
        /\ term.data[s].raster = term.placed[s].raster
        /\ term.data[s].policy = deck.policy

\* The screen is what the deck believes, and each page of it is cut out of the
\* right raster.
ScreenTrue == ShownIsPlaced /\ CropsFitTheirPage

=============================================================================
