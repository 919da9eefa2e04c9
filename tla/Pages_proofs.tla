---------------------------- MODULE Pages_proofs ----------------------------
(***************************************************************************)
(* The deck of full pages, on its own (PageDeck) and driven by the reader  *)
(* and the event loop (PageView): for any book, spread, themes, rasters,   *)
(* terminal and bounds.                                                    *)
(***************************************************************************)
EXTENDS PageView, TLAPS

----------------------------------------------------------------------------
(* The deck never loses track of the terminal.                             *)
(*                                                                         *)
(* The invariant is stated of any deck and terminal, not of the variables  *)
(* alone: one drawn frame may clear the screen and render, two operations  *)
(* in one step.  It adds to the properties what a shown page's resident    *)
(* bytes are known to match (`Coherent`): without it nothing would say     *)
(* that a page reused at its next place is in the shape the terminal last  *)
(* drew, or themed like the frame it joins.                                *)

Typed(d, t) ==
    /\ d.shown \in TargetSeq
    /\ DOMAIN d.resident \subseteq Sections
    /\ \A s \in DOMAIN d.resident : d.resident[s] \in Residency
    /\ d.policy \in Policies \cup {None}
    /\ DOMAIN t.data \subseteq Sections
    /\ \A s \in DOMAIN t.data : t.data[s] \in Content
    /\ DOMAIN t.placed \subseteq Sections
    /\ \A s \in DOMAIN t.placed : t.placed[s] \in Placement

Known(d, t) ==
    /\ DOMAIN d.resident = DOMAIN t.data
    /\ \A s \in DOMAIN t.data :
           /\ t.data[s].policy = d.resident[s].policy
           /\ t.data[s].raster = d.resident[s].raster

Arrived(d, t) ==
    /\ DOMAIN t.placed = SectionsOf(d.shown)
    /\ \A i \in DOMAIN d.shown : t.placed[d.shown[i].section] = AsPlaced(d.shown[i])

Coherent(d) ==
    d.shown # <<>> =>
        /\ DOMAIN d.resident = SectionsOf(d.shown)
        /\ \A i \in DOMAIN d.shown :
               d.resident[d.shown[i].section] = Needed(d.shown[i], d.policy)

Fit(d, t) == Typed(d, t) /\ Known(d, t) /\ Arrived(d, t) /\ Coherent(d)
DeckInv == Fit(deck, term)

\* Bytes handed to a render are the target's, or there are none yet.
Serving(png, ts, p) ==
    \A s \in SectionsOf(ts) :
        png[s] # None => /\ png[s] \in Content
                         /\ png[s].policy = p /\ png[s].raster = TargetOf(ts, s).raster

\* A frame's targets are found again by their section.
LEMMA TargetFound ==
    ASSUME NEW ts \in TargetSeq, NEW i \in DOMAIN ts
    PROVE  TargetOf(ts, ts[i].section) = ts[i] /\ ts[i] \in Target
<1>1. PICK n \in 0 .. MaxTargets : ts \in [1 .. n -> Target]
  BY DEF TargetSeq
<1>2. ts[i] \in Target
  BY <1>1
<1>3. PICK j \in DOMAIN ts : j = CHOOSE k \in DOMAIN ts : ts[k].section = ts[i].section
  OBVIOUS
<1>4. ts[j].section = ts[i].section
  BY <1>3
<1>5. j = i
  BY <1>4 DEF TargetSeq
<1> QED BY <1>2, <1>3, <1>5 DEF TargetOf

\* Every section a frame names is some target's, and is a section.
LEMMA SectionNamed ==
    ASSUME NEW ts \in TargetSeq, NEW s \in SectionsOf(ts)
    PROVE  /\ TargetOf(ts, s) \in Target
           /\ TargetOf(ts, s).section = s
           /\ s \in Sections
<1>1. PICK i \in DOMAIN ts : s = ts[i].section
  BY DEF SectionsOf
<1>2. TargetOf(ts, s) = ts[i] /\ ts[i] \in Target
  BY <1>1, TargetFound
<1> QED BY <1>1, <1>2 DEF Target

\* What a target needs resident is a residency.
LEMMA NeededType ==
    ASSUME NEW t \in Target, NEW p \in Policies
    PROVE  /\ Needed(t, p) \in Residency
           /\ Needed(t, p).policy = p /\ Needed(t, p).raster = t.raster
           /\ RetransmitMoves => Needed(t, p).shape = t.shape
BY PageDeckAssumption DEF Needed, Residency, Target

\* A placement asked for is one the terminal can hold.
LEMMA PlacementType ==
    ASSUME NEW t \in Target
    PROVE  /\ AsPlaced(t) \in Placement
           /\ AsPlaced(t).raster = t.raster /\ AsPlaced(t).shape = t.shape
BY DEF AsPlaced, Placement, Target

\* The bytes PageDeck's caller serves are those of the targets they are for.
LEMMA ServedBytes ==
    ASSUME NEW ts \in TargetSeq, NEW p \in Policies, NEW b \in Books, NEW ready \in SUBSET Sections
    PROVE  Serving(Serves(ts, p, b, ready), ts, p)
<1> SUFFICES ASSUME NEW s \in SectionsOf(ts), Serves(ts, p, b, ready)[s] # None
             PROVE  /\ Serves(ts, p, b, ready)[s] \in Content
                    /\ Serves(ts, p, b, ready)[s].policy = p
                    /\ Serves(ts, p, b, ready)[s].raster = TargetOf(ts, s).raster
  BY DEF Serving
<1>1. TargetOf(ts, s) \in Target /\ s \in Sections
  BY SectionNamed
<1> QED BY <1>1 DEF Serves, Content, Target

\* Only pages with resident bytes are on the screen.
LEMMA PlacedAreResident ==
    ASSUME NEW d, NEW t, Fit(d, t)
    PROVE  DOMAIN t.placed \subseteq DOMAIN d.resident
<1> SUFFICES ASSUME NEW s \in DOMAIN t.placed PROVE s \in DOMAIN d.resident
  OBVIOUS
<1>1. PICK i \in DOMAIN d.shown : s = d.shown[i].section
  BY DEF Fit, Arrived, SectionsOf
<1>2. d.shown # <<>>
  BY <1>1
<1> QED BY <1>1, <1>2 DEF Fit, Coherent, SectionsOf

\* Moving a page whose bytes are reused puts it where it was asked for: on a
\* terminal that would leave it alone its shape has not changed.
LEMMA MoveArrives ==
    ASSUME NEW d, NEW t, Fit(d, t),
           NEW ts \in TargetSeq, NEW p \in Policies, NEW s \in SectionsOf(ts)
    PROVE  Moved(t, Freed(d, ts, p), s, AsPlaced(TargetOf(ts, s))) = AsPlaced(TargetOf(ts, s))
<1> DEFINE to == TargetOf(ts, s)
           gone == Freed(d, ts, p)
<1>1. to \in Target /\ s \in Sections
  BY SectionNamed
<1>2. AsPlaced(to).shape = to.shape
  BY <1>1, PlacementType
<1> SUFFICES ASSUME FrozenShapes, s \in DOMAIN t.placed \ gone
             PROVE  t.placed[s].shape = AsPlaced(to).shape
  BY DEF Moved
<1>3. PICK i \in DOMAIN d.shown : s = d.shown[i].section
  BY DEF Fit, Arrived, SectionsOf
<1>4. d.shown \in TargetSeq /\ d.shown[i] \in Target
  BY <1>3, TargetFound DEF Fit, Typed
<1>5. d.shown # <<>>
  BY <1>3
<1>6. s \in DOMAIN d.resident /\ d.resident[s] = Needed(d.shown[i], d.policy)
  BY <1>3, <1>5 DEF Fit, Coherent, SectionsOf
<1>7. d.resident[s] = Needed(to, p)
  BY <1>6 DEF Freed, Reusable
<1>8. RetransmitMoves
  BY MovesDetected
<1>9. d.resident[s].shape = to.shape
  BY <1>1, <1>7, <1>8, NeededType
<1>10. d.resident[s].shape = d.shown[i].shape
  BY <1>6, <1>8 DEF Needed
<1>11. t.placed[s] = AsPlaced(d.shown[i])
  BY <1>3 DEF Fit, Arrived
<1> QED BY <1>2, <1>4, <1>9, <1>10, <1>11, PlacementType

\* What one render leaves on the screen when it goes through.
LEMMA RenderPlaces ==
    ASSUME NEW d, NEW t, Fit(d, t), NEW ts \in TargetSeq, NEW p \in Policies
    PROVE  /\ DOMAIN PlacedAfter(d, t, ts, p) = SectionsOf(ts)
           /\ \A s \in SectionsOf(ts) :
                  PlacedAfter(d, t, ts, p)[s] = AsPlaced(TargetOf(ts, s))
<1>1. DOMAIN t.placed \subseteq DOMAIN d.resident
  BY PlacedAreResident
<1>2. DOMAIN t.placed \ Freed(d, ts, p) \subseteq SectionsOf(ts)
  BY <1>1 DEF Freed, Reusable
<1>3. DOMAIN PlacedAfter(d, t, ts, p) = SectionsOf(ts)
  BY <1>2 DEF PlacedAfter
<1>4. ASSUME NEW s \in SectionsOf(ts)
      PROVE  PlacedAfter(d, t, ts, p)[s] = AsPlaced(TargetOf(ts, s))
  BY MoveArrives DEF PlacedAfter
<1> QED BY <1>3, <1>4

\* After a render the terminal has every section of the frame, rendered for it.
LEMMA RenderFills ==
    ASSUME NEW d, NEW t, Fit(d, t), NEW ts \in TargetSeq, NEW p \in Policies,
           NEW png, Serving(png, ts, p), ~Held(d, ts, p, png)
    PROVE  LET after == DataAfter(d, t, ts, p, png)
           IN  /\ DOMAIN after = SectionsOf(ts)
               /\ \A s \in SectionsOf(ts) :
                      /\ after[s] \in Content
                      /\ after[s].policy = p
                      /\ after[s].raster = TargetOf(ts, s).raster
<1> DEFINE after == DataAfter(d, t, ts, p, png)
<1>1. DOMAIN t.data = DOMAIN d.resident
  BY DEF Fit, Known
<1>2. DOMAIN after = SectionsOf(ts)
  BY <1>1 DEF DataAfter, Freed, Reusable
<1>3. ASSUME NEW s \in SectionsOf(ts)
      PROVE  /\ after[s] \in Content
             /\ after[s].policy = p
             /\ after[s].raster = TargetOf(ts, s).raster
  <2>1. CASE s \in Reusable(d, ts, p)
    <3>1. s \in DOMAIN t.data /\ d.resident[s] = Needed(TargetOf(ts, s), p)
      BY <1>1, <2>1 DEF Reusable
    <3>2. after[s] = t.data[s]
      BY <2>1, <3>1 DEF DataAfter
    <3>3. TargetOf(ts, s) \in Target
      BY SectionNamed
    <3>4. d.resident[s].policy = p /\ d.resident[s].raster = TargetOf(ts, s).raster
      BY <3>1, <3>3, NeededType
    <3> QED BY <3>1, <3>2, <3>4 DEF Fit, Typed, Known
  <2>2. CASE s \notin Reusable(d, ts, p)
    <3>1. after[s] = png[s]
      BY <2>2 DEF DataAfter
    <3>2. png[s] # None
      BY <2>2 DEF Held
    <3> QED BY <3>1, <3>2 DEF Serving
  <2> QED BY <2>1, <2>2
<1> QED BY <1>2, <1>3

\* A render keeps the deck's record true.
LEMMA RenderKeeps ==
    ASSUME NEW d, NEW t, Fit(d, t), NEW ts \in TargetSeq, NEW p \in Policies,
           NEW png, Serving(png, ts, p)
    PROVE  Fit(RenderedDeck(d, ts, p, png), RenderedTerm(d, t, ts, p, png))
<1>1. CASE Shows(d, ts, p) \/ Held(d, ts, p, png)
  <2>1. RenderedDeck(d, ts, p, png) = d /\ RenderedTerm(d, t, ts, p, png) = t
    BY <1>1 DEF RenderedDeck, RenderedTerm
  <2> QED BY <2>1
<1>2. CASE ~(Shows(d, ts, p) \/ Held(d, ts, p, png))
  <2> DEFINE data == DataAfter(d, t, ts, p, png)
             placed == PlacedAfter(d, t, ts, p)
             newDeck == RenderedDeck(d, ts, p, png)
             newTerm == RenderedTerm(d, t, ts, p, png)
  <2>1. /\ newDeck.shown = ts /\ newDeck.policy = p
        /\ newDeck.resident = [s \in SectionsOf(ts) |-> Needed(TargetOf(ts, s), p)]
        /\ newTerm.data = data /\ newTerm.placed = placed
    BY <1>2 DEF RenderedDeck, RenderedTerm
  <2>2. /\ DOMAIN data = SectionsOf(ts)
        /\ \A s \in SectionsOf(ts) : /\ data[s] \in Content
                                     /\ data[s].policy = p
                                     /\ data[s].raster = TargetOf(ts, s).raster
    BY <1>2, RenderFills
  <2>3. /\ DOMAIN placed = SectionsOf(ts)
        /\ \A s \in SectionsOf(ts) : placed[s] = AsPlaced(TargetOf(ts, s))
    BY RenderPlaces
  <2> HIDE DEF data, placed, newDeck, newTerm
  <2>4. \A s \in SectionsOf(ts) : /\ TargetOf(ts, s) \in Target /\ s \in Sections
                                  /\ Needed(TargetOf(ts, s), p) \in Residency
                                  /\ Needed(TargetOf(ts, s), p).policy = p
                                  /\ Needed(TargetOf(ts, s), p).raster = TargetOf(ts, s).raster
                                  /\ AsPlaced(TargetOf(ts, s)) \in Placement
    BY SectionNamed, NeededType, PlacementType
  <2>5. \A i \in DOMAIN ts : ts[i].section \in SectionsOf(ts)
                             /\ TargetOf(ts, ts[i].section) = ts[i]
    BY TargetFound DEF SectionsOf
  <2>6. Typed(newDeck, newTerm)
    BY <2>1, <2>2, <2>3, <2>4 DEF Typed
  <2>7. Known(newDeck, newTerm)
    BY <2>1, <2>2, <2>4 DEF Known
  <2>8. Arrived(newDeck, newTerm)
    BY <2>1, <2>3, <2>5 DEF Arrived
  <2>9. Coherent(newDeck)
    BY <2>1, <2>5 DEF Coherent
  <2>10. Fit(newDeck, newTerm)
    BY <2>6, <2>7, <2>8, <2>9 DEF Fit
  <2> QED BY <2>10 DEF newDeck, newTerm
<1> QED BY <1>1, <1>2

\* A deck that shows nothing.
LEMMA NothingShown == <<>> \in TargetSeq /\ SectionsOf(<<>>) = {} /\ DOMAIN Nothing = {}
BY PageDeckAssumption DEF TargetSeq, SectionsOf, Nothing

\* Wiping the screen and staging the pages anew keeps the record true.
LEMMA RestageKeeps ==
    ASSUME NEW d, NEW t, Fit(d, t)
    PROVE  Fit(RestagedDeck(d), WipedTerm(t))
<1> DEFINE nd == RestagedDeck(d)
           nt == WipedTerm(t)
<1>1. /\ nd.shown = <<>> /\ nd.resident = d.resident /\ nd.policy = None
      /\ nt.data = t.data /\ nt.placed = Nothing
  BY DEF RestagedDeck, WipedTerm
<1> HIDE DEF nd, nt
<1>2. Typed(nd, nt)
  BY <1>1, NothingShown DEF Fit, Typed
<1>3. Known(nd, nt)
  BY <1>1 DEF Fit, Known
<1>4. Arrived(nd, nt)
  BY <1>1, NothingShown DEF Arrived
<1>5. Coherent(nd)
  BY <1>1 DEF Coherent
<1>6. Fit(nd, nt)
  BY <1>2, <1>3, <1>4, <1>5 DEF Fit
<1> QED BY <1>6 DEF nd, nt

\* So does taking the pages down.
LEMMA ClearKeeps ==
    ASSUME NEW d, NEW t, Fit(d, t)
    PROVE  Fit(ClearedDeck(d), ClearedTerm(d, t)) /\ DOMAIN ClearedTerm(d, t).placed = {}
<1> DEFINE nd == ClearedDeck(d)
           nt == ClearedTerm(d, t)
<1>1. /\ nd.shown = <<>> /\ nd.resident = Nothing /\ nd.policy = None
      /\ nt.data = [s \in DOMAIN t.data \ DOMAIN d.resident |-> t.data[s]]
      /\ nt.placed = [s \in DOMAIN t.placed \ DOMAIN d.resident |-> t.placed[s]]
  BY DEF ClearedDeck, ClearedTerm
<1> HIDE DEF nd, nt
<1>2. DOMAIN nt.data = {}
  BY <1>1 DEF Fit, Known
<1>3. DOMAIN nt.placed = {}
  BY <1>1, PlacedAreResident
<1>4. Typed(nd, nt)
  BY <1>1, <1>2, <1>3, NothingShown DEF Typed
<1>5. Known(nd, nt)
  BY <1>1, <1>2, NothingShown DEF Known
<1>6. Arrived(nd, nt)
  BY <1>1, <1>3, NothingShown DEF Arrived
<1>7. Coherent(nd)
  BY <1>1 DEF Coherent
<1>8. Fit(nd, nt)
  BY <1>4, <1>5, <1>6, <1>7 DEF Fit
<1> QED BY <1>3, <1>8 DEF nd, nt

\* A deck and a terminal that hold nothing fit each other.
LEMMA DeckStarts == DeckInit => DeckInv
<1> SUFFICES ASSUME DeckInit PROVE DeckInv
  OBVIOUS
<1>1. /\ deck.shown = <<>> /\ deck.resident = Nothing /\ deck.policy = None
      /\ term.data = Nothing /\ term.placed = Nothing
  BY DEF DeckInit
<1> QED BY <1>1, NothingShown DEF DeckInv, Fit, Typed, Known, Arrived, Coherent

\* The invariant holds of every behaviour of the deck, for any targets, on
\* either kind of terminal.
THEOREM DeckInvariance == DeckSpec => []DeckInv
<1>1. DeckInv /\ [DeckNext]_<<deck, term>> => DeckInv'
  <2> SUFFICES ASSUME DeckInv, [DeckNext]_<<deck, term>> PROVE DeckInv'
    OBVIOUS
  <2>1. ASSUME NEW ts \in TargetSeq, NEW p \in Policies, NEW b \in Books,
               NEW ready \in SUBSET Sections, Render(ts, p, Serves(ts, p, b, ready))
        PROVE  DeckInv'
    <3> DEFINE png == Serves(ts, p, b, ready)
    <3>1. Serving(png, ts, p)
      BY ServedBytes
    <3>2. deck' = RenderedDeck(deck, ts, p, png) /\ term' = RenderedTerm(deck, term, ts, p, png)
      BY <2>1 DEF Render
    <3> HIDE DEF png
    <3> QED BY <3>1, <3>2, RenderKeeps DEF DeckInv
  <2>2. CASE Restage
    BY <2>2, RestageKeeps DEF Restage, DeckInv
  <2>3. CASE Clear
    BY <2>3, ClearKeeps DEF Clear, DeckInv
  <2>4. CASE UNCHANGED <<deck, term>>
    BY <2>4 DEF DeckInv
  <2> QED BY <2>1, <2>2, <2>3, <2>4 DEF DeckNext
<1> QED BY <1>1, DeckStarts, PTL DEF DeckSpec

\* What the invariant says of the deck's properties.
LEMMA DeckImplies == DeckInv => TypeOK /\ ResidentIsHeld /\ ScreenTrue
<1> SUFFICES ASSUME DeckInv PROVE TypeOK /\ ResidentIsHeld /\ ScreenTrue
  OBVIOUS
<1>1. TypeOK
  BY DEF DeckInv, Fit, Typed, TypeOK
<1>2. ResidentIsHeld
  BY DEF DeckInv, Fit, Known, ResidentIsHeld
<1>3. ShownIsPlaced
  BY DEF DeckInv, Fit, Arrived, ShownIsPlaced
<1>4. CropsFitTheirPage
  <2> SUFFICES ASSUME NEW s \in DOMAIN term.placed
               PROVE  /\ s \in DOMAIN term.data
                      /\ term.data[s].raster = term.placed[s].raster
                      /\ term.data[s].policy = deck.policy
    BY DEF CropsFitTheirPage
  <2>1. PICK i \in DOMAIN deck.shown : s = deck.shown[i].section
    BY <1>3 DEF ShownIsPlaced, SectionsOf
  <2>2. deck.shown # <<>>
    BY <2>1
  <2>3. deck.shown[i] \in Target
    BY <1>1, <2>1, TargetFound DEF TypeOK
  <2>4. s \in DOMAIN deck.resident /\ deck.resident[s] = Needed(deck.shown[i], deck.policy)
    BY <2>1, <2>2 DEF DeckInv, Fit, Coherent, SectionsOf
  <2>5. deck.resident[s].policy = deck.policy /\ deck.resident[s].raster = deck.shown[i].raster
    BY <2>4 DEF Needed
  <2>6. s \in DOMAIN term.data /\ term.data[s].policy = deck.resident[s].policy
                               /\ term.data[s].raster = deck.resident[s].raster
    BY <1>2, <2>4 DEF ResidentIsHeld
  <2>7. term.placed[s].raster = deck.shown[i].raster
    BY <1>3, <2>1, <2>3, PlacementType DEF ShownIsPlaced
  <2> QED BY <2>5, <2>6, <2>7
<1> QED BY <1>1, <1>2, <1>3, <1>4 DEF ScreenTrue

\* The deck's record and the terminal's contents keep their shapes.
THEOREM DeckTypes == DeckSpec => []TypeOK
BY DeckImplies, DeckInvariance, PTL

\* `resident` is exactly what the terminal holds.
THEOREM ResidentKnown == DeckSpec => []ResidentIsHeld
BY DeckImplies, DeckInvariance, PTL

\* What the deck believes it shows is on the screen, in the shape asked for.
THEOREM ShownArrives == DeckSpec => []ShownIsPlaced
<1>1. DeckInv => ShownIsPlaced
  BY DeckImplies DEF ScreenTrue
<1> QED BY <1>1, DeckInvariance, PTL

\* Every page on screen is cropped from its own raster, under one theme.
THEOREM CropsFit == DeckSpec => []CropsFitTheirPage
<1>1. DeckInv => CropsFitTheirPage
  BY DeckImplies DEF ScreenTrue
<1> QED BY <1>1, DeckInvariance, PTL

\* Both: the screen is what the deck believes, cut out of the right rasters.
THEOREM ScreenIsTrue == DeckSpec => []ScreenTrue
BY DeckImplies, DeckInvariance, PTL

----------------------------------------------------------------------------
(* A frame of the reader's.                                                *)
(*                                                                         *)
(* A frame's targets are the pages in view, all of a spread or none of it, *)
(* each in the raster the frame chose; the bytes page_png finds for them   *)
(* are of that raster, because a page counts as crisp only in a frame      *)
(* whose bytes are there.                                                  *)

\* The pages of the spread that s belongs to.
Spread(s) == {Left(s) + i : i \in 0 .. Span - 1} \cap Sections

\* What the pages and rasters of the reader keep a record of.
Recorded ==
    /\ DOMAIN pages = {"policy", "themed", "requested"}
    /\ DOMAIN crisp = {"rasters", "requested", "failed", "effective"}

Reading ==
    /\ book \in Books /\ section \in Sections /\ skin \in Policies
    /\ view \in Views /\ chrome \in BOOLEAN
    /\ Recorded

\* Pages on screen make up a spread.
Whole(d) == d.shown # <<>> => \E s \in Sections : SectionsOf(d.shown) = Spread(s)

ViewInv == Reading /\ DeckInv /\ Whole(deck)

\* The left page of a spread, and how many pages stand there.
LEMMA LeftIs ==
    ASSUME NEW s \in Sections
    PROVE  /\ Left(s) \in Nat /\ Left(s) <= s /\ s < Left(s) + Span
           /\ NumSections \in Nat /\ Left(s) < NumSections
           /\ Sections = 0 .. NumSections - 1
<1>1. s \in Nat /\ s < NumSections /\ NumSections \in Nat /\ Sections = 0 .. NumSections - 1
  BY PageViewAssumption
<1>2. CASE Span = 1
  BY <1>1, <1>2 DEF Left
<1>3. CASE Span = 2
  <2>1. s % 2 \in {0, 1} /\ s % 2 <= s
    BY <1>1
  <2>2. Left(s) = s - (s % 2)
    BY <1>3 DEF Left
  <2> QED BY <1>1, <1>3, <2>1, <2>2
<1> QED BY <1>2, <1>3, PageViewAssumption

\* The pages in view are the spread, each once.
LEMMA VisibleIs ==
    ASSUME section \in Sections
    PROVE  /\ DOMAIN Visible \in {1 .. 1, 1 .. Span} /\ 1 \in DOMAIN Visible
           /\ \A i \in DOMAIN Visible : Visible[i] = Left(section) + i - 1
           /\ \A i \in DOMAIN Visible : Visible[i] \in Sections
           /\ {Visible[i] : i \in DOMAIN Visible} = Spread(section)
<1> DEFINE n == IF Left(section) + Span <= NumSections THEN Span ELSE 1
           L == Left(section)
<1>1. /\ L \in Nat /\ L < NumSections /\ NumSections \in Nat /\ Sections = 0 .. NumSections - 1
      /\ Span \in {1, 2} /\ n \in {1, Span}
  BY LeftIs, PageViewAssumption
<1>2. /\ DOMAIN Visible = 1 .. n
      /\ \A i \in 1 .. n : Visible[i] = L + i - 1
  BY DEF Visible
<1>3. n = 1 \/ (n = 2 /\ Span = 2 /\ L + 2 <= NumSections)
  BY <1>1
<1>4. n = 1 => Span = 1 \/ L + 1 = NumSections
  BY <1>1
<1> HIDE DEF L, n
<1>5. \A i \in 1 .. n : L + i - 1 \in Sections
  BY <1>1, <1>3
<1>6. {Visible[i] : i \in DOMAIN Visible} = {L + i : i \in 0 .. Span - 1} \cap Sections
  <2>1. CASE n = 1
    <3>1. {Visible[i] : i \in DOMAIN Visible} = {L}
      <4>1. 1 .. n = {1} /\ L + 1 - 1 = L
        BY <1>1, <2>1
      <4> QED BY <1>2, <4>1
    <3>2. {L + i : i \in 0 .. Span - 1} \cap Sections = {L}
      <4>1. CASE Span = 1
        BY <1>1, <4>1
      <4>2. CASE Span = 2 /\ L + 1 = NumSections
        <5>1. 0 .. Span - 1 = {0, 1} /\ L + 0 = L /\ L \in Sections /\ L + 1 \notin Sections
          BY <1>1, <4>2
        <5> QED BY <5>1
      <4> QED BY <1>1, <1>4, <2>1, <4>1, <4>2
    <3> QED BY <3>1, <3>2
  <2>2. CASE n = 2 /\ Span = 2 /\ L + 2 <= NumSections
    <3>1. 1 .. n = {1, 2} /\ L + 1 - 1 = L /\ L + 2 - 1 = L + 1
      BY <1>1, <2>2
    <3>2. 0 .. Span - 1 = {0, 1} /\ L + 0 = L /\ L \in Sections /\ L + 1 \in Sections
      BY <1>1, <2>2
    <3>3. {Visible[i] : i \in DOMAIN Visible} = {L, L + 1}
      BY <1>2, <3>1
    <3> QED BY <3>2, <3>3
  <2> QED BY <1>3, <2>1, <2>2
<1>7. Spread(section) = {L + i : i \in 0 .. Span - 1} \cap Sections
  BY DEF Spread, L
<1>8. 1 \in 1 .. n /\ 1 .. n \in {1 .. 1, 1 .. Span}
  BY <1>1
<1> QED BY <1>2, <1>5, <1>6, <1>7, <1>8 DEF L

\* A frame's targets stand for the spread in view, in the raster it chose.
LEMMA TargetsAre ==
    ASSUME Reading, NEW cr
    PROVE  /\ TargetsFor(cr) \in TargetSeq
           /\ SectionsOf(TargetsFor(cr)) = Spread(section)
           /\ TargetsFor(cr) # <<>>
           /\ \A s \in SectionsOf(TargetsFor(cr)) :
                  TargetOf(TargetsFor(cr), s).raster = IF s \in cr.effective THEN Crisp ELSE Base
<1> DEFINE ts == TargetsFor(cr)
           r(i) == IF Visible[i] \in cr.effective THEN Crisp ELSE Base
           zoom == IF Single THEN view ELSE "fit"
<1>1. /\ DOMAIN Visible \in {1 .. 1, 1 .. Span} /\ 1 \in DOMAIN Visible
      /\ \A i \in DOMAIN Visible : Visible[i] = Left(section) + i - 1
      /\ \A i \in DOMAIN Visible : Visible[i] \in Sections
      /\ {Visible[i] : i \in DOMAIN Visible} = Spread(section)
  BY VisibleIs DEF Reading
<1>2. /\ DOMAIN ts = DOMAIN Visible
      /\ \A i \in DOMAIN Visible :
             ts[i] = [section |-> Visible[i], spot |-> chrome, raster |-> r(i),
                      shape |-> <<chrome, zoom, r(i)>>]
  BY DEF TargetsFor
<1>3. zoom \in Views /\ \A i : r(i) \in Rasters
  BY PageViewAssumption DEF Reading, Views, Base, Crisp
<1> HIDE DEF ts, r, zoom
<1>4. \A i \in DOMAIN ts : ts[i] \in Target /\ ts[i].section = Visible[i] /\ ts[i].raster = r(i)
  <2> SUFFICES ASSUME NEW i \in DOMAIN ts
               PROVE  ts[i] \in Target /\ ts[i].section = Visible[i] /\ ts[i].raster = r(i)
    OBVIOUS
  <2>1. <<chrome, zoom, r(i)>> \in Shapes
    BY <1>3, PageViewAssumption DEF Reading
  <2>2. chrome \in Spots /\ Visible[i] \in Sections /\ r(i) \in Rasters
    BY <1>1, <1>2, <1>3, PageViewAssumption DEF Reading
  <2> QED BY <1>2, <2>1, <2>2 DEF Target
<1>5. \A i, j \in DOMAIN ts : ts[i].section = ts[j].section => i = j
  <2> SUFFICES ASSUME NEW i \in DOMAIN ts, NEW j \in DOMAIN ts, ts[i].section = ts[j].section
               PROVE  i = j
    OBVIOUS
  <2>1. Left(section) + i - 1 = Left(section) + j - 1
    BY <1>1, <1>2, <1>4
  <2>2. DOMAIN Visible \subseteq Nat
    BY <1>1, PageViewAssumption
  <2>3. Left(section) \in Nat /\ i \in Nat /\ j \in Nat
    BY <1>2, <2>2, LeftIs DEF Reading
  <2> QED BY <2>1, <2>3
<1>6. ts \in TargetSeq
  <2>1. PICK n \in 0 .. MaxTargets : DOMAIN ts = 1 .. n
    <3>1. 1 \in 0 .. MaxTargets /\ Span \in 0 .. MaxTargets
      BY PageViewAssumption, PageDeckAssumption
    <3> QED BY <1>1, <1>2, <3>1
  <2>2. ts = [i \in DOMAIN ts |-> ts[i]]
    BY DEF ts, TargetsFor
  <2>3. ts \in [1 .. n -> Target]
    BY <1>4, <2>1, <2>2
  <2> QED BY <1>5, <2>3 DEF TargetSeq
<1>7. SectionsOf(ts) = Spread(section)
  BY <1>1, <1>2, <1>4 DEF SectionsOf
<1>8. ts # <<>>
  BY <1>1, <1>2
<1>9. ASSUME NEW s \in SectionsOf(ts)
      PROVE  TargetOf(ts, s).raster = IF s \in cr.effective THEN Crisp ELSE Base
  <2>1. PICK i \in DOMAIN ts : ts[i].section = s
    BY <1>9 DEF SectionsOf
  <2>2. TargetOf(ts, s) = ts[i]
    BY <1>6, <2>1, TargetFound
  <2> QED BY <1>4, <2>1, <2>2 DEF r
<1> QED BY <1>6, <1>7, <1>8, <1>9 DEF ts

\* Collecting what the workers finished keeps the records' fields.
LEMMA DrainedAre ==
    ASSUME Recorded
    PROVE  /\ DOMAIN ThemedDrained = {"policy", "themed", "requested"}
           /\ DOMAIN CrispDrained = {"rasters", "requested", "failed", "effective"}
<1>1. DOMAIN ThemedDrained = DOMAIN pages
  <2>1. PICK themed, requested :
            ThemedDrained = [pages EXCEPT !.themed = themed, !.requested = requested]
    BY Zenon DEF ThemedDrained
  <2>2. \A e : DOMAIN [e EXCEPT !.requested = requested] = DOMAIN e
    OBVIOUS
  <2>3. DOMAIN [pages EXCEPT !.themed = themed] = DOMAIN pages
    OBVIOUS
  <2> QED BY <2>1, <2>2, <2>3, Zenon
<1>2. DOMAIN CrispDrained = DOMAIN crisp
  <2>1. PICK requested, failed, rasters :
            CrispDrained = [crisp EXCEPT !.requested = requested, !.failed = failed,
                                         !.rasters = rasters]
    BY Zenon DEF CrispDrained
  <2>2. \A e : DOMAIN [e EXCEPT !.rasters = rasters] = DOMAIN e
    OBVIOUS
  <2>3. \A e : DOMAIN [e EXCEPT !.failed = failed] = DOMAIN e
    OBVIOUS
  <2>4. DOMAIN [crisp EXCEPT !.requested = requested] = DOMAIN crisp
    OBVIOUS
  <2> QED BY <2>1, <2>2, <2>3, <2>4, Zenon
<1> QED BY <1>1, <1>2 DEF Recorded

\* What a frame captures: targets for the pages in view or none, and a page
\* chosen crisp only when page_png will find its crisp bytes.
LEMMA CapturedIs ==
    ASSUME Reading
    PROVE  /\ DOMAIN Captured.pages = {"policy", "themed", "requested"}
           /\ DOMAIN Captured.crisp = {"rasters", "requested", "failed", "effective"}
           /\ \A s \in Captured.crisp.effective :
                  HasBytes(Captured.pages, Captured.crisp, s, Crisp)
           /\ Captured.targets \in {<<>>, TargetsFor(Captured.crisp)}
<1> DEFINE synced == [ThemedDrained EXCEPT !.policy = skin]
           wants  == BaseWants(synced)
           pg     == [synced EXCEPT !.requested = @ \cup Range(wants)]
           cr0    == [CrispDrained EXCEPT !.effective = {}]
           cr     == IF ~(AllRastered /\ WantsCrisp) THEN cr0
                     ELSE IF CrispReady(pg, cr0) THEN [cr0 EXCEPT !.effective = {section}]
                     ELSE IF section \in cr0.rasters \cup cr0.failed THEN cr0
                     ELSE [cr0 EXCEPT !.requested = @ \cup {section}]
           sharp  == IF AllRastered /\ WantsCrisp /\ cr.effective = {} THEN CrispWants(pg, cr0)
                     ELSE <<>>
           last   == [pg EXCEPT !.requested = @ \cup Range(sharp)]
<1>1. /\ Captured.pages = last /\ Captured.crisp = cr
      /\ Captured.targets = FrameTargets(cr)
  BY DEF Captured
<1>2. DOMAIN synced = {"policy", "themed", "requested"}
  BY DrainedAre DEF Reading
<1>3. DOMAIN cr0 = {"rasters", "requested", "failed", "effective"} /\ cr0.effective = {}
  BY DrainedAre DEF Reading
<1> HIDE DEF synced, cr0
<1>4. DOMAIN pg = {"policy", "themed", "requested"}
  BY <1>2
<1> HIDE DEF pg
<1>5. DOMAIN last = {"policy", "themed", "requested"} /\ last.themed = pg.themed
  BY <1>4
<1>6. /\ DOMAIN cr = {"rasters", "requested", "failed", "effective"}
      /\ cr.rasters = cr0.rasters
      /\ cr.effective = {} \/ (CrispReady(pg, cr0) /\ cr.effective = {section})
  BY <1>3
<1> HIDE DEF last, cr
<1>7. ASSUME NEW s \in cr.effective
      PROVE  HasBytes(last, cr, s, Crisp)
  <2>1. s = section /\ CrispReady(pg, cr0)
    BY <1>6, <1>7
  <2>2. section \in cr0.rasters
        /\ (Faithfully(skin) \/ Contains(pg.themed, Key(section, Crisp, skin)))
    BY <2>1 DEF CrispReady
  <2>3. Crisp # Base
    BY DEF Crisp, Base
  <2> QED BY <1>5, <1>6, <2>1, <2>2, <2>3 DEF HasBytes
<1>8. FrameTargets(cr) \in {<<>>, TargetsFor(cr)}
  BY DEF FrameTargets
<1> QED BY <1>1, <1>5, <1>6, <1>7, <1>8

\* Whatever page_png finds for a frame's pages is of the raster each was
\* placed against.
LEMMA BytesServe ==
    ASSUME Reading, NEW pg, NEW cr, NEW png,
           png = [s \in Sections |-> PageBytes(pg, cr, s)],
           \A s \in cr.effective : HasBytes(pg, cr, s, Crisp)
    PROVE  Serving(png, TargetsFor(cr), skin)
<1> SUFFICES ASSUME NEW s \in SectionsOf(TargetsFor(cr)), png[s] # None
             PROVE  /\ png[s] \in Content
                    /\ png[s].policy = skin
                    /\ png[s].raster = TargetOf(TargetsFor(cr), s).raster
  BY DEF Serving
<1> DEFINE chosen == IF s \in cr.effective THEN Crisp ELSE Base
<1>1. s \in Sections /\ TargetOf(TargetsFor(cr), s).raster = chosen
  BY TargetsAre, SectionNamed
<1>2. png[s] = PageBytes(pg, cr, s)
  BY <1>1
<1>3. PageBytes(pg, cr, s) \in {None, [book |-> book, policy |-> skin, raster |-> chosen]}
  BY DEF PageBytes
<1>4. chosen \in Rasters
  BY PageViewAssumption DEF Crisp, Base
<1> HIDE DEF chosen
<1>5. png[s] = [book |-> book, policy |-> skin, raster |-> chosen]
  BY <1>2, <1>3
<1> QED BY <1>1, <1>4, <1>5 DEF Content, Reading

----------------------------------------------------------------------------
(* Drawing keeps the screen true and its spreads whole, whatever the frame *)
(* captured and whether or not the screen was wiped first.                 *)

\* Targets a frame may draw: none, or the spread's with their own bytes.
Drawable(ts, png) ==
    \/ ts = <<>>
    \/ /\ ts \in TargetSeq /\ ts # <<>>
       /\ SectionsOf(ts) = Spread(section) /\ Serving(png, ts, skin)

\* What drawing leaves on the screen, from any deck and terminal that fit.
LEMMA EscapesKeep ==
    ASSUME Reading, NEW d, NEW t, Fit(d, t), Whole(d), NEW ts, NEW png, Drawable(ts, png)
    PROVE  /\ Fit(Escapes(d, t, ts, png).deck, Escapes(d, t, ts, png).term)
           /\ Whole(Escapes(d, t, ts, png).deck)
           /\ InPdf /\ DOMAIN t.placed # {} => DOMAIN Escapes(d, t, ts, png).term.placed # {}
<1> DEFINE out == Escapes(d, t, ts, png)
<1>1. CASE ~InPdf
  <2>1. \/ out.deck = d /\ out.term = t
        \/ out.deck = ClearedDeck(d) /\ out.term = ClearedTerm(d, t)
    BY <1>1 DEF Escapes
  <2>2. Whole(ClearedDeck(d))
    BY DEF ClearedDeck, Whole
  <2> HIDE DEF out
  <2>3. Fit(out.deck, out.term) /\ Whole(out.deck)
    BY <2>1, <2>2, ClearKeeps
  <2> QED BY <1>1, <2>3 DEF out
<1>2. CASE InPdf /\ ts = <<>>
  <2>1. out.deck = d /\ out.term = t
    BY <1>2 DEF Escapes
  <2> HIDE DEF out
  <2>2. Fit(out.deck, out.term) /\ Whole(out.deck) /\ out.term.placed = t.placed
    BY <2>1
  <2> QED BY <2>2 DEF out
<1>3. CASE InPdf /\ ts # <<>>
  <2>1. out.deck = RenderedDeck(d, ts, skin, png) /\ out.term = RenderedTerm(d, t, ts, skin, png)
    BY <1>3 DEF Escapes
  <2>2. ts \in TargetSeq /\ SectionsOf(ts) = Spread(section) /\ Serving(png, ts, skin)
        /\ skin \in Policies /\ section \in Sections
    BY <1>3 DEF Drawable, Reading
  <2>3. Fit(RenderedDeck(d, ts, skin, png), RenderedTerm(d, t, ts, skin, png))
    BY <2>2, RenderKeeps
  <2>4. Whole(RenderedDeck(d, ts, skin, png))
    BY <2>2 DEF Whole, RenderedDeck
  <2>5. DOMAIN t.placed # {} => DOMAIN RenderedTerm(d, t, ts, skin, png).placed # {}
    <3>1. SectionsOf(ts) # {}
      <4>1. PICK i \in DOMAIN ts : TRUE
        BY <1>3, <2>2 DEF TargetSeq
      <4> QED BY <4>1 DEF SectionsOf
    <3>2. DOMAIN PlacedAfter(d, t, ts, skin) = SectionsOf(ts)
      BY <2>2, RenderPlaces
    <3> QED BY <3>1, <3>2 DEF RenderedTerm
  <2> HIDE DEF out
  <2>6. Fit(out.deck, out.term) /\ Whole(out.deck)
        /\ (DOMAIN t.placed # {} => DOMAIN out.term.placed # {})
    BY <2>1, <2>3, <2>4, <2>5
  <2> QED BY <2>6 DEF out
<1> QED BY <1>1, <1>2, <1>3

\* A drawn frame, from the deck and the terminal the redraw left.
LEMMA DrawIs ==
    ASSUME ViewInv, Draw
    PROVE  /\ DeckInv' /\ Whole(deck)'
           /\ Recorded'
           /\ ~fullRedraw /\ InPdf /\ DOMAIN term.placed # {} => DOMAIN term'.placed # {}
<1> DEFINE d   == IF fullRedraw THEN RestagedDeck(deck) ELSE deck
           t   == IF fullRedraw THEN WipedTerm(term) ELSE term
           png == [s \in Sections |-> PageBytes(pages', crisp', s)]
           out == Escapes(d, t, targets', png)
<1>1. Reading /\ DeckInv /\ Whole(deck)
  BY DEF ViewInv
<1>2. deck' = out.deck /\ term' = out.term
  BY DEF Draw
<1>3. Fit(d, t)
  <2>1. Fit(RestagedDeck(deck), WipedTerm(term))
    BY <1>1, RestageKeeps DEF DeckInv
  <2> QED BY <1>1, <2>1 DEF DeckInv
<1>4. Whole(d)
  <2>1. Whole(RestagedDeck(deck))
    BY DEF RestagedDeck, Whole
  <2> QED BY <1>1, <2>1
<1> HIDE DEF d, t, png
<1>5. Recorded' /\ (InPdf => Drawable(targets', png))
  <2>1. CASE mode = "Reader"
    <3>1. pages' = Captured.pages /\ crisp' = Captured.crisp /\ targets' = Captured.targets
      BY <2>1 DEF Draw
    <3>2. /\ Recorded'
          /\ \A s \in crisp'.effective : HasBytes(pages', crisp', s, Crisp)
          /\ targets' \in {<<>>, TargetsFor(crisp')}
      BY <1>1, <3>1, CapturedIs DEF Recorded
    <3>3. Serving(png, TargetsFor(crisp'), skin)
      BY <1>1, <3>2, BytesServe DEF png
    <3>4. Drawable(targets', png)
      BY <1>1, <3>2, <3>3, TargetsAre DEF Drawable
    <3> QED BY <3>2, <3>4
  <2>2. CASE mode # "Reader"
    <3>1. UNCHANGED <<pages, crisp>>
      BY <2>2 DEF Draw
    <3> QED BY <1>1, <2>2, <3>1 DEF Reading, Recorded, InPdf
  <2> QED BY <2>1, <2>2
<1>6. /\ Fit(out.deck, out.term) /\ Whole(out.deck)
      /\ InPdf /\ DOMAIN t.placed # {} => DOMAIN out.term.placed # {}
  <2>1. CASE InPdf
    BY <1>1, <1>3, <1>4, <1>5, <2>1, EscapesKeep
  <2>2. CASE ~InPdf
    <3>1. out = Escapes(d, t, <<>>, png)
      BY <2>2 DEF Escapes
    <3>2. Drawable(<<>>, png)
      BY DEF Drawable
    <3> QED BY <1>1, <1>3, <1>4, <2>2, <3>1, <3>2, EscapesKeep
  <2> QED BY <2>1, <2>2
<1> HIDE DEF out
<1>7. DeckInv' /\ Whole(deck)'
  BY <1>2, <1>6 DEF DeckInv, Whole
<1>8. ~fullRedraw /\ InPdf /\ DOMAIN term.placed # {} => DOMAIN term'.placed # {}
  BY <1>2, <1>6 DEF t
<1> QED BY <1>5, <1>7, <1>8

----------------------------------------------------------------------------
(* The invariant, over the reader's handlers, the threads and the loop.    *)

\* A reader that opens has its records.
LEMMA FreshRecords == ASSUME FreshReader PROVE Recorded' /\ view' \in Views
BY DEF FreshReader, Recorded, Views

\* A page turned to is shown at an edge, or fitted.
LEMMA RepannedIs == ASSUME NEW s PROVE Repanned(s) \in Views
BY DEF Repanned, Views

\* A key leaves the screen to the next frame.
LEMMA KeysKeep ==
    ASSUME ViewInv, Flip \/ Jump \/ Restyle \/ Zoom \/ Chrome \/ Modal \/ Leave \/ Open
    PROVE  Reading' /\ UNCHANGED <<deck, term>>
<1>1. Reading
  BY DEF ViewInv
<1>2. CASE Flip
  BY <1>1, <1>2, RepannedIs
  DEF Flip, Press, GoTo, appVars, screenVars, Reading, Recorded
<1>3. CASE Jump
  BY <1>1, <1>3, RepannedIs
  DEF Jump, Press, GoTo, appVars, screenVars, Reading, Recorded
<1>4. CASE Restyle
  BY <1>1, <1>4 DEF Restyle, Press, readerVars, screenVars, Reading, Recorded
<1>5. CASE Zoom
  BY <1>1, <1>5 DEF Zoom, Press, appVars, screenVars, Reading, Recorded
<1>6. CASE Chrome
  BY <1>1, <1>6 DEF Chrome, Press, screenVars, Reading, Recorded
<1>7. CASE Modal
  BY <1>1, <1>7 DEF Modal, Press, readerVars, screenVars, Reading, Recorded
<1>8. CASE Leave
  <2>1. 0 \in Sections
    BY PageViewAssumption
  <2> QED BY <1>1, <1>8, <2>1, FreshRecords DEF Leave, Press, screenVars, Reading
<1>9. CASE Open
  BY <1>1, <1>9, FreshRecords DEF Open, Press, screenVars, Reading
<1> QED BY <1>2, <1>3, <1>4, <1>5, <1>6, <1>7, <1>8, <1>9

\* So do the threads, the clock, and a turn that draws nothing.
LEMMA QuietKeeps ==
    ASSUME ViewInv,
           \/ \E s \in Sections : RasterLands(s) \/ CrispLands(s)
           \/ ThemePage \/ Expire \/ Turn \/ Throttled
    PROVE  Reading' /\ UNCHANGED <<deck, term>>
<1>1. Reading
  BY DEF ViewInv
<1>2. ASSUME NEW s \in Sections, RasterLands(s) \/ CrispLands(s)
      PROVE  Reading' /\ UNCHANGED <<deck, term>>
  BY <1>1, <1>2 DEF RasterLands, CrispLands, appVars, readerVars, screenVars, Reading, Recorded
<1>3. CASE ThemePage \/ Expire \/ Throttled
  BY <1>1, <1>3 DEF ThemePage, Expire, Throttled, appVars, readerVars, screenVars, Reading, Recorded
<1>4. CASE Turn
  <2>1. /\ UNCHANGED <<book, section, skin, view, chrome, deck, term>>
        /\ pages' \in {ThemedDrained, pages} /\ crisp' \in {CrispDrained, crisp}
    BY <1>4 DEF Turn, appVars, screenVars
  <2> QED BY <1>1, <2>1, DrainedAre DEF Reading, Recorded
<1> QED BY <1>2, <1>3, <1>4

\* The invariant, for any book, spread, terminal, themes and bounds.
THEOREM ViewInvariance == Spec => []ViewInv
<1>1. Init => ViewInv
  <2> SUFFICES ASSUME Init PROVE ViewInv
    OBVIOUS
  <2>1. Reading
    BY DEF Init, Reading, Recorded, Views
  <2>2. DeckInv
    BY DeckStarts DEF Init
  <2>3. Whole(deck)
    BY DEF Init, DeckInit, Whole
  <2> QED BY <2>1, <2>2, <2>3 DEF ViewInv
<1>2. ViewInv /\ [Next]_vars => ViewInv'
  <2> SUFFICES ASSUME ViewInv, [Next]_vars PROVE ViewInv'
    OBVIOUS
  <2>1. CASE Draw
    <3>1. UNCHANGED <<book, section, skin, view, chrome>>
      BY <2>1 DEF Draw, appVars
    <3>2. DeckInv' /\ Whole(deck)' /\ Recorded'
      BY <2>1, DrawIs
    <3> QED BY <3>1, <3>2 DEF ViewInv, Reading
  <2>2. ASSUME Reading', UNCHANGED <<deck, term>> PROVE ViewInv'
    BY <2>2 DEF ViewInv, DeckInv, Whole
  <2>3. CASE UNCHANGED vars
    BY <2>2, <2>3 DEF vars, appVars, readerVars, screenVars, ViewInv, Reading, Recorded
  <2> QED BY <2>1, <2>2, <2>3, KeysKeep, QuietKeeps DEF Next
<1> QED BY <1>1, <1>2, PTL DEF Spec

\* Driven by the reader, the deck's record is what the terminal holds.
THEOREM ViewResidentKnown == Spec => []ResidentIsHeld
<1>1. ViewInv => ResidentIsHeld
  BY DeckImplies DEF ViewInv
<1> QED BY <1>1, ViewInvariance, PTL

\* Driven by the reader, the screen is what the deck believes: the bytes
\* page_png finds for a page are those its placement was computed against.
THEOREM ViewScreenIsTrue == Spec => []ScreenTrue
<1>1. ViewInv => ScreenTrue
  BY DeckImplies DEF ViewInv
<1> QED BY <1>1, ViewInvariance, PTL

\* A spread comes and goes whole, and no frame short of a full redraw leaves
\* nothing where it stood.
THEOREM TheViewTurnsWhole == Spec => TurnsWhole
<1>1. ViewInv => SpreadWhole
  <2> SUFFICES ASSUME ViewInv, DOMAIN term.placed # {} PROVE SpreadWhole
    BY DEF SpreadWhole
  <2>1. DOMAIN term.placed = SectionsOf(deck.shown)
    BY DEF ViewInv, DeckInv, Fit, Arrived
  <2>2. deck.shown # <<>>
    BY <2>1, NothingShown
  <2> QED BY <2>1, <2>2 DEF ViewInv, Whole, Spread, SpreadWhole
<1>2. ViewInv /\ [Next]_vars
      => [~fullRedraw /\ InPdf /\ DOMAIN term.placed # {} => DOMAIN term'.placed # {}]_<<term>>
  <2> SUFFICES ASSUME ViewInv, [Next]_vars, ~fullRedraw, InPdf, DOMAIN term.placed # {},
                      term' # term
               PROVE  DOMAIN term'.placed # {}
    OBVIOUS
  <2>1. Draw
    BY KeysKeep, QuietKeeps DEF Next, vars, screenVars
  <2> QED BY <2>1, DrawIs
<1> QED BY <1>1, <1>2, ViewInvariance, PTL DEF Spec, TurnsWhole, TurnNeverBlanks

\* A bare j or k never leaves a page that is not on the screen, unless it
\* cannot be rendered.
THEOREM EveryPassedPageIsSeen == Spec => FlipsFromAPageInView
<1>1. ViewInv /\ [Next]_vars => [Flip => section \in DOMAIN term.placed \/ section \in Broken]_vars
  <2> SUFFICES ASSUME ViewInv, Flip PROVE section \in DOMAIN term.placed \/ section \in Broken
    OBVIOUS
  <2>1. section \in Range(ShownSections) \/ section \in Broken
    BY DEF Flip, FlipReady, Unrenderable
  <2>2. Range(ShownSections) = SectionsOf(deck.shown)
    BY DEF Range, ShownSections, SectionsOf
  <2> QED BY <2>1, <2>2 DEF ViewInv, DeckInv, Fit, Arrived
<1> QED BY <1>1, ViewInvariance, PTL DEF Spec, FlipsFromAPageInView

=============================================================================
