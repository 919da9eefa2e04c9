# A verification development for delryn

delryn is a terminal reader for EPUB, MOBI, HTML and PDF.  Its main thread runs
one event loop; around it worker threads decode sections, build pictures,
theme and rasterize pages, look things up and scan.  Everything they finish
comes back over channels the loop drains at fixed points, and almost everything
that can go wrong is in between: a mark that says "already asked for" and no
answer to clear it, an answer that was overtaken by a change of settings, a
frame nobody asked the loop to draw, a row of the library that a scan read a
moment too early, a popup that opens under a question.

This directory holds TLA+ modules of those parts, the TLC configurations that
check them on small instances, and TLAPS proofs of what matters most for every
value of the constants.  `PROJECT.json` maps every definition to the lines it
models.

    tlc -workers 2 -config Background.cfg MCBackground
    tlapm Pages_proofs.tla

## Inventory

Paths are under `src/crates/`; `app/` is `delryn/src/app/`.

| component | state | operations | talks to | hard because | module |
|---|---|---|---|---|---|
| section cache and loader: `app/reader/state/cache.rs`, `app/reader/mod.rs`, `app/reader/math.rs` | cache of decoded sections, `requested`, two channels, one atomic, process-wide equation settings | load, goto, roll, prefetch, evict, drain, scan the book, invalidate | loader thread; every component that shows text | the loader judges staleness by an atomic the reader moves; dedup by a mark; settings change under requests in flight | `SectionLoader` |
| image worker pool: `delryn-media/src/builder.rs` | two lanes, `closed`, a condition variable, an atomic, a result channel | request, request_priority, set_current, poll, drop; build_loop | inline images | lost wakeups, starvation of a lane, shutdown | `ImageBuilder`, `BuildPool` |
| inline image pipeline: `app/reader/images.rs`, `app/reader/state/images.rs` | image LRU, `requested`, `failed`, the last remap's key | sync_images (drain, remap, prefetch), restage, images_pending | the pool, the event loop | the pool outlives the book; dedup marks; the LRU at its cap; the loop draws only while told to | `ImagePipeline` |
| page deck: `app/page_deck.rs`, `delryn-media/src/kitty.rs` | what is shown, what is resident | render, restage, clear | the terminal's image store | belief and terminal must agree across full redraws, holds, themes and shapes | `PageDeck` |
| PDF page view and event loop: `app/mod.rs`, `main.rs`, `app/reader/{paged,pages,crisp,raster}.rs` | themed and crisp rasters, what is in flight, targets, the bounded wait | keys, one turn (drain, poll, dirty), draw (request, capture, escapes) | loader, page themer, re-rasterizer, deck | four threads land between any two steps; only a draw asks for work; only "dirty" draws | `PageView` |
| book store and library index: `delryn-store/src/{books,progress,annotations}.rs`, `delryn-library/src/lib.rs`, `app/{scan,rename}.rs` | the tables' rows of each path, the scan's place in its walk, the main thread's pending statements | upsert, forget, repoint, save; walk, index, prune, drop strays; rename, trash, add and remove a folder | the file system; the reader; the editor | several statements and no transaction; a scan reads folders, files and rows at different moments, and the program may end between any two | `BookRecords` |
| session, progress, shutdown: `app/mod.rs`, `app/state/session.rs`, `main.rs` | open book, clocks, saved places, banked seconds | open, close, autosave, exit, signal | store, reader | three clocks that restart at different moments; a preview or a failed open beside the session's book | `ReadingSession` |
| reader position, history, continuous reading: `app/reader/{mod,continuous,paged}.rs` | section, line, pending targets, two history stacks | scroll, turn, jump, back, resize | wrapping | the position is resolved a frame later, over chapters shorter than the pane | `ReadingFlow` |
| library view and collections: `app/{library,select,collections,confirm}.rs` | list, cursor, marks by index, sidebar, picker, name field | move, mark, sort, filter, favour, shelve, trash, rename a shelf | store, scan | a refresh replaces the list under every index into it | `LibraryDesk` |
| duplicate books: `delryn-library/src/dedup.rs`, `app/{dup_scan,dup_resolve}.rs`, `delryn-store/src/dups.rs` | links, ignored groups, an overlay with checks, a scan | group, propose, check, delete, ignore, restore, read contents | store, trash | the overlay is of the library as it was | `Duplicates` |
| cover loader: `app/cover_loader.rs`, `app/library.rs` | queue replaced each frame, marks, LRU with terminal images | set_wanted, poll, draw, settle | library grid | the mark goes before the answer comes; a worker may panic; the loop waits while nothing is pending | `CoverLoader` |
| metadata editor and lookups: `app/editor/{mod,lookup}.rs`, `delryn-online` | fields, bulk queue, one receiver, debounce | search, select, preview, apply, save, skip | services, file writer | one receiver for four kinds of request, which outlives its editor | `OnlineEditor` |
| caret, marks, links, searches: `app/reader/{elements,selection,search,anchors}.rs` | positions in wrapped lines | move, mark, recolour, search, follow | wrapping, store | every one of them points into lines a new width replaces | `PageMarks` |
| contents pane: `app/reader/sidebar.rs` | folds, filter, cursor, window | move, fold, filter, click, jump | reader | a cursor that is a row number, rows that come and go | `Contents` |
| settings and configuration: `app/settings.rs`, `delryn-infra/src/config/` | options, rows, filter, folders; the file | edit, reset, preset, load, save | reader's place; a hand with an editor | the file is read whole and replaced whole, and may be damaged in between | `Settings` |
| layout: `delryn-render` and `app/reader/mod.rs` | wrapped lines and the key they were wrapped under | wrap, justify, hyphenate, fold, re-wrap | all that shows text | an optimal breaker, a greedy one, and blocks that may not be broken | `Reflow` |
| popups and dispatch: `app/dispatch`, `app/overlays.rs`, `app/discover.rs`, `app/word_lookup.rs` | overlay, question, finder, fields, prompt | open, close, type, answer, arrive | all | eleven fields below one another's shortcuts; a worker's answer replaces the overlay | `Popups` |
| figure viewer and code browser: `app/overlays.rs`, `app/figure_scan.rs` | list, filter, scopes, cursor, terminal image | open, filter, click, step, go to; merge a section | builder's pool, terminal | the list grows and is renumbered while it is filtered and clicked | `FigureViewer` |
| inline image deck: `app/inline_deck.rs`, `view/reader.rs`, `app/mod.rs` | what is shown, what is resident, the places of each picture | collect, render, restage, clear | pipeline's cache, terminal | one picture in several places, cut off at the edges, over a terminal nobody can read back | `InlineDeck` |
| equations: `delryn-eqn`, `app/reader/math.rs` | scale pools | detect, typeset, break, draw | loader, settings | four sources of unequal worth, a schema with nodes it lowers to others, a fallback below each; the pools' generations matter to the loader and are modelled there | `Equations` (not the sizes) |
| blocks of a section: `delryn-format/src/html` | none: a tree and a list of blocks | walk, classify, extract by role, attach captions, join labels, strip numbers | loader | publishers nest anything in anything, and every pass moves or drops text | `HtmlBlocks` |
| the containers of the formats in `delryn-format`, codecs in `delryn-media`, vocabulary `delryn-model`, the drawing in `delryn/src/{view,ui}` | none, or view-local | pure conversions, drawing, I/O | | nothing concurrent of their own | not modelled |

What makes each modelled component correct:

- loader: what is asked for is answered and shown; no mark outlives its
  request; nothing is decoded twice for one need; the cache is bounded and
  keeps what is on screen; dropping the reader ends the thread.
- pool: no wakeup is lost, a request is in one place, every request is answered
  once, dropping the pool ends the workers.
- pipeline: what is marked as requested is coming; the pictures of the section
  appear without a key; the loop rests afterwards.
- deck and view: what the deck believes resident and shown is what the terminal
  holds and shows; once keys stop the page appears as the settings want it and
  the loop rests; a turn never blanks the screen and a spread is whole.
- records: no book loses its position, notes or edits, or gets another's; a rename
  has each of them whole under one of the two names after any statement; an
  undisturbed scan leaves in the index exactly the files of the folders that it
  could read, and what it could not is read by a later one.
- inline pictures: what the deck believes shown is on the screen and nothing
  besides, and that is what the page has.
- session: time is credited once and to its book; a sudden end costs less than
  an autosave interval; a save never goes to another book.
- flow: the line on screen follows the keys, over chapters, histories and widths.
- desk and duplicates: what the view shows, marks, ticks and proposes is of the
  books there are; a work keeps a copy.
- covers and editor: what is on its way belongs to what is on screen when it
  arrives; images are accounted for; everything rests.
- marks, contents, settings, layout, popups, figures: a position is found again
  after the lines are replaced; a cursor stays on its entry; the reader's
  folders survive a damaged file; no word is lost by wrapping and no breaking is
  costlier than need be; a letter goes to the field with the caret and what a
  popup hid comes back; a selection stays with its figure.

## Modules and how they correspond to the code

    SectionLoader, PageMarks ── SectionLoader_proofs
    BuildPool  <-- implemented by --  ImageBuilder ── ImageBuilder_proofs
    FigureViewer ── ImageBuilder_proofs
        └── used by ImagePipeline ── ImagePipeline_proofs
    InlineDeck ── ImagePipeline_proofs
    PageDeck
        └── extended by PageView ── Pages_proofs
    ReadingSession, Settings, Contents, Popups ── Reader_proofs
    BookRecords, LibraryDesk, Duplicates, ReadingFlow ── Library_proofs
    CoverLoader, OnlineEditor ── Background_proofs
    Reflow, Equations, HtmlBlocks
    DataLemmas: facts about sets of numbers and sequences the proofs share
    Subsequences: filter and retain without recursion
    MC<Module>: constants of the checked instances

Components that share no state are checked in one run: the MC module has a
variable (`suite`, or `axis` where it chooses the environment) that names the
component a behaviour is of, and the others stand still in a state in which
nothing has been asked of them.

A parenthesis "(mutant: ...)" above a definition introduces a variant of it
with a plausible bug; no specification uses it.  It is there to show that the
property it names can fail.

**SectionLoader.**  `Go` is `load`/`goto`/`move_anchor` whole: drain, fetch the
section (asynchronously for a PDF, on the spot for reflowed text), re-point
the loader's atomic, prefetch in the order of travel, evict.  `Roll`,
`ScanBook`, `Poll`, `DrawStack`, `DrawText` are the other places that drain or
ask; `DrawNewSettings` and `DrawAfterShift` are the two invalidations, which
drop the cache *before* draining.  The loader thread is `Recv`, `Judge` (reads
the atomic once), `Decode` (reads the settings), `Answer`, `Hangup`: each
reads or writes shared state once, so interleavings with the reader happen
between any two.  A decoded section is abstracted to the settings it was
decoded under.  Eviction breaks ties either way (hash-map order).

**ImageBuilder** implements **BuildPool**.  The mutex is an atomic step; the
condition variable is the set of workers at `"wait"`; `notify_one` is a step of
its own after the push (the code releases the lock first), spurious wakeups are
allowed, `Drop` sets `closed` and wakes everybody.  BuildPool keeps no queue
and no thread: a request is queued, being built, or answered, and a worker
decides once whether it is stale.  `PoolRefined` is the refinement.

**ImagePipeline** instances BuildPool for the pool and models `sync_images` in
three steps, because answers go on arriving meanwhile: `BeginFrame` (touch what
is on screen), `Drain` (one answer at a time), `EndFrame` (remap, size the
cache, ask for what is missing, prefetch).  The LRU order is abstracted to what
eviction tells apart: pushed this frame, on screen, and the rest.

**PageDeck** models the deck and the terminal it drives: `data` (transmitted
images) and `placed`.  A terminal may ignore a re-placement in another shape
(`FrozenShapes`); the deck then retransmits (`RetransmitMoves`), which is what
`MovesDetected` says of the start-up detection.  What is external here (the
terminal's graphics protocol) is modelled as the code relies on it.

**InlineDeck** is the same question for the pictures inside reflowed text, whose
deck is another.  A frame collects what is in sight (`WantedInline`: column after
column, cut off at its edges) and brings the terminal there (`RenderedInline` with
`RenderedScreen`); the n-th place of a picture has the placement id n, so one that
is repeated less often, or in another shape where those freeze, is freed and sent
again (`StillGood`).  Between frames the text moves, pictures are built and
dropped, popups open, a repaint is asked for and another book is opened.

**PageView** extends PageDeck with everything that feeds it: keys, the turn of
the event loop, the frame, the themer, the re-rasterizer, the bounded wait.
`Turn` is one pass of `run()` up to the draw; `Draw` is the frame with its
capture and its escapes; `Throttled` is the frame limiter.  Which raster of
which page is where is kept; geometry is kept to what tells two placements
apart.

**BookRecords.**  A book is the content of a file; `row`, `progress` and
`notes` hold which book each path's records were made of, so a record in the
wrong place is seen.  Every SQL statement is a step: a removal is `row`, then
`progress`, then `notes`; a rename moves the file first and repoints after
(`MoveFile`, `UiStatement`).  The scan's `Visit`, `Index`, `LookForFile`,
`LookForRoot`, `JobStatement` read the folder list, a file and a row at
different moments.  A folder may not list, a file not answer or not parse, a write
fail: the book keeps the row it had, or none, and is in `job.unread`; a store that
does not open ends the scan at once (`Unopened`).  `Crash` ends the program
between any two statements.  The ghosts say
what the reader made (`has`), which books something outside the program or a
known gap put out of step (`marred`, `littered`) and that nothing interfered
with the scan (`calm`); `RecordsKept` names the gaps, `RenameCarries` says where
the records are while a rename is on its way, and `ScanExact` what an undisturbed
scan leaves: of an unread file no row that would pass for a read one.

**ReadingSession.**  The phases of a turn (`scroll`, `draw`, `tick`) with the
three clocks in half seconds; a record is a section and a line.  The preview of
a duplicate, a failed open and the close that leaves `book_path` set are
actions of their own, as are `Signal`, `OnExit` and `SuddenEnd`.

**ReadingFlow.**  A position is a chapter and a line; a move leaves a pending
target (`pendingFrac`, `pendingBottom`) that the next `Draw` resolves against the
wrapped text of the width in force, after which it snaps in page mode.  `Rolled`
carries a scroll over chapter ends, and the history stacks hold positions.

**LibraryDesk** has the list as the store's query gives it, with the cursor,
the marks and the visual range by index, as in the code; `RefreshDesk` is
`refresh_library`.  **Duplicates** has the union-find of `dedup.rs` (`Root`,
`Union`, `Forest`) over content links, the proposal (`AutoSelect`), the
overlay's checks, and the contents scan's thread.

**CoverLoader.**  The main thread is `drain`, `settle`, `draw`, `pend`; a
worker claims the head of the queue, decodes off the lock, unmarks and sends.
**OnlineEditor** has the one receiver as `Job`, ghosts name the opening of the
editor and the version of the seed an answer was for.  A search of a blank query
returns before it touches anything (`Queries`, `lookup.rs:266`): on the Lookup tab
after a reseed from `Blank` Details, or with fields emptied by hand.

**PageMarks**, **Contents**, **Settings**, **Popups**, **FigureViewer** are
state machines over keys, clicks and frames with the worker answers that reach
them.  One option of `Settings` stands for each kind of option.  **Reflow** is
the wrapping of a section: words and hyphens, greedy and least-cost breaking,
justification, tables, listings, figures, equations with numbers, callouts,
notes, spacing, and the key that decides whether to wrap again.  It is checked
against references: the cheapest breaking is compared with every breaking.

**Equations** follows one formula from the markup to what is drawn.
`DetectEquation` is `detect` with its harvest: which source is kept beside which
picture and which text; `ConvertMathBlock` and `ConvertInlineMath` are what a
block and a line make of that: the typeset nodes, the picture or the text.  A
formula is a tree of MathML elements, each with an ink that names its place;
`ToNodes` is the schema of `delryn-eqn/src/typeset.rs`, `EmitEach` what LaTeX is
emitted for it, `RenderWrapped` the breaking at relations.  `InkKept`: what is
shown has the formula's ink in order, each piece once, but for what a reader
cannot see.

**HtmlBlocks** follows a section from its XHTML to the blocks that wrapping is
given.  A node is a tag, what its class or its text says, and its path from the
body.  `WalkChildren` gathers loose text until a block, `Classify` is the one
classifier with `Extract` for the role it finds, `AttachCaptions` and
`JoinLabels` the two passes over the result.  `EveryWordOnce`: each word, picture
and formula is shown, the words once and in the document's order, but for what
`LeftOut` names: what the parser drops on purpose.

## Runs

| run | what it checks | properties | distinct states |
|---|---|---|---|
| `loader_stack` | suites `stack` (a PDF in the continuous stack), `wrap` (seven sections at two widths under settings toggled), `keys` (popups, fields and questions), `figures` (the viewer under a scan), `inline` (pictures in the text of two books), `equations` (each element of the schema, and each way markup carries a formula, at three widths), `html` (what publishers nest in what, two levels of it) | `SingleFlight` `WindowKept` `StoppedPageArrives` `LoaderEnds` / `KeptByWrapping` / `TypedTextStaysInTheField` `PopupsReturn` / `FiguresAccounted` `SelectionHeld` / `InlineTrue` `SightShown` / `InkKept` / `EveryWordOnce` | 328 thousand |
| `pictures_flow` | continuous mode, a change of geometry, failures, late neighbours, restaging, a second book | `RequestedIsComing` `PicturesAppear` | 63 thousand |
| `view_single` | single pages: flip, jump, zoom, theme, chrome, popup, on a terminal that freezes shapes | `ScreenTrue` `FlipsFromAPageInView` `ComesRight` | 544 thousand |
| `view_facing` | spreads, slow workers, leave and reopen | `ResidentIsHeld` `TurnsWhole` `ViewSettles` | 89 thousand |
| `background` | the image pool and its refinement, the cover loader, the editor's lookups, under fairness | `SleepersNotNeeded` `PoolRefined` `CoversAccounted` `AnswersBelong` `WorkSettles` | 233 thousand |
| `reading_room` | suites `records`, `session`, `flow`, `desk`, `dups` | `IndexSound` / `TimeCounted` `SavesSound` / `PlaceFollows` / `DeskShowsStore` / `ResolverSound` `WorkSurvives` | 3.1 million |
| `terminal` | reflowed text under settings changes; marks and searches over re-wrapped lines; the contents pane; settings and their file | `NoOrphanRequest` `ShownStaysCached` / `MarksFoundAgain` `PagePointers` / `PaneFollows` / `FoldersSurvive` `SettingsSound` | 434 thousand |
| `records_rename`, `pages_turn`, `editor_cover`, `settings_damage`, `pictures_far` | a claim of the documentation the code does not keep (below) | one each | |

Why the bounds are enough.

- The code compares distances, so the loader's radius of 6, look-ahead and
  cache of 15 are scaled down together: with four sections and a radius of 1
  there are sections inside the window, outside the radius, evicted, and asked
  for again.  In `terminal` two sections are on screen or its neighbour, which
  is all the invalidations distinguish, and a cache of 1 evicts at every move.
- Three workers put both lane preferences in the pool with one to spare.
- Three keys of the view are a change of page, of theme or zoom and of one more
  thing before any frame; the loop itself is unbounded.  The themed cache of
  `view_single` holds the look-ahead window and one crisp page, that of
  `view_facing` exactly the window: the assumption the code's comment makes of
  its 32 MiB (see "thrash" below for what happens without it).  `Spare` of the
  pictures is larger than the number of builds that can be out at once: with a
  smaller cache a stale build evicts the picture on screen (see "drain").
- Records: two books, three paths in two folders; two operations of the reader,
  two scans and one fault interleave in every order.  Larger bounds were
  explored by hand on two paths (four operations, one scan, two faults; three
  operations, two scans, two faults).  At four operations they found a gap the
  ghosts now name: a rename onto a path whose row the scan had kept because its
  folder was away.
- Session: an autosave interval of 3 and a life of 5 half seconds put opens,
  moves and ends on both sides of it.  Flow: chapters shorter and longer than
  the pane, four strokes.  Desk and duplicates: four keys each; three covers on
  a wall of one with a cache of two; two hits and five presses in the editor.
- Terminal: five strokes over two chapters of marks, six of the contents pane,
  five of the settings with one edit or damage of their file.  Text: measures
  of 8 and 13 cells, two toggles, words of up to nine letters hyphenated from
  4 to 6 letters, listings folded at three lines.  Popups: eight keys, drafts of
  two letters.  Figures: three chapters, five strokes.  Equations: every element
  over the parts it tells apart, rows of up to three of them, sums that break in
  widths of none, 4 and 9.  Sections: each container over the parts it reads, one
  in another, with walks of blocks and of lines that give up at 4 and 3 levels (128
  in the code).

Every bound is a constant named in its module.  CHECK_DEADLOCK is off where the
system really stops: after the reader, the pool or the program has been left,
or when the bound on keys is used up and nothing is pending.

### Fairness

- Worker threads run: weak fairness on the loader, each pool worker (and on the
  client's step from a push to its `notify_one`), the image workers, the page
  themer and the rasterizers, each cover worker, and the services' answers.
- The event loop turns: its poll times out after at most 250 ms, so `Turn`,
  `Poll`, `Throttled` and the cover grid's steps are weakly fair; a draw is only
  held back by a frame interval, so `Draw`, which is enabled again and again, is
  strongly fair.
- `DrawStack` is weakly fair since the loop draws while pages are loading
  (`pages_loading`); `Frame` in ImagePipeline is only enabled while something is
  dirty or pending.
- The clock advances: `Expire` is weakly fair.
- Nobody is made to press a key.  `RestlessSpec` of PageView adds a user who
  presses keys that change nothing, to separate "nobody drew" from "nobody
  asked".  Records, session, flow, desk, duplicates, marks, contents, settings,
  layout, popups and figures are checked for safety only.

## Proofs

The modules of proofs assume the named assumptions of their constants only,
which hold of the code's constants: sets of sections and books are finite, the
cache has room for one, names are not repeated, and, where a theorem needs it,
`RadiusCoversWindow` (the look-ahead is within the loader's radius) and
`MovesDetected`.  What is proved is proved of the component's own specification,
for every value of its constants; TLC checks the properties on the instances of
the runs, and the inductive invariants behind them are in the proof modules.

| theorem | property | module |
|---|---|---|
| `OneCopyOfEach`, `NoRequestOrphaned`, `ShownCached`, `WindowIsKept`, `MovesBoundTheCache`, `LookAheadKept`, `TypeCorrect` | `SingleFlight`, `NoOrphanRequest`, `ShownStaysCached`, `WindowKept` | SectionLoader_proofs |
| `PointersAreHere`, `MarksInvariance` | `PagePointers` | SectionLoader_proofs |
| `NoWakeupLost`, `Refinement`, `ClosedWakesAll`, `InOnePlace`, `BuilderTypes` | `SleepersNotNeeded`, `PoolRefined` | ImageBuilder_proofs |
| `FigureInvariance`, `SelectionInvariance` | `FiguresAccounted`, `SelectionHeld` | ImageBuilder_proofs |
| `NoPictureForgotten`, `PipelineTypes`; `TheInlineScreenIsTrue`, `InlineInvariance` | `RequestedIsComing`; `InlineTrue` | ImagePipeline_proofs |
| `ResidentKnown`, `ScreenIsTrue`, `ShownArrives`, `CropsFit`, `DeckTypes`; `ViewResidentKnown`, `ViewScreenIsTrue` | `ResidentIsHeld`, `ScreenTrue` | Pages_proofs |
| `TheViewTurnsWhole`, `EveryPassedPageIsSeen` | `TurnsWhole`, `FlipsFromAPageInView` | Pages_proofs |
| `ReadingTimeCounted`, `SavesAreSound`, `SessionTypes`; `NoFolderLost` | `TimeCounted`, `SavesSound`; `FoldersSurvive` | Reader_proofs |
| `TheSettingsAreSound`, `SettingsInvariance` | `SettingsSound` | Reader_proofs |
| `ThePaneFollows`; `PopupsComeBack`, `TheFieldTakesTheText` | `PaneFollows`; `PopupsReturn`, `TypedTextStaysInTheField` | Reader_proofs |
| `TheIndexIsSound` | `IndexSound` | Library_proofs |
| `TheDeskShowsTheStore`; `ResolverIsSound`, `AWorkSurvives` | `DeskShowsStore`; `ResolverSound`, `WorkSurvives` | Library_proofs |
| `ThePlaceFollows`, `FramesFollowOneAnother`, `FlowInvariance` | `PlaceFollows` | Library_proofs |
| `NoImageLost`, `CoverTypes`; `AnswersAreTheirs` | `CoversAccounted`; `AnswersBelong` | Background_proofs |

**SectionLoader_proofs.**  The inductive invariant is `Inv`: the types, every
mark in `requested` has its request in the channel, at the loader or answered
(`NoOrphanRequest`), reflowed text has the section on screen in the cache
(`ShownStaysCached`), and `loaderCurrent = section`.  The last conjunct is what
relates the loader's judgement to the reader and is needed for `LookAheadKept`;
without the types nothing could be said of what a drain adds.  Each action is a
lemma over `AskSends` (what asking and evicting does to marks and channel) and
`DrainedIsCache`.  `OneCopyOfEach` counts: the copies of a section in channel,
loader and answers are at most one, which the marks bound.

The marks need `MarksInv`: where the page is (`PlaceFits`: lines that have not
been replaced are the chapter's own), the link cursor on a link of lines that
still hold (`CursorFits`), the matches of the search at places of the book, since
a step of it goes there (`SearchFits`), a caret and an anchor that are somewhere
(`CaretFits`), badges of figures that open in the chapter (`BadgesFit`), and, of a
caret that was just moved, that the page was drawn and rests where the frame will
leave it (`CaretSeen`): a caret in view alone is lost by the frame's clamp.  A
chapter change breaks the cursor and the badges unless `Load` drops them, and a
link or a match leads to a chapter only by `BookAssumption`.  What `FlattenSeq` and
`Ascending` return is proved too: their CHOOSE is of a recursion that
`FlattenedTo` shows to have a solution.

**ImageBuilder_proofs.**  `Inv` is the types, `OnePlace`, `NobodySleepsOnClosed` and
`SleepersNotNeeded` with `Holding` (a worker past the lock holds a request).  The
lanes are sequences: `LaneGrows` and `LaneShrinks` say what a push and a take do to
them, and `OneMoves` what a worker's step does to the sets of workers by program
counter, whose sizes are what `SleepersNotNeeded` counts.  `SleepersNotNeeded`
needs the closed case, in which a worker leaves without waking anybody.  In
`Refinement` a request counts as queued until it is judged, so entering,
sleeping and waking are stutters; that a job leaves BuildPool's hands when it is
answered, and a request its queue when it is judged, needs `OnePlace`.

The same module has the figure viewer, which shares no state with the pool.
`FigInv` adds to `FiguresAccounted` what a scan still owes: the sections it has
sent and has to send are each there once (`ScanInv`), and the list is that of the
sections taken (`Shows`), so a merge adds its section wherever the cursor and the
filter are (`MergeShows`), and a poll that merges several is a recursion shown to
have a solution, step by step (`MergingsAre`, `MergedShows`).  For the cursor the
argument is that a list which grows only moves its figures down (`PlacesGrow`):
a bare figure that "Figure n" no longer finds is past n, stays past it however
much is merged (`Gone`, `GoneStays`), and so is not back under another row.  A
badge's figure is the nearest to itself (`BadgeOpens`).  Both theorems assume that
no search for folders ends under the viewer, which is a counterexample (below).

**ImagePipeline_proofs.**  `RequestedIsComing` is nearly inductive: besides the
types it needs that nobody drops the pool while the loop runs, for an answer
nobody listens to would be lost.  For the inline deck, `InlineInv` adds to
`InlineTrue` that ids are below the next one, which makes a sent picture's id new,
and that a terminal which freezes shapes is known to.  A render is three facts:
the ids it gives out are new and distinct (`SentNumbers`, `RenderedIds`); a part of
a part of the targets is a part of the targets (`RetainedTwice`), so a picture that
stays is at the places the page has it; and each place the terminal keeps is asked
for again.

**Pages_proofs** has the deck twice: on its own, under any caller in any order,
and driven by PageView.  `Fit` says of any deck and terminal that they agree; it
adds to the checked invariants `Coherent`: what a shown page needs resident is
what is resident.  Without it a page reused at its next place could be in a shape
the terminal froze, or themed unlike its frame.  `RenderPlaces` and `RenderFills`
say what one render leaves on screen and in the terminal; the other two
operations only take things away.  `Fit` is stated of values, not of the
variables, because one drawn frame may wipe the screen and then render
(`RestageKeeps`, then `RenderKeeps`).  PageDeck's own specification is not
model-checked on its own: the runs check its invariants where PageView drives it.

For the view, `ViewInv` adds the types of what a frame is computed from and that
the pages on screen make up a spread.  Two facts join the halves.  The targets a
frame captures are the spread in view, each page once (`VisibleIs`, `TargetsAre`).
And the bytes page_png finds for a target are of the raster its crop was computed
against (`BytesServe`): page_png falls back to the base raster on its own, so this
holds only because a page is chosen crisp in a frame that has its crisp bytes in
the very theme (`CapturedIs`).  `DrawIs` puts them together for a frame after any
drains, with or without a wipe; no other step touches the screen.

**Reader_proofs** has four components that share no state.

For the session, `Inv` adds to the types and to what is to be shown that a book is
open in a running program only (`Sessions`), that a place the reader is at is one
its book was at (`Placed`), and `Timely`: the session's clock and the age of the
stored place are not older than the autosave's clock, which none of the three
shares.

For the configuration, `FolderInv` adds to `FoldersSurvive` that the file lists
the folders in use unless it is gone, and then there are none, and that a folder
wanted is out of use only after a run moved a garbled file aside; else a restart
could forget folders no garbled file holds.  The theorem assumes `OneDamage`: no
file that cannot be read as text (the run `settings_damage` shows what is lost
then) and at most one garbling, for there is one backup.  That a reset leaves the
folders alone is taken from the next invariant.

For the settings, `SettingsInv` says that the configuration is `Sensible` (each
number within its limits, every format in the order once), that the file holds
only what a hand may have written (`ByHand`), that the cursor of an open popup is
on an option if one is shown, and that lines wrapped for another column are lines
whose position is held.  Each part of `SettingsSound` then has its own argument.
The rows are a flattening whose CHOOSE is of a recursion; they depend on the
number of folders alone (`RowsFollowPaths`), and every way of moving among them
ends on an option because their ranks have no gaps (`RanksAreDense`, `MovedToIs`).
A tab that loses its last folder still opens on an option: `TabsAssumption`, which
TLC evaluates, says so of the default configuration, and `FirstRowIs` carries it to
every other.  Whatever order a hand wrote, `NormalOrderIs` finds every format in
it once, again by ranks.  `R` resets one row after another; that nothing reset
early is moved again by a later one (the reading mode writes four options, each
of which may have a row of its own) is `ResetKeeps`, and holds only because the
mode's default is the options' own.  The column's step is `PaddedShrinks`: a
quotient of the pane, twice, above a floor that a narrow pane lowers.

For the contents pane, `TocInv` adds to the types that the rows drawn are the rows
of the window (`DrawnStays`): every input that could change them forgets the
drawing, so a click opens what its reader saw.  That a set of entries in order
holds each of them once (`RowsAre`) is what lets a filter leave on its entry.

For the popups, `Popped` says that the popup in sight fits the lists it is drawn
from, that only the resolver is ever parked, and that no question is asked over a
note being written.  Nearly each key handler is a lemma; the four helpers that
show, close, ask and look up are shown to keep `Popped` once (`ShowStays` and its
neighbours).  The hard part is the list of marks: a mark deleted, retitled or
filtered away must leave the cursor on a row (`DeletedStays`, `MarksFit`), and
saving a note must find its row again (`RefreshShows`).

**Library_proofs.**  Of the store, `RecordsInv` has what each statement of a removal or a
rename still owes (`RenameClears`, `Carrying`, `RemovalTakes`), what a path
whose file is gone may still hold (`RowsFollow`, `ProgressFollows`,
`NotesFollow`), `RecordsKept` itself, and `ScanSees`.  The last
says how far the scan's reading agrees with the world: while nothing has
interfered, each file of the folders has its row, is still to be visited or was
passed over unread and still differs from its row (`Walked`, `Passed`), each
row without a file is still to be looked at, and each stray is still to be
dropped.  `RecordsKept` needs the first three because a scan may forget a row
just as a rename or a removal is between its statements; `ScanExact` needs the
fourth.  The search for this invariant found the gap at four operations
described above, and that a rename onto a path for which nothing was cleared
leaves a book's records under both names; both are now in the ghosts.

The resolver's groups come out of a union-find whose `find`
recurses.  That the recursion has a solution, and only one, holds because the
trees it climbs are forests (`IsForest`), which `Hang` keeps in any order of the
links; the roots then tell apart exactly what the links do, so the groups are
the components.  `DupInv` adds what an overlay keeps true of the proposal while
files and rows change beneath it.  `DeskInv` adds what a scan needs: a book that
only now gets its row is in no list and no picker.

For reading on, `FlowInv` says what the place is by what was done since the last
frame (`SinceFrame`): after nothing, the place drawn; after a setting, that place
with its fraction held; after easing alone, where chapters start afresh, the
chapter drawn or the far side of an edge the frame showed.  `Scrolls` says that a
line the scrolls should have led to is the line reached.  That one scroll gets
there, however many chapters it crosses, is `RollDownIs` and `RollUpIs`: the
recursions have a solution because chapters run out (`TailRecursion`), and each
crossing passes as many book lines as `Before` counts of the chapter left.  The
fraction a crossing holds gives its line back at the next frame because it is of
that chapter's own lines (`RoundedIs`, whose bound is also what a setting may cost
the place).  For `ThePlaceFollows` a first wrap must not fall short
(`Reserved = {0}`: every figure's size is known when its chapter is entered); with
unsized figures the fraction is of other lines, and only `FramesFollowOneAnother`
is proved.

**Background_proofs.**  `CoverInv` adds to `CoversAccounted` that the queue never
names a book being decoded, that a worker's mark is there for as long as it
decodes, and that two covers never share an image.  `EditorInv` adds that a
search still running for this editor was started under the seed its tabs show,
which is kept only because a changed seed empties both lists and an empty tab
searches at once, replacing the receiver.  For a seed that composes to a blank
query (`Blank`) no search follows and the receiver stays, so neither that part of
the invariant nor `ListedOfThisSeed` says anything of it.

**DataLemmas** has the least and greatest element of a set of numbers, which
stand in for induction, how ranks and positions correspond, what `Retained` and a
flattening keep of sequences, stacks and sequences backwards, and that a recursion
which passes its argument on, to one of a smaller rank, has a solution.

Only model-checked: all liveness (the prover has no rule for it under fairness,
nor for ENABLED); `MarksFoundAgain`, which is about the text of cells;
and Reflow, Equations and HtmlBlocks, which are recursive throughout, and what a
recursive definition computes for every input needs an induction over data the
installed provers cannot instantiate.  `SelectSeq` is recursive too, which is why
CoverLoader and LibraryDesk filter with `Subsequences`.

## Where the code does otherwise than it says

Five are runs of the project and end in a counterexample:

- `pictures_far` (`app/reader/images.rs:122`): a build skipped as far away whose
  answer lands after the reader came back is not asked for again.
- `records_rename` (`delryn-store/src/books.rs:133`): a rename beside a scan
  leaves position and notes under the old name, and the scan forgets them.
- `pages_turn` (`app/reader/paged.rs:420`): PageDown near the end of a chapter is
  clamped, and then snapped back to the page it came from.
- `editor_cover` (`app/editor/lookup.rs:365`): in a bulk edit the cover asked for
  one book is saved into the file of the next.
- `settings_damage` (`delryn-infra/src/config/mod.rs:611`): a config file that
  cannot be read as text is overwritten by the defaults at the next save.

Others were found by hand with the constants named here; the properties are in
the modules.

- SectionLoader: in page-turn mode a request judged stale just before the reader
  comes back is answered empty, and nothing asks again (`state/cache.rs:48`,
  `StoppedPageArrives` with `Flows = FALSE`).  A section decoded under the old
  equation settings is cached after the change, because the drain follows the
  clear (`math.rs:570`); the section on screen when the reference em shifts keeps
  its old scale on every revisit while cached (`math.rs:558`).
- ImagePipeline: the loop stops drawing once the current section is built, and a
  figure of the following section, already on screen, stays blank
  (`images.rs:780`, `FollowingAppear`).  A build asked for by a closed book lands
  in the next book's cache under the key of its own picture (`builder.rs:34`,
  `EqualKeysIdenticalBuild`).  Once the cache is full no following section's
  figure is asked for (`images.rs:623`); a neighbour's builds drained in one
  frame can evict a picture on screen, and so can builds of an old geometry when
  there are as many of them as the cache holds ("drain", `images.rs:130`).
- PageView: in a spread whose other page cannot be rendered a bare `j` or `k` is
  ignored for as long as the reader stays (`app/mod.rs:806`).  A chrome toggle and
  `q` before the next frame leave the pages' data in the terminal (`:843`); `q`
  and Enter before the next frame show the old book's page (`page_deck.rs:169`).
  A page that rasterizes after the wait was given up is not themed until a key is
  pressed (`app/mod.rs:775`).  A themed look-ahead larger than the budget evicts
  the page on screen for ever ("thrash", `state/pages.rs:18`).
- InlineDeck: a picture's key says nothing of its book, so when a book is closed
  and another opened before a frame, the first one's picture stays on screen under
  an equal key until it scrolls away (`app/mod.rs:869` says leaving frees them all),
  and a build of the closed book that lands in the next one's cache is transmitted
  under an equal key like the book's own.  The model's pictures are keys too, so
  `SightShown` is that the screen has the pictures of the right keys where the page
  has them, and says nothing of the book a build is of.
- BookRecords: a rename onto a name with leftover rows ignores the UPDATE's
  conflict; removing a folder during a scan brings its books back, and one added
  then is not scanned; a drive unplugged outside the folders has its rows pruned.
  A rename cut short by a kill leaves records under the old name, which the next
  scan forgets, and a removal cut short leaves a position and notes without a row,
  which no scan looks for again: both are excused by the ghosts from the kill on.
  Not modelled: a folder that is there but cannot be entered, or a file that cannot
  be looked up, counts as missing, and its books are pruned, though
  `delryn-library/src/lib.rs:85` means those of an unreadable root to be kept.
- ReadingSession (`AutosaveEvery = 2`, `Life = 4`): a tick stores the place of a
  book no frame has wrapped yet (`OpeningWritesNothing`); and closing a book starts
  its clock anew, so the time in the library is banked to the closed book when
  another is opened or the program ends, though `state/session.rs:18` says the
  clock is "`None` outside the reader" (`TimeIsReading`).  `TimeCounted` therefore
  bounds each book's time from below, and from above only their sum.
- LibraryDesk (`DeskStrokes = 5`): a shelf made in the picker does not get the
  cursor (`NewEntryUnderCursor`, `collections.rs:275`); a collection whose last
  book is dropped stays in the list (`EmptyStopsAppearing`, `shelves.rs:34`); a pruned
  book may stay filed on one (`ShelvedAreBooks`).
- Duplicates: a copy in use may be checked while an unused one is kept
  (`EngagedIsKept`); the last file of a work goes where the kept row's file was
  gone already (`LastFileSurvives`, `DupStrokes = 5`).
- CoverLoader: a wall and its margin larger than the cache decode for ever,
  against main.rs's comment about an idle CPU.
- OnlineEditor (`Presses = 8`): a search may show as running that nobody listens
  to (`FetchingInFlight`), and a queue stop when its editor closes
  (`QueueAttended`).  With title and author emptied, entering the Lookup tab drops
  the results "so the tab re-searches the new seed" (`lookup.rs:49`) but a blank
  query is not searched, and the answer of the search before it, for the old
  title, is listed; a cover answer stays on the Cover tab, which then does not
  search on entry either (`ListedOfThisSeed` excepts the seed `Blank`).
- ReadingFlow: rolling is not seamless where a blank separator row is not counted
  (`RollsSeamlessly`).  PageMarks: a highlight on a hyphenated line is never
  washed (`LinesSpell`), a search wraps over lines without the figure rows
  (`MatchShown`), a selection covers other words after a re-wrap
  (`MarksOwnWords`), and badges of code blocks opened before the frame of a new
  chapter are the old one's (`CodeBadgesHere`; figures are filtered).  Contents: closing the filter on an entry a folded
  parent hides loses it (`LandedKept`), and G goes past the rows a fold left
  (`CursorOnARow`).  Settings: a step of the measure that moves the margin and not
  the column (`PressMoves`); the finder closes the popup without saving
  (`SavedOnClose`); two
  garbled files in a row lose the first backup.  A backup that cannot be made
  (`delryn-infra/src/config/mod.rs:584`) is noted in the message and not modelled.
- Popups: a finder's answer replaces the popup a question is about
  (`QuestionOverItsPopup`); `?`, `;` and `:` typed in the library's filter open
  help, settings and the palette (dispatch says they are typed), and `f` in the
  settings' filter resizes the window.  Text fields other than TextInput's do not
  edit "identically": Ctrl-U types a letter in five of them.
- FigureViewer (`FigFolders = TRUE`): discovery drops the open viewer without
  retiring its image (`overlays.rs:185`).  Filtering by "Figure n" while the scan
  renumbers the unnamed can move the selection to another figure.
- Equations: a root's index and the marks of an enclosure are not drawn, and loose
  text in a row read as a fence is lost; an unreadable TeX beside a picture that
  cannot be resolved shows nothing, and in a line its picture is never tried
  (`delryn-eqn/src/render.rs:3` says a formula is never blank).
- HtmlBlocks: the caption of a figure without one marked as such is meant to be a
  paragraph "beside the image" (`html/mod.rs:598`), but may be the paragraph the
  image is in, which then shows it again; of two terms in a row in a definition
  list the first is lost (`html/mod.rs:935`).
- Reflow: the wrap key omits the listing's line numbers, label and hint, which
  `view/reader.rs` sets each frame; a listing counts characters, not cells.

## Not modelled, and why

- In PageView: the continuous page stack, the spread's cover offset and
  right-to-left order, the crisp raster cache's own eviction, pan room.
- Panics of a decoder outside the cover pool (they end a worker and leave a
  mark): the loader and the builds are total.
- What a build or a decode computes; highlighting, colours and themes; SQL and
  the schema's migrations; HTTP, JSON and the containers of the book formats.
- In InlineDeck: what an overlay in a corner of the page covers, widths, and what
  a resized terminal does to its own screen.
- The components the inventory lists as not modelled: pure conversions, drawing,
  or atomicity that SQLite provides.

## What is left

1. Models: PageView's continuous page stack and the spread's cover offset; the
   sizes of equations; the containers of the book formats.
2. Proofs: of the safety properties the runs check, only those named above as
   only model-checked.
