---------------------------- MODULE ImagePipeline ----------------------------
(***************************************************************************)
(* The pictures of a reflowed book: what the event loop asks the pool of   *)
(* image workers for, what it keeps of the answers, and when it draws.     *)
(*                                                                         *)
(* The pool is BuildPool's, which ImageBuilder implements; it outlives the *)
(* book.  A picture is abstracted to the book it was taken from, an image  *)
(* key to its section, its index there and a geometry (every size, theme   *)
(* and mode field of ImgKey at once).  The LRU order is abstracted to what *)
(* an eviction can tell apart: what this frame pushed, what is on screen,  *)
(* and the rest.                                                           *)
(***************************************************************************)
EXTENDS Integers, FiniteSets

CONSTANTS
    NumSections,
    Pictures,      \* section -> the indices of its pictures
    Inline,        \* those that are inline equations, not figures
    Spare,         \* IMAGE_CACHE_CAP
    KeepRadius,    \* KEEP_RADIUS
    Flows,         \* reflow_flows(): following sections are drawn too
    MaxGeoms,      \* bound: how often the geometry or the theme changes
    MaxBooks,      \* bound: how many books are opened
    MaxCopies,     \* bound: requests for one key in the pool at once
    CanRestage,    \* whether restage_visible_images is called
    CanFail,       \* whether a build may fail
    LateNeighbours \* whether a neighbour's text may not be loaded yet

Sections == 0 .. NumSections - 1
Slots == UNION {Pictures[s] : s \in Sections}
Books == 1 .. MaxBooks
Geoms == 0 .. MaxGeoms
Keys == [sec : Sections, idx : Slots, geom : Geoms]
Requests == [key : Keys, book : Books, copy : 1 .. MaxCopies]

ASSUME ImagePipelineAssumption ==
    /\ NumSections \in Nat \ {0}
    /\ Pictures \in [Sections -> SUBSET Nat]
    /\ \A s \in Sections : IsFiniteSet(Pictures[s])
    /\ Inline \subseteq Nat
    /\ Spare \in Nat \ {0} /\ KeepRadius \in Nat
    /\ MaxGeoms \in Nat /\ MaxBooks \in Nat \ {0} /\ MaxCopies \in Nat \ {0}
    /\ {Flows, CanRestage, CanFail, LateNeighbours} \subseteq BOOLEAN

VARIABLES
    queued, building, answers, current, open,   \* the pool
    book,       \* the open book, counted from 1
    reading,    \* a reader exists (the app is not in the library)
    section, geom,
    mapped,     \* images_key: [sec, geom] of the last remap, or Unmapped
    forced,     \* images_key.0 = usize::MAX
    cache,      \* images.cache: key -> the book its picture came from
    cap,        \* images.cache.cap()
    requested, failed,
    pushed,     \* keys this frame has pushed into the cache
    pc,         \* the event loop: "idle", or inside sync_images
    dirty       \* the loop has a reason to draw

pool == <<queued, building, answers, current, open>>
place == <<book, reading, section, geom>>
images == <<mapped, forced, cache, cap, requested, failed>>
vars == <<pool, place, images, pushed, pc, dirty>>

Unmapped == [sec |-> NumSections, geom |-> 0]

Pool == INSTANCE BuildPool WITH SectionOf <- [r \in Requests |-> r.key.sec]

KeysOf(s, g) == {[sec |-> s, idx |-> i, geom |-> g] : i \in Pictures[s]}
Figures(s, g) == {k \in KeysOf(s, g) : k.idx \notin Inline}

\* section_images and section_inline: the pictures of the last remap.
Visible == IF mapped = Unmapped THEN {} ELSE KeysOf(mapped.sec, mapped.geom)

\* images_pending
Unbuilt(K) == {k \in K : k \notin DOMAIN cache /\ k \notin failed}
ImagesPending == reading /\ Unbuilt(Visible) # {}

-----------------------------------------------------------------------------
(* Opening, moving and leaving: everything that happens between frames.    *)

Fresh(s) ==
    /\ section = s /\ geom = 0
    /\ mapped = Unmapped /\ forced = TRUE
    /\ cache = <<>> /\ cap = Spare
    /\ requested = {} /\ failed = {}

Init ==
    /\ Pool!PoolInit(0)
    /\ book = 1 /\ reading = TRUE
    /\ \E s \in Sections : Fresh(s)
    /\ pushed = {} /\ pc = "idle" /\ dirty = TRUE

Between == pc = "idle" /\ reading

\* load and goto.
Move(s) ==
    /\ Between
    /\ s # section
    /\ section' = s
    /\ dirty' = TRUE
    /\ UNCHANGED <<pool, book, reading, geom, images, pushed, pc>>

\* A resize, another column width, another theme or image mode.
\* (mutant: it does not ask for a frame)
RestyleQuiet ==
    /\ Between
    /\ geom < MaxGeoms
    /\ geom' = geom + 1
    /\ UNCHANGED <<pool, book, reading, section, images, pushed, pc, dirty>>

Restyle ==
    /\ Between
    /\ geom < MaxGeoms
    /\ geom' = geom + 1
    /\ dirty' = TRUE
    /\ UNCHANGED <<pool, book, reading, section, images, pushed, pc>>

\* restage_visible_images: the pictures on screen are dropped and the next
\* frame maps the section again.
Restage ==
    /\ Between /\ CanRestage
    /\ cache' = [k \in DOMAIN cache \ Visible |-> cache[k]]
    /\ requested' = requested \ Visible
    /\ failed' = failed \ Visible
    /\ forced' = TRUE
    /\ dirty' = TRUE
    /\ UNCHANGED <<pool, place, mapped, cap, pushed, pc>>

\* Any other key or mouse event that asks for a frame.
Touch ==
    /\ Between
    /\ ~dirty /\ dirty' = TRUE
    /\ UNCHANGED <<pool, place, images, pushed, pc>>

\* close_book drops the reader; the pool and what it is building stay.
CloseBook ==
    /\ Between
    /\ reading' = FALSE
    /\ UNCHANGED <<pool, book, section, geom, images, pushed, pc, dirty>>

\* open_selected builds a reader with an empty ImageState.
\* (mutant: the marks of the last book stay)
OpenBookKeepsMarks ==
    /\ pc = "idle" /\ ~reading
    /\ book < MaxBooks
    /\ book' = book + 1 /\ reading' = TRUE
    /\ UNCHANGED <<geom, requested>>
    /\ \E s \in Sections : section' = s
    /\ mapped' = Unmapped /\ forced' = TRUE
    /\ cache' = <<>> /\ cap' = Spare
    /\ failed' = {}
    /\ dirty' = TRUE
    /\ UNCHANGED <<pool, pushed, pc>>

OpenBook ==
    /\ pc = "idle" /\ ~reading
    /\ book < MaxBooks
    /\ book' = book + 1 /\ reading' = TRUE
    /\ UNCHANGED geom
    /\ \E s \in Sections : section' = s
    /\ mapped' = Unmapped /\ forced' = TRUE
    /\ cache' = <<>> /\ cap' = Spare
    /\ requested' = {} /\ failed' = {}
    /\ dirty' = TRUE
    /\ UNCHANGED <<pool, pushed, pc>>

-----------------------------------------------------------------------------
(* sync_images, once per drawn frame.                                      *)

\* The frame tells the workers where the reader is.
BeginFrame ==
    /\ Between
    /\ dirty \/ ImagesPending
    /\ Pool!Steer(section)
    /\ pc' = "drain"
    /\ pushed' = {}
    /\ UNCHANGED <<place, images, dirty>>

\* What the LRU drops to make room for k: nothing while it fits or k is there
\* already; otherwise something off screen, then something on screen, then
\* something this frame pushed itself.
Victims(k) ==
    IF k \in DOMAIN cache \/ Cardinality(DOMAIN cache) < cap THEN {{}}
    ELSE LET off == DOMAIN cache \ (Visible \cup pushed)
             on  == DOMAIN cache \ pushed
         IN  {{v} : v \in IF off # {} THEN off ELSE IF on # {} THEN on ELSE DOMAIN cache}

Push(k, from) ==
    \E V \in Victims(k) :
        cache' = [j \in (DOMAIN cache \ V) \cup {k} |-> IF j = k THEN from ELSE cache[j]]

\* One answer out of the channel.  A stale one is forgotten; a picture of
\* another section is dropped when the cache is full.
Drain(a) ==
    /\ pc = "drain" /\ a \in answers
    /\ answers' = answers \ {a}
    /\ requested' = requested \ {a.req.key}
    /\ IF a.result = "built" /\ (a.req.key.sec = section \/ Cardinality(DOMAIN cache) < cap)
       THEN Push(a.req.key, a.req.book) /\ pushed' = pushed \cup {a.req.key}
       ELSE UNCHANGED <<cache, pushed>>
    /\ failed' = IF a.result = "failed" THEN failed \cup {a.req.key} ELSE failed
    /\ UNCHANGED <<queued, building, current, open, place, mapped, forced, cap, pc, dirty>>

\* A request goes to the pool beside any older one for the same key.
Copies(k) == {c \in 1 .. MaxCopies : [key |-> k, book |-> book, copy |-> c] \notin Pool!Outstanding}
Asked(K) == {[key |-> k, book |-> book, copy |-> CHOOSE c \in Copies(k) : \A d \in Copies(k) : c <= d] :
                k \in K}

Larger(a, b) == IF a > b THEN a ELSE b

\* The sections whose figures are asked for besides the current one's: the
\* two neighbours once the current section is built, and in continuous mode
\* what is stitched below it and the next, whether it is built or not.
Around(pending) ==
    LET neighbours == IF pending THEN {} ELSE {section - 1, section + 1} \cap Sections
        below      == {s \in Sections : s > section}
    IN  IF ~Flows THEN {neighbours}
        ELSE {neighbours \cup ({section + 1} \cap Sections) \cup B : B \in SUBSET below}

\* request_section_image_builds over those sections: no more figures than the
\* cache has room for besides what it holds and what is on the way.  Which
\* ones come first is left open.
Prefetches(sections, r, room) ==
    LET wanted == {k \in UNION {Figures(s, geom) : s \in sections} :
                      k \notin DOMAIN cache /\ k \notin r /\ k \notin failed'}
        budget == room - (Cardinality(DOMAIN cache) + Cardinality(r))
        n      == IF budget < 0 THEN 0 ELSE IF budget < Cardinality(wanted) THEN budget
                  ELSE Cardinality(wanted)
    IN  {K \in SUBSET wanted : Cardinality(K) = n}

\* The rest of sync_images, once the channel is empty: remap the section if
\* it or the geometry changed (remap_section_images, remap_inline_math), then
\* prefetch.
Here == KeysOf(section, geom)

Missing == {k \in Here : k \notin DOMAIN cache /\ k \notin requested}

EndFrame ==
    /\ pc = "drain" /\ answers = {}
    /\ LET remap == forced \/ mapped # [sec |-> section, geom |-> geom]
           own   == IF remap THEN Missing ELSE {}
           r     == requested \cup own
           room  == IF remap THEN Larger(cap, Cardinality(Here) + Spare) ELSE cap
       IN  /\ mapped' = [sec |-> section, geom |-> geom]
           /\ forced' = FALSE
           /\ failed' = IF remap THEN {} ELSE failed
           /\ cap' = room
           /\ \E loaded \in (IF LateNeighbours THEN SUBSET Sections ELSE {Sections}) :
              \E sections \in Around(\E k \in Here : k \notin DOMAIN cache /\ k \notin failed') :
              \E K \in Prefetches((sections \cap loaded) \ {section}, r, room) :
                 /\ \A k \in own \cup K : Copies(k) # {}
                 /\ requested' = r \cup K
                 /\ queued' = queued \cup Asked(own \cup K)
    /\ pc' = "idle"
    /\ dirty' = FALSE
    /\ UNCHANGED <<building, answers, current, open, place, cache, pushed>>

-----------------------------------------------------------------------------
(* The workers.                                                            *)

Judge(r) == Pool!Judge(r) /\ UNCHANGED <<place, images, pushed, pc, dirty>>

Deliver(j) ==
    /\ Pool!Answer(j)
    /\ CanFail \/ ~\E a \in answers' \ answers : a.result = "failed"
    /\ UNCHANGED <<place, images, pushed, pc, dirty>>

WorkersOn(s) ==
    \/ \E r \in queued : r.key.sec = s /\ Judge(r)
    \/ \E j \in building : j.req.key.sec = s /\ Deliver(j)
Workers == \E s \in Sections : WorkersOn(s)
Frame == BeginFrame \/ (\E a \in answers : Drain(a)) \/ EndFrame
Events ==
    \/ \E s \in Sections : Move(s)
    \/ Restyle \/ Restage \/ Touch \/ CloseBook \/ OpenBook

Next == Workers \/ Frame \/ Events

Spec == Init /\ [][Next]_vars

\* The workers are threads that take what is queued in turn, and a build ends;
\* the loop draws while it is dirty or pictures are pending.  Nothing makes a
\* user press a key.
FairSpec == Spec /\ (\A s \in Sections : WF_vars(WorkersOn(s))) /\ WF_vars(Frame)

\* The same with a user who goes on pressing keys.
RestlessSpec == FairSpec /\ WF_vars(Touch)

-----------------------------------------------------------------------------
(* Properties.                                                             *)

\* Types of the pool, the reader's place and its image state.
TypeOK ==
    /\ Pool!PoolTypeOK
    /\ book \in Books /\ reading \in BOOLEAN
    /\ section \in Sections /\ geom \in Geoms
    /\ mapped \in [sec : Sections, geom : Geoms] \cup {Unmapped}
    /\ forced \in BOOLEAN /\ dirty \in BOOLEAN
    /\ DOMAIN cache \subseteq Keys /\ cache \in [DOMAIN cache -> Books]
    /\ cap \in Nat \ {0}
    /\ requested \subseteq Keys /\ failed \subseteq Keys /\ pushed \subseteq Keys
    /\ pc \in {"idle", "drain"}

\* A key marked as requested is in the pool or its answer is in the channel;
\* marked with neither, it would never be asked for again.
RequestedIsComing ==
    reading => \A k \in requested : \E r \in Pool!Outstanding : r.key = k /\ r.book = book

\* Unless the reader restages what is on screen, or another book's answers
\* have cleared its marks, no picture is built twice at once: at most one
\* request per key is in the pool.
OneBuildEach ==
    book = 1 => \A q, r \in Pool!Outstanding : q.key = r.key => q = r

\* "Current-section builds always cache (evicting a neighbour, which is the
\* least-recently-used after step 1)" (reader/images.rs): draining never takes
\* a picture of the section on screen out of the cache.
OnScreenKept ==
    [][pc = "drain" /\ mapped = [sec |-> section, geom |-> geom]
         => Visible \cap DOMAIN cache \subseteq DOMAIN cache']_vars

\* "so finished images pop in without needing a keypress" (main.rs): when the
\* user stops, every picture of the section on screen ends up drawn or known
\* to be broken, and the loop stops drawing.
Settles == <>[][Workers \/ Frame]_vars
PicturesAppear == Settles => <>[](reading => ~dirty /\ Unbuilt(Here) = {})

\* "a boundary figure then scrolls smoothly rather than showing a blank gap
\* until its section becomes the anchor" (reader/images.rs): when the user
\* stops moving, the figures of the next section, drawn below the current
\* one, appear too, whatever keys that change nothing are pressed.
Stays == <>[][Workers \/ Frame \/ Touch]_vars
Following == IF section + 1 \in Sections THEN Figures(section + 1, geom) ELSE {}
FollowingAppear == Stays => <>[](reading => Following \subseteq DOMAIN cache \cup failed)

\* "Equal keys => identical build, so they share one cache entry"
\* (builder.rs): a picture in the reader's cache was made from the open book.
EqualKeysIdenticalBuild == reading => \A k \in DOMAIN cache : cache[k] = book
=============================================================================
