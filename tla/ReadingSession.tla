--------------------------- MODULE ReadingSession ---------------------------
(***************************************************************************)
(* What of a reading session reaches the store (app/mod.rs open_book to    *)
(* tick_autosave, app/state/session.rs, the preview of a duplicate, and    *)
(* the event loop's turn in main.rs): the position in each book and the    *)
(* time spent in it, over opening, moving, closing, the autosave, clean    *)
(* exits, signals and sudden ends.  Time runs in half seconds; the store   *)
(* counts whole ones.                                                      *)
(***************************************************************************)
EXTENDS Integers, FiniteSets, FiniteSetsExt

CONSTANTS
    Titles,        \* books
    LastSection, LastLine,
    AutosaveEvery, \* AUTOSAVE_EVERY
    Life           \* bound: half seconds the behaviour lasts

NoTitle == "none"

ASSUME SessionAssumption ==
    /\ IsFiniteSet(Titles) /\ NoTitle \notin Titles
    /\ {LastSection, LastLine, AutosaveEvery, Life} \subseteq Nat /\ AutosaveEvery > 0

Off == -1     \* no value: started, pending_frac
Places == [section : 0..LastSection, line : 0..LastLine]
Top == [section |-> 0, line |-> 0]

VARIABLES
    running, phase,  \* the program runs; where its loop is
    open,            \* the reader's book, or NoTitle
    bookPath,        \* session.book_path: not reset by closing
    started,         \* half seconds since session.started, or Off
    lastAutosave,    \* half seconds since session.last_autosave
    place,           \* the reader's section and scroll
    wrapped,         \* whether `lines` holds anything yet
    heldFrac,     \* the line to resume at once wrapped, or Off
    fromBottom,
    leaving,         \* should_quit, or TERMINATE
    saved,           \* store: book -> place, or Top with section Off
    readSeconds,     \* store: book -> seconds
    \* ghosts
    clock,           \* half seconds since the start
    due,             \* book -> half seconds it was open, less what was rounded
                     \*         away or lost to a sudden end
    been,            \* book -> sections it was open at
    behind           \* half seconds since the frame and the store agreed

sessionStore == <<saved, readSeconds>>
viewer == <<open, place, wrapped, heldFrac, fromBottom>>
clocks == <<started, lastAutosave, clock, behind>>
sessionVars == <<running, phase, viewer, bookPath, clocks, leaving, sessionStore, due, been>>

NoPlace == [section |-> Off, line |-> 0]
Secs(halves) == halves \div 2

SessionInit ==
    /\ running = FALSE /\ phase = "keys" /\ open = NoTitle /\ bookPath = NoTitle
    /\ started = Off /\ lastAutosave = 0
    /\ place = Top /\ wrapped = FALSE /\ heldFrac = Off /\ fromBottom = FALSE
    /\ leaving = FALSE
    /\ saved \in [Titles -> {NoPlace, [section |-> 0, line |-> LastLine]}]
    /\ readSeconds = [b \in Titles |-> 0]
    /\ clock = 0 /\ due = [b \in Titles |-> 0]
    /\ been = [b \in Titles |-> IF saved[b] = NoPlace THEN {} ELSE {saved[b].section}]
    /\ behind = 0

----------------------------------------------------------------------------
(* The store's two writes.                                                 *)

(* flush_reading_time: whole seconds to the book of book_path, and the     *)
(* clock starts again; the remainder of a second is dropped with it.       *)
Banked ==
    IF started = Off \/ bookPath = NoTitle THEN readSeconds
    ELSE [readSeconds EXCEPT ![bookPath] = @ + Secs(started)]
(* Ghost: what is rounded away of the time a book was open.                *)
DueAfter ==
    IF started = Off \/ open = NoTitle THEN due
    ELSE [due EXCEPT ![open] = @ - (started % 2)]
(* (mutant: the clock keeps running over a flush)                          *)
NotRestarted == started
Restarted == IF started = Off THEN Off ELSE 0

(* save_progress: before the first wrap within_frac is 0, and a pending    *)
(* move is not counted.                                                    *)
SavedHere(b) == [section |-> place.section, line |-> IF wrapped THEN place.line ELSE 0]
SavedProgress ==
    IF open = NoTitle \/ bookPath = NoTitle THEN saved
    ELSE [saved EXCEPT ![bookPath] = SavedHere(bookPath)]

(* Ghosts: how long the store has not had the reader's place, and the      *)
(* sections a book was open at.                                            *)
Behind(n) == behind' = IF open' = NoTitle \/ saved'[open'] = place' THEN 0 ELSE n
Visits(p) == been' = [been EXCEPT ![open] = @ \cup {p.section}]

----------------------------------------------------------------------------
(* Keys, any number in one turn.                                           *)

(* build_reader: the stored section and, pending the first wrap, line.     *)
Resume(b) == IF saved[b] = NoPlace THEN [section |-> 0, line |-> Off] ELSE saved[b]

Viewing(b) ==
    /\ open' = b /\ started' = 0
    /\ place' = [section |-> Resume(b).section, line |-> 0]
    /\ been' = [been EXCEPT ![b] = @ \cup {Resume(b).section}]
    /\ heldFrac' = Resume(b).line
    /\ wrapped' = FALSE /\ fromBottom' = FALSE /\ behind' = 0

(* (mutant: the path of the book before stays the session's)               *)
BuiltUnderOldPath(b) ==
    Viewing(b) /\ bookPath' = (IF bookPath = NoTitle THEN b ELSE bookPath)
Built(b) == Viewing(b) /\ bookPath' = b

OpenShelf ==
    /\ ~running /\ running' = TRUE /\ phase' = "keys"
    /\ open' = NoTitle /\ bookPath' = NoTitle /\ started' = Off /\ lastAutosave' = 0
    /\ UNCHANGED <<place, wrapped, heldFrac, fromBottom, leaving,
                   sessionStore, clock, due, been, behind>>

(* open_book; the loop draws before its first turn.                        *)
LaunchBook(b) ==
    /\ ~running /\ running' = TRUE /\ phase' = "draw"
    /\ Built(b) /\ lastAutosave' = 0
    /\ UNCHANGED <<leaving, sessionStore, clock, due>>

Keying == running /\ phase = "keys"

(* open_selected and preview_dup_book: the time since the last book was    *)
(* left is banked first; the autosave clock runs on.                       *)
OpenSelected(b) ==
    /\ Keying /\ open = NoTitle
    /\ readSeconds' = Banked /\ due' = DueAfter
    /\ Built(b)
    /\ UNCHANGED <<running, phase, lastAutosave, leaving, saved, clock>>

(* A book that cannot be opened.                                           *)
OpenFails ==
    /\ Keying /\ open = NoTitle
    /\ readSeconds' = Banked /\ due' = DueAfter /\ started' = Restarted
    /\ UNCHANGED <<running, phase, viewer, bookPath, lastAutosave, leaving,
                   saved, clock, been, behind>>

(* close_book.                                                             *)
CloseBook ==
    /\ Keying /\ open # NoTitle
    /\ readSeconds' = Banked /\ due' = DueAfter
    /\ saved' = SavedProgress /\ started' = 0
    /\ open' = NoTitle /\ behind' = 0
    /\ UNCHANGED <<running, phase, bookPath, place, wrapped, heldFrac, fromBottom,
                   lastAutosave, leaving, clock, been>>

(* A jump inside the section, or to another one, which is saved at once    *)
(* (apply; `lines` still holds the old section's).                         *)
JumpToSection(s) ==
    /\ Keying /\ open # NoTitle
    /\ place' = [section |-> s, line |-> 0]
    /\ saved' = IF s = place.section THEN saved
                ELSE [saved EXCEPT ![bookPath] = place']
    /\ Visits(place')
    /\ UNCHANGED <<running, phase, open, bookPath, wrapped, heldFrac, fromBottom,
                   started, lastAutosave, leaving, readSeconds, clock, due>>
    /\ Behind(behind)

LeaveProgram ==
    /\ Keying /\ ~leaving /\ leaving' = TRUE
    /\ UNCHANGED <<running, phase, viewer, bookPath, clocks, sessionStore, due, been>>

KeysEnd ==
    /\ Keying /\ phase' = "tick"
    /\ UNCHANGED <<running, viewer, bookPath, clocks, leaving, sessionStore, due, been>>

----------------------------------------------------------------------------
(* The rest of the turn.                                                   *)

Due == open # NoTitle /\ bookPath # NoTitle /\ lastAutosave >= AutosaveEvery

(* tick_autosave.                                                          *)
TickAutosave ==
    /\ running /\ phase = "tick" /\ phase' = "scroll"
    /\ IF Due
       THEN /\ lastAutosave' = 0 /\ started' = Restarted
            /\ readSeconds' = Banked /\ due' = DueAfter /\ saved' = SavedProgress
       ELSE UNCHANGED <<lastAutosave, started, sessionStore, due>>
    /\ UNCHANGED <<running, viewer, bookPath, leaving, clock, been>>
    /\ Behind(behind)

(* step_scroll: a line, or into the next chapter's top or the previous     *)
(* one's end; nothing is saved.                                            *)
EaseScroll ==
    /\ running /\ phase = "scroll" /\ phase' = "draw"
    /\ \/ UNCHANGED <<place, fromBottom, been>>
       \/ /\ open # NoTitle /\ wrapped
          /\ \/ /\ \E l \in {place.line - 1, place.line + 1} \cap 0..LastLine :
                       place' = [place EXCEPT !.line = l]
                /\ Visits(place') /\ UNCHANGED fromBottom
             \/ /\ place.line = LastLine /\ place.section < LastSection
                /\ place' = [section |-> place.section + 1, line |-> 0]
                /\ Visits(place') /\ UNCHANGED fromBottom
             \/ /\ place.line = 0 /\ place.section > 0
                /\ place' = [section |-> place.section - 1, line |-> 0]
                /\ Visits(place') /\ fromBottom' = TRUE
    /\ UNCHANGED <<running, open, bookPath, wrapped, heldFrac, started, lastAutosave,
                   clock, leaving, sessionStore, due>>
    /\ Behind(behind)

(* A frame wraps the section and resolves what was pending; the throttle   *)
(* may leave it to a later turn.                                           *)
DrawReader ==
    /\ running /\ phase = "draw" /\ phase' = "keys"
    /\ UNCHANGED <<running, open, bookPath, started, lastAutosave, clock, leaving, sessionStore, due>>
    /\ IF open = NoTitle
       THEN UNCHANGED <<place, wrapped, heldFrac, fromBottom, been, behind>>
       ELSE /\ place' = [place EXCEPT !.line =
                   IF heldFrac # Off THEN heldFrac
                   ELSE IF fromBottom THEN LastLine ELSE @]
            /\ wrapped' = TRUE /\ heldFrac' = Off /\ fromBottom' = FALSE
            /\ Visits(place') /\ Behind(behind)

NoFrame ==
    /\ running /\ phase = "draw" /\ phase' = "keys"
    /\ UNCHANGED <<running, viewer, bookPath, clocks, leaving, sessionStore, due, been>>

Gone ==
    /\ running' = FALSE /\ open' = NoTitle /\ bookPath' = NoTitle /\ started' = Off
    /\ leaving' = FALSE /\ phase' = "keys" /\ behind' = 0 /\ lastAutosave' = 0
    /\ place' = Top /\ wrapped' = FALSE /\ heldFrac' = Off /\ fromBottom' = FALSE
    /\ UNCHANGED <<clock, been>>

(* The loop's head sees should_quit or the signal: on_exit.                *)
OnExit ==
    /\ Keying /\ leaving
    /\ readSeconds' = Banked /\ due' = DueAfter /\ saved' = SavedProgress
    /\ Gone

(* A first SIGTERM or SIGHUP.                                              *)
Signal ==
    /\ running /\ ~leaving /\ leaving' = TRUE
    /\ UNCHANGED <<running, phase, viewer, bookPath, clocks, sessionStore, due, been>>

(* A second signal, SIGKILL, a panic, an I/O error of the terminal: the    *)
(* loop ends without on_exit, and what was not banked is lost.             *)
SuddenEnd ==
    /\ running /\ Gone
    /\ due' = IF open = NoTitle THEN due ELSE [due EXCEPT ![open] = @ - started]
    /\ UNCHANGED sessionStore

(* Time passes: while the loop waits, or a frame takes its time.           *)
Elapse ==
    /\ running /\ clock < Life /\ phase \in {"keys", "draw"}
    /\ clock' = clock + 1
    /\ started' = IF started = Off THEN Off ELSE started + 1
    /\ lastAutosave' = Min({lastAutosave + 1, AutosaveEvery + 2})
    /\ due' = IF open = NoTitle THEN due ELSE [due EXCEPT ![open] = @ + 1]
    /\ UNCHANGED <<running, phase, viewer, bookPath, leaving, sessionStore, been>>
    /\ Behind(behind + 1)

SessionNext ==
    \/ OpenShelf \/ OpenFails \/ CloseBook \/ LeaveProgram \/ KeysEnd
    \/ TickAutosave \/ EaseScroll \/ DrawReader \/ NoFrame \/ OnExit \/ Signal
    \/ SuddenEnd \/ Elapse
    \/ \E b \in Titles : LaunchBook(b) \/ OpenSelected(b)
    \/ \E s \in 0..LastSection : JumpToSection(s)

SessionSpec == SessionInit /\ [][SessionNext]_sessionVars

----------------------------------------------------------------------------
SessionTypeOK ==
    /\ open \in Titles \cup {NoTitle} /\ bookPath \in Titles \cup {NoTitle}
    /\ {running, wrapped, fromBottom, leaving} \subseteq BOOLEAN
    /\ phase \in {"keys", "tick", "scroll", "draw"}
    /\ started \in Nat \cup {Off} /\ lastAutosave \in 0 .. AutosaveEvery + 2
    /\ place \in Places /\ heldFrac \in {Off} \cup 0..LastLine
    /\ saved \in [Titles -> Places \cup {NoPlace}] /\ readSeconds \in [Titles -> Nat]

(* Reading is credited: what the store has of a book and what its clock    *)
(* still holds make up the time the book was open, but for the half        *)
(* seconds rounded away at a bank and what a sudden end lost, whatever was *)
(* opened, previewed and closed in between.  And no half second is         *)
(* credited twice, over all the books.                                     *)
Running(b) == IF open = b /\ started # Off THEN started ELSE 0
TimeCounted ==
    /\ \A b \in Titles : 2 * readSeconds[b] + Running(b) >= due[b]
    /\ 2 * MapThenSumSet(LAMBDA b : readSeconds[b], Titles)
         + (IF started = Off THEN 0 ELSE started) <= clock

(* A sudden end costs less reading time than one autosave interval, once a *)
(* turn's tick has run, though opening does not restart the autosave's     *)
(* clock and the two clocks restart at different places; nor does it cost  *)
(* the place a frame showed longer ago than that.                          *)
LossBounded ==
    (running /\ phase = "scroll" /\ open # NoTitle)
        => started < AutosaveEvery /\ behind < AutosaveEvery

(* A book's record only ever holds a section that book was open at: a      *)
(* save never goes to the book before or the one previewed after.          *)
StoredOfThisBook ==
    \A b \in Titles : saved[b] = NoPlace \/ saved[b].section \in been[b]
(* A save comes in time, and to the right book.                            *)
SavesSound == LossBounded /\ StoredOfThisBook

(* state/session.rs: "Freshly constructed: not due, so opening a book      *)
(* doesn't immediately write": no tick stores the place of a book that no  *)
(* frame has been wrapped for, its stored place still to be resumed.       *)
OpeningWritesNothing ==
    [][(phase = "tick" /\ open # NoTitle /\ ~wrapped /\ saved[open] # NoPlace)
       => saved' = saved]_sessionVars

(* state/session.rs: `started` is "None outside the reader", so a book is  *)
(* never credited more time than it was open.                              *)
TimeIsReading == \A b \in Titles : 2 * readSeconds[b] <= due[b]
=============================================================================
