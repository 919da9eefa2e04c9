---------------------------- MODULE BookRecords ----------------------------
(***************************************************************************)
(* What delryn keeps about a book, keyed by its path (delryn-store), next  *)
(* to the files it is about.  Two connections write the tables: the main   *)
(* thread's (opening, notes, edits, rename, trash, removing a folder) and  *)
(* the background scan's (app/scan.rs, delryn-library/src/lib.rs).  A      *)
(* statement of SQL is atomic; what is made of several is not, and the     *)
(* files change under both.                                                *)
(*                                                                         *)
(* A book is the content of a file.  `row` is the books table; `progress`  *)
(* stands for the tables with one row per path (progress, a shelf's        *)
(* memberships), `notes` for those with many (annotations).                *)
(***************************************************************************)
EXTENDS Integers, FiniteSets

CONSTANTS
    Paths, Books, Folders,
    FolderOf,       \* path -> folder it lies in
    FirstRoots,     \* config.library_paths at launch
    Faults,         \* subset of {"external", "crash", "unmount", "unread"}
    MaxOps, MaxScans, MaxFaults    \* bounds: user's operations, scans, faults

NoBook == "none"
NoRow == [stamp |-> NoBook, desc |-> NoBook, edited |-> FALSE, in |-> FALSE]

ASSUME RecordsAssumption ==
    /\ FolderOf \in [Paths -> Folders] /\ FirstRoots \subseteq Folders
    /\ Faults \subseteq {"external", "crash", "unmount", "unread"}
    /\ {MaxOps, MaxScans, MaxFaults} \subseteq Nat
    /\ NoBook \notin Books /\ "" \notin Paths

VARIABLES
    file,      \* path -> the book in that file, or NoBook
    away,      \* folders not mounted
    row,       \* books: [stamp: file it was indexed from, desc: book described,
               \*         edited, in: there is a row]
    progress,  \* path -> book the position was reached in, or NoBook
    notes,     \* path -> books the annotations were made in
    roots,     \* config.library_paths
    on,        \* the program runs
    ui,        \* what the main thread is in the middle of
    reader,    \* [path, book] of the open book
    job,       \* the scan thread
    ops, scans, faults,
    \* ghosts
    has,       \* book -> what the reader made of it, and has not deleted
    marred,    \* books whose records something below put out of step
    littered,  \* paths whose records outlived their file for a known reason
    calm       \* nothing but the running scan has acted since it began

tables == <<row, progress, notes>>
world == <<file, away>>
counters == <<ops, scans, faults>>
recordGhosts == <<has, marred, littered, calm>>
recordVars == <<world, tables, roots, on, ui, reader, job, counters, recordGhosts>>

Exists(p) == file[p] # NoBook /\ FolderOf[p] \notin away
Under(p, rs) == FolderOf[p] \in rs
Closed == [path |-> "", book |-> NoBook]
UiIdle == [at |-> "idle", path |-> "", to |-> "", todo |-> {}]
JobNone == [at |-> "none", rs |-> {}, todo |-> {}, path |-> "", book |-> NoBook,
            orphans |-> FALSE, then |-> "", unread |-> {}]
Ready == on /\ ui = UiIdle
Leftovers(p) == row[p].in \/ progress[p] # NoBook \/ notes[p] # {}
Scanning == job.at # "none"

RecordInit ==
    /\ file \in [Paths -> Books \cup {NoBook}]
    /\ \A p, q \in Paths : p # q /\ file[p] = file[q] => file[p] = NoBook
    /\ away = {} /\ row = [p \in Paths |-> NoRow]
    /\ progress = [p \in Paths |-> NoBook] /\ notes = [p \in Paths |-> {}]
    /\ roots = FirstRoots /\ on = FALSE /\ ui = UiIdle
    /\ reader = Closed /\ job = JobNone
    /\ ops = 0 /\ scans = 0 /\ faults = 0
    /\ has = [b \in Books |-> {}] /\ marred = {} /\ littered = {} /\ calm = FALSE

----------------------------------------------------------------------------
(* The statements.                                                         *)

(* upsert_book: file facts always, the description unless hand-edited.     *)
(* (mutant: a rescan reverts hand-edited fields)                           *)
UpsertReverting(r, b) == [stamp |-> b, desc |-> b, edited |-> FALSE, in |-> TRUE]
Upsert(r, b) ==
    [stamp |-> b, desc |-> IF r.edited THEN r.desc ELSE b,
     edited |-> r.edited, in |-> TRUE]

(* remove_book: a statement per table; `path` is a primary key of each but *)
(* the annotations.                                                        *)
Forget(p, table) ==
    /\ row' = IF table = "row" THEN [row EXCEPT ![p] = NoRow] ELSE row
    /\ progress' = IF table = "progress" THEN [progress EXCEPT ![p] = NoBook] ELSE progress
    /\ notes' = IF table = "notes" THEN [notes EXCEPT ![p] = {}] ELSE notes

(* rename_book_path: an UPDATE onto a key that is taken fails, and the     *)
(* failure is ignored.                                                     *)
Repoint(p, q, table) ==
    /\ row' = IF table = "row" /\ row[p].in /\ ~row[q].in
              THEN [row EXCEPT ![q] = row[p], ![p] = NoRow] ELSE row
    /\ progress' = IF table = "progress" /\ progress[q] = NoBook
                   THEN [progress EXCEPT ![q] = progress[p], ![p] = NoBook] ELSE progress
    /\ notes' = IF table = "notes"
                THEN [notes EXCEPT ![q] = @ \cup notes[p], ![p] = {}] ELSE notes

(* Ghost: the last statement of a removal, with nothing left behind and    *)
(* nothing about to be moved there.                                        *)
Cleared(p, table) ==
    littered' = IF /\ table = "notes" /\ reader.path # p /\ ui.to # p
                   /\ ~row'[p].in /\ progress'[p] = NoBook /\ notes'[p] = {}
                THEN littered \ {p} ELSE littered

After(table) ==
    CASE table = "row" -> "progress" [] table = "progress" -> "notes" [] OTHER -> "end"

----------------------------------------------------------------------------
(* The main thread.                                                        *)

NewJob(rs, orphans) ==
    [JobNone EXCEPT !.at = "walk", !.rs = rs, !.orphans = orphans,
                    !.todo = {p \in Paths : Under(p, rs)}]

(* A scan whose store does not open looks at nothing, and says so.         *)
Unopened == IF "unread" \in Faults THEN {[JobNone EXCEPT !.at = "unopened"]} ELSE {}

(* start_scan: nothing while a scan is in flight.                          *)
StartScan(rs, orphans) ==
    IF Scanning \/ scans = MaxScans
    THEN UNCHANGED <<job, scans>> /\ calm' = FALSE
    ELSE /\ job' \in {NewJob(rs, orphans)} \cup Unopened
         /\ scans' = scans + 1 /\ calm' = (job'.at = "walk")

(* mark_opened: a bare row when there is none.                             *)
Opened(p) ==
    row' = IF row[p].in THEN row ELSE [row EXCEPT ![p] = [NoRow EXCEPT !.in = TRUE]]

(* Launch into the library, which scans if it has folders, or with a file. *)
LaunchLibrary ==
    /\ ~on /\ on' = TRUE
    /\ IF roots # {} THEN StartScan(roots, FALSE) ELSE UNCHANGED <<job, scans>> /\ calm' = FALSE
    /\ UNCHANGED <<world, tables, roots, ui, reader, ops, faults, has, marred, littered>>

Open(p) ==
    /\ IF on THEN Ready /\ reader = Closed /\ row[p].in ELSE TRUE
    /\ Exists(p) /\ ops < MaxOps /\ ops' = ops + 1
    /\ on' = TRUE /\ reader' = [path |-> p, book |-> file[p]]
    /\ Opened(p) /\ calm' = FALSE
    /\ UNCHANGED <<world, progress, notes, roots, ui, job, scans, faults, has, marred, littered>>

Made(what) ==
    has' = IF file[reader.path] = reader.book
           THEN [has EXCEPT ![reader.book] = @ \cup {what}] ELSE has

(* save_progress, at a chapter's end, every 15 s, on leaving the book.     *)
SavePosition ==
    /\ Ready /\ reader # Closed
    /\ progress' = [progress EXCEPT ![reader.path] = reader.book]
    /\ reader' \in {reader, Closed}
    /\ Made("progress") /\ calm' = FALSE
    /\ UNCHANGED <<world, row, notes, roots, on, ui, job, counters, marred, littered>>

AddNote ==
    /\ Ready /\ reader # Closed /\ ops < MaxOps /\ ops' = ops + 1
    /\ notes' = [notes EXCEPT ![reader.path] = @ \cup {reader.book}]
    /\ Made("note") /\ calm' = FALSE
    /\ UNCHANGED <<world, row, progress, roots, on, ui, reader, job, scans, faults, marred, littered>>

(* save_meta_edit; embedding a cover rewrites the file, which then no      *)
(* longer is the one that was indexed.                                     *)
Edit(p) ==
    /\ Ready /\ reader = Closed /\ ops < MaxOps /\ ops' = ops + 1
    /\ row[p].in /\ row[p].desc \in Books
    /\ \E stamp \in {row[p].stamp} \cup (IF Exists(p) THEN {NoBook} ELSE {}) :
           row' = [row EXCEPT ![p].edited = TRUE, ![p].stamp = stamp]
    /\ has' = IF file[p] = row[p].desc
              THEN [has EXCEPT ![file[p]] = @ \cup {"edit"}] ELSE has
    /\ calm' = FALSE
    /\ UNCHANGED <<world, progress, notes, roots, on, ui, reader, job, scans, faults, marred, littered>>

(* rename_book_file, up to the move of the file: a taken name is skipped.  *)
MoveFile(p, q) ==
    /\ Ready /\ reader = Closed /\ ops < MaxOps /\ ops' = ops + 1
    /\ p # q /\ row[p].in /\ Exists(p) /\ FolderOf[p] = FolderOf[q]
    /\ ~Exists(q)
    /\ file' = [file EXCEPT ![q] = file[p], ![p] = NoBook]
    /\ ui' = [UiIdle EXCEPT !.at = "row", !.path = p, !.to = q]
    /\ IF Scanning \/ q \in littered
       THEN marred' = marred \cup {file[p]} /\ littered' = littered \cup {p}
       ELSE UNCHANGED <<marred, littered>>
    /\ calm' = FALSE
    /\ UNCHANGED <<away, tables, roots, on, reader, job, scans, faults, has>>

(* trash_paths: a file already gone still loses its rows.                  *)
Trash(p) ==
    /\ Ready /\ reader = Closed /\ ops < MaxOps /\ ops' = ops + 1
    /\ row[p].in
    /\ file' = IF Exists(p) THEN [file EXCEPT ![p] = NoBook] ELSE file
    /\ has' = IF file[p] # NoBook THEN [has EXCEPT ![file[p]] = {}] ELSE has
    /\ ui' = [UiIdle EXCEPT !.at = "row", !.path = p]
    /\ calm' = FALSE
    /\ UNCHANGED <<away, tables, roots, on, reader, job, scans, faults, marred, littered>>

(* One statement of a rename or of a removal.                              *)
UiStatement ==
    /\ on /\ ui.at \in {"row", "progress", "notes"}
    /\ IF ui.to = "" THEN Forget(ui.path, ui.at) ELSE Repoint(ui.path, ui.to, ui.at)
    /\ ui' = IF After(ui.at) # "end" THEN [ui EXCEPT !.at = After(ui.at)]
             ELSE IF ui.todo = {} THEN UiIdle
             ELSE [UiIdle EXCEPT !.at = "outside", !.todo = ui.todo]
    /\ Cleared(ui.path, ui.at) /\ calm' = FALSE
    /\ UNCHANGED <<world, roots, on, reader, job, counters, has, marred>>

(* commit_add_source, settings_delete_source, rescan_sources.              *)
AddSource(f) ==
    /\ Ready /\ reader = Closed /\ ops < MaxOps /\ ops' = ops + 1
    /\ f \notin away /\ roots' = roots \cup {f}
    /\ StartScan(roots', FALSE)
    /\ UNCHANGED <<world, tables, on, ui, reader, faults, has, marred, littered>>

(* Ghost: a book dropped for lying outside the folders.                    *)
Dropped(p) ==
    IF file[p] = NoBook THEN UNCHANGED <<has, marred>>
    ELSE has' = [has EXCEPT ![file[p]] = {}] /\ marred' = marred \cup {file[p]}

RemoveSource(f) ==
    /\ Ready /\ reader = Closed /\ ops < MaxOps /\ ops' = ops + 1
    /\ f \in roots /\ roots' = roots \ {f}
    /\ ui' = [UiIdle EXCEPT !.at = "outside", !.todo = {p \in Paths : row[p].in}]
    /\ calm' = FALSE
    /\ UNCHANGED <<world, tables, on, reader, job, scans, faults, has, marred, littered>>

(* prune_outside_roots on the main thread.                                 *)
UiOutside(p) ==
    /\ on /\ ui.at = "outside" /\ p \in ui.todo
    /\ ui' = IF ~Under(p, roots)
             THEN [ui EXCEPT !.at = "row", !.path = p, !.todo = @ \ {p}]
             ELSE IF ui.todo = {p} THEN UiIdle ELSE [ui EXCEPT !.todo = @ \ {p}]
    /\ IF Under(p, roots) THEN UNCHANGED <<has, marred>> ELSE Dropped(p)
    /\ calm' = FALSE
    /\ UNCHANGED <<world, tables, roots, on, reader, job, counters, littered>>

UiOutsideEmpty ==
    /\ on /\ ui.at = "outside" /\ ui.todo = {}
    /\ ui' = UiIdle
    /\ UNCHANGED <<world, tables, roots, on, reader, job, counters, recordGhosts>>

Rescan ==
    /\ Ready /\ reader = Closed /\ ops < MaxOps /\ ops' = ops + 1
    /\ ~Scanning /\ scans < MaxScans
    /\ StartScan(roots, TRUE)
    /\ UNCHANGED <<world, tables, roots, on, ui, reader, faults, has, marred, littered>>

(* Ghost: records whose file is gone when the program ends, with the scan  *)
(* that would have dropped them.                                           *)
Orphaned == {p \in Paths : file[p] = NoBook /\ (Leftovers(p) \/ reader.path = p)}

(* Leaving the program ends the scan thread wherever it is.                *)
Quit ==
    /\ Ready
    /\ progress' = IF reader = Closed THEN progress
                   ELSE [progress EXCEPT ![reader.path] = reader.book]
    /\ IF reader = Closed THEN UNCHANGED has ELSE Made("progress")
    /\ on' = FALSE /\ reader' = Closed /\ job' = JobNone /\ calm' = FALSE
    /\ littered' = littered \cup Orphaned
    /\ UNCHANGED <<world, row, notes, roots, ui, counters, marred>>

----------------------------------------------------------------------------
(* The scan thread.                                                        *)

JobFrame == UNCHANGED <<world, roots, on, ui, reader, counters, recordGhosts>>

(* scan_dir and index_book: a changed or unknown file is read ...  Its     *)
(* folder may not list, or the file not answer, and it is passed over.     *)
(* Ghost: `unread`, what this scan should have indexed and did not.        *)
Changed(p) == ~row[p].in \/ row[p].stamp # file[p]
Visit(p) ==
    /\ job.at = "walk" /\ p \in job.todo
    /\ \/ job' = IF Exists(p) /\ Changed(p)
                 THEN [job EXCEPT !.at = "index", !.path = p, !.book = file[p],
                                  !.todo = @ \ {p}]
                 ELSE [job EXCEPT !.todo = @ \ {p}]
       \/ /\ "unread" \in Faults /\ Exists(p) /\ Changed(p)
          /\ job' = [job EXCEPT !.todo = @ \ {p}, !.unread = @ \cup {p}]
    /\ UNCHANGED tables /\ JobFrame

(* ... and then written, unless it does not parse or the write fails.      *)
Index ==
    /\ job.at = "index"
    /\ \/ /\ row' = [row EXCEPT ![job.path] = Upsert(row[job.path], job.book)]
          /\ job' = [job EXCEPT !.at = "walk"]
       \/ /\ "unread" \in Faults /\ UNCHANGED row
          /\ job' = [job EXCEPT !.at = "walk", !.unread = @ \cup {job.path}]
    /\ UNCHANGED <<progress, notes>> /\ JobFrame

(* prune_missing takes the rows, and looks for each file in turn.          *)
StartPrune ==
    /\ job.at = "walk" /\ job.todo = {}
    /\ job' = [job EXCEPT !.at = "prune", !.todo = {p \in Paths : row[p].in}]
    /\ UNCHANGED tables /\ JobFrame

LookForFile(p) ==
    /\ job.at = "prune" /\ p \in job.todo
    /\ job' = IF Exists(p) THEN [job EXCEPT !.todo = @ \ {p}]
              ELSE [job EXCEPT !.at = "gone", !.path = p, !.todo = @ \ {p}]
    /\ UNCHANGED tables /\ JobFrame

(* A file missing under a configured folder that is away is kept.          *)
Offline(p) == Under(p, job.rs) /\ FolderOf[p] \in away
(* Ghost: what prunes a book that is only away mars it; a row kept of a    *)
(* file that is really gone is left behind.                                *)
LookForRoot ==
    /\ job.at = "gone"
    /\ job' = IF Offline(job.path) THEN [job EXCEPT !.at = "prune"]
              ELSE [job EXCEPT !.at = "row", !.then = "prune"]
    /\ marred' = IF file[job.path] # NoBook
                    /\ ~(Under(job.path, job.rs) /\ FolderOf[job.path] \in away)
                 THEN marred \cup {file[job.path]} ELSE marred
    /\ littered' = IF file[job.path] = NoBook /\ Offline(job.path)
                   THEN littered \cup {job.path} ELSE littered
    /\ UNCHANGED <<world, tables, roots, on, ui, reader, counters, has, calm>>

JobStatement ==
    /\ job.at \in {"row", "progress", "notes"}
    /\ Forget(job.path, job.at)
    /\ job' = [job EXCEPT !.at = IF After(job.at) = "end" THEN job.then ELSE After(job.at)]
    /\ Cleared(job.path, job.at)
    /\ UNCHANGED <<world, roots, on, ui, reader, counters, has, marred, calm>>

EndPrune ==
    /\ job.at = "prune" /\ job.todo = {}
    /\ job' = IF job.orphans
              THEN [job EXCEPT !.at = "outside", !.todo = {p \in Paths : row[p].in}]
              ELSE [job EXCEPT !.at = "sent"]
    /\ UNCHANGED tables /\ JobFrame

Outside(p) ==
    /\ job.at = "outside" /\ p \in job.todo
    /\ job' = IF Under(p, job.rs) THEN [job EXCEPT !.todo = @ \ {p}]
              ELSE [job EXCEPT !.at = "row", !.then = "outside", !.path = p,
                               !.todo = @ \ {p}]
    /\ IF Under(p, job.rs) THEN UNCHANGED <<has, marred>> ELSE Dropped(p)
    /\ UNCHANGED <<world, tables, roots, on, ui, reader, counters, littered, calm>>

EndOutside ==
    /\ job.at = "outside" /\ job.todo = {}
    /\ job' = [job EXCEPT !.at = "sent"]
    /\ UNCHANGED tables /\ JobFrame

PollScan ==
    /\ Ready /\ job.at \in {"sent", "unopened"}
    /\ job' = JobNone
    /\ UNCHANGED tables /\ JobFrame

----------------------------------------------------------------------------
(* What happens around the program.                                        *)

Fault(kind) == kind \in Faults /\ faults < MaxFaults /\ faults' = faults + 1 /\ calm' = FALSE

DeleteFile(p) ==
    /\ Fault("external") /\ Exists(p)
    /\ file' = [file EXCEPT ![p] = NoBook]
    /\ has' = [has EXCEPT ![file[p]] = {}]
    /\ littered' = littered \cup {p}
    /\ UNCHANGED <<away, tables, roots, on, ui, reader, job, ops, scans, marred>>

(* A file put where records, the open book, or a scan still speak of       *)
(* another one.                                                            *)
PutFile(p, b) ==
    /\ Fault("external") /\ file[p] = NoBook /\ FolderOf[p] \notin away
    /\ \A q \in Paths : file[q] # b
    /\ file' = [file EXCEPT ![p] = b]
    /\ marred' = IF p \in littered \/ Scanning \/ ui # UiIdle
                 THEN marred \cup {b} ELSE marred \ {b}
    /\ UNCHANGED <<away, tables, roots, on, ui, reader, job, ops, scans, has, littered>>

Unmount(f) ==
    /\ Fault("unmount") /\ away' = away \cup {f} /\ f \notin away
    /\ UNCHANGED <<file, tables, roots, on, ui, reader, job, ops, scans, has, marred, littered>>

Mount(f) ==
    /\ f \in away /\ away' = away \ {f} /\ calm' = FALSE
    /\ UNCHANGED <<file, tables, roots, on, ui, reader, job, counters, has, marred, littered>>

(* A kill, between any two statements.                                     *)
Crash ==
    /\ Fault("crash") /\ on
    /\ on' = FALSE /\ ui' = UiIdle /\ reader' = Closed /\ job' = JobNone
    /\ marred' = IF ui.to # "" THEN marred \cup {file[ui.to]} ELSE marred
    /\ littered' = littered \cup Orphaned
    /\ UNCHANGED <<world, tables, roots, ops, scans, has>>

RecordNext ==
    \/ LaunchLibrary \/ Quit \/ SavePosition \/ AddNote \/ UiStatement
    \/ UiOutsideEmpty \/ Rescan \/ Index \/ StartPrune \/ LookForRoot
    \/ JobStatement \/ EndPrune \/ EndOutside \/ PollScan \/ Crash
    \/ \E p \in Paths : \/ Open(p) \/ Edit(p) \/ Trash(p) \/ UiOutside(p) \/ Visit(p)
                        \/ LookForFile(p) \/ Outside(p) \/ DeleteFile(p)
                        \/ \E q \in Paths : MoveFile(p, q)
                        \/ \E b \in Books : PutFile(p, b)
    \/ \E f \in Folders : AddSource(f) \/ RemoveSource(f) \/ Unmount(f) \/ Mount(f)

RecordSpec == RecordInit /\ [][RecordNext]_recordVars

----------------------------------------------------------------------------
RecordTypeOK ==
    /\ file \in [Paths -> Books \cup {NoBook}] /\ away \subseteq Folders
    /\ row \in [Paths -> [stamp : Books \cup {NoBook}, desc : Books \cup {NoBook},
                          edited : BOOLEAN, in : BOOLEAN]]
    /\ \A p \in Paths : row[p].in \/ row[p] = NoRow
    /\ progress \in [Paths -> Books \cup {NoBook}] /\ notes \in [Paths -> SUBSET Books]
    /\ roots \subseteq Folders /\ on \in BOOLEAN
    /\ reader.path \in Paths \cup {""} /\ job.todo \subseteq Paths
    /\ has \in [Books -> SUBSET {"progress", "note", "edit"}]

(* What the reader made of book `b` is under `p`, and nothing of another.  *)
EditAt(b, p) == "edit" \in has[b] => row[p].edited /\ row[p].desc = b
PlaceAt(b, p) == ("progress" \in has[b] => progress[p] = b) /\ progress[p] \in {NoBook, b}
NotesAt(b, p) == ("note" \in has[b] => b \in notes[p]) /\ notes[p] \subseteq {b}
KeptAt(p) == EditAt(file[p], p) /\ PlaceAt(file[p], p) /\ NotesAt(file[p], p)

Settled(p) == ui.path # p /\ ui.to # p
Sound(p) == file[p] \in Books \ marred /\ Settled(p)

(* What the reader made of a book stays under the path its file has, over  *)
(* any renames, rescans, folders added and removed, quits and kills, and   *)
(* no book resumes at another's position or shows another's notes.  The    *)
(* exceptions are the ones `marred` names: a rename during a scan, cut     *)
(* short, or onto a name records were left under; a file put in the place  *)
(* of another from outside; a drive unplugged outside the folders or just  *)
(* as the scan looks; a row kept while its folder is away.                 *)
RecordsKept == \A p \in Paths : Sound(p) => KeptAt(p)

(* Between any two statements of a rename, and so wherever a kill may cut  *)
(* it short, each record of the book is whole under one of its two names:  *)
(* under the new one as soon as its own statement has run.                 *)
Renaming == ui.to # ""
Void(p) == file[p] = NoBook \/ file[p] \in marred
RenameCarries ==
    (Renaming /\ ~Void(ui.to)) =>
        /\ EditAt(file[ui.to], IF ui.at = "row" THEN ui.path ELSE ui.to)
        /\ PlaceAt(file[ui.to], IF ui.at \in {"row", "progress"} THEN ui.path ELSE ui.to)
        /\ NotesAt(file[ui.to], ui.path)

(* A scan nothing interfered with leaves in the index exactly the files of *)
(* the folders it could read; one it could not keeps the row it had, or    *)
(* none, which says that it is still to be read.  A folder that is away    *)
(* keeps its rows, and nothing outside the folders survives a rescan.      *)
ScanExact ==
    (job.at = "sent" /\ calm) => \A p \in Paths :
        /\ (Under(p, roots) /\ FolderOf[p] \notin away) =>
               IF p \in job.unread THEN Exists(p) /\ Changed(p)
               ELSE row[p].in = (file[p] # NoBook) /\ row[p].stamp = file[p]
        /\ ~Under(p, roots) => (row[p].in => Exists(p) /\ ~job.orphans)
(* What the store has is what is on disk, and each record its own book's.  *)
IndexSound == RecordsKept /\ RenameCarries /\ ScanExact

(* rename_book_path: "Repoint every per-book record from `old` to `new`    *)
(* after a file rename": when its last statement has run, what the reader  *)
(* made of the book is under the new name.                                 *)
RenameKeepsRecords ==
    [][(ui.to # "" /\ ui.at = "notes" /\ ui' = UiIdle /\ on' /\ file[ui.to] \in Books)
        => /\ "note" \in has[file[ui.to]] => file[ui.to] \in notes'[ui.to]
           /\ "progress" \in has[file[ui.to]] => progress'[ui.to] = file[ui.to]]_recordVars
=============================================================================
