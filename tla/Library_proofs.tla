---------------------------- MODULE Library_proofs ----------------------------
(***************************************************************************)
(* The library, for any shelf of books: the store keeps what each book is  *)
(* owed, the duplicate resolver offers whole groups and never takes the    *)
(* last copy of a work, the desk never names, marks or ticks what the      *)
(* store no longer has, and wherever the keys lead a book that is read on, *)
(* the place follows.                                                      *)
(*                                                                         *)
(* The store's IndexSound holds for any files, folders and interleaving of *)
(* a scan, a removal, a rename, the reader and the disk, but says nothing  *)
(* of one of them half done, so it is not inductive.  `RecordsInv` adds    *)
(* what holds in between: what each statement of the main thread and of    *)
(* the scan may find and what it has left behind; that a row, a place or a *)
(* note under a path whose file is gone belongs to a step on its way (or   *)
(* to a scan that has not looked there yet); where the parts of a book are *)
(* while a rename carries them one by one; and what a scan nobody disturbs *)
(* has seen and passed over unread.  What else the disk does to a path     *)
(* puts it out of step: such a path is in `littered`, such a book in       *)
(* `marred`, and nothing is said of either.                                *)
(*                                                                         *)
(* The resolver's groups come out of a union-find whose `find` recurses.   *)
(* That its recursion has a solution, and only one, holds because the      *)
(* trees it climbs are forests (`IsForest`: something decreases on the way *)
(* up), which `Hang` keeps whatever the order of the links; the roots then *)
(* tell apart exactly what the links do (`Joins`), so the groups are the   *)
(* components.  The rest of `DupInv` is what an overlay keeps true of the  *)
(* proposal while the files and the rows change beneath it.                *)
(*                                                                         *)
(* `DeskInv` adds to the desk's types and to DeskShowsStore what a scan    *)
(* needs: a book that only now gets its row is in no list and no picker.   *)
(*                                                                         *)
(* For reading on, `FlowInv` says what a place is by what was done since   *)
(* the last frame: the one drawn, the far side of an edge the frame        *)
(* showed, or a line a scroll should have led to.  That a scroll leads     *)
(* there is a count of the book's lines over the recursions that cross its *)
(* chapters.                                                               *)
(***************************************************************************)
EXTENDS BookRecords, Duplicates, LibraryDesk, ReadingFlow, DataLemmas, SequenceTheorems

-----------------------------------------------------------------------------
(* The store's invariant.  First the shapes of its records.                 *)

Statements == {"row", "progress", "notes"}
Stages == Statements \cup {"none", "walk", "index", "prune", "gone", "outside", "sent",
                          "unopened"}
Rows == [stamp : Books \cup {NoBook}, desc : Books \cup {NoBook}, edited : BOOLEAN, in : BOOLEAN]
Uis == [at : Statements \cup {"idle", "outside"}, path : Paths \cup {""}, to : Paths \cup {""},
        todo : SUBSET Paths]
Jobs == [at : Stages, rs : SUBSET Folders, todo : SUBSET Paths, path : Paths \cup {""},
         book : Books \cup {NoBook}, orphans : BOOLEAN, then : {"", "prune", "outside"},
         unread : SUBSET Paths]
Readers == [path : Paths, book : Books] \cup {Closed}

FilesTyped == file \in [Paths -> Books \cup {NoBook}] /\ away \subseteq Folders
TablesTyped ==
    /\ row \in [Paths -> Rows] /\ \A p \in Paths : row[p].in \/ row[p] = NoRow
    /\ progress \in [Paths -> Books \cup {NoBook}] /\ notes \in [Paths -> SUBSET Books]
RunTyped == roots \subseteq Folders /\ on \in BOOLEAN /\ ui \in Uis /\ reader \in Readers
JobTyped == job \in Jobs
MadeTyped == has \in [Books -> SUBSET {"progress", "note", "edit"}]

\* Both threads go through the statements of a removal or a rename one by one.
Removing == ui.at \in Statements /\ ~Renaming
UiShape ==
    /\ ui.at = "idle" => ui = UiIdle
    /\ ui.at \in Statements => ui.path \in Paths
    /\ ui.at = "outside" => ui.path = "" /\ ui.to = ""
    /\ Renaming => ui.at \in Statements /\ ui.path # ui.to /\ ui.todo = {}
JobShape ==
    /\ job.at = "none" => job = JobNone
    /\ job.at \in Statements \cup {"index", "gone"} => job.path \in Paths
    /\ job.at = "index" => job.book \in Books
    /\ job.at \in Statements => job.then \in {"prune", "outside"}
OneAtATime ==
    /\ ui # UiIdle => reader = Closed
    /\ ~on => ui = UiIdle /\ reader = Closed /\ job = JobNone

\* The disk, and what is known of its books.
FilesApart == \A p, q \in Paths : file[p] = file[q] => p = q \/ file[p] = NoBook
NothingKnown == \A b \in Books : (\A p \in Paths : file[p] # b) => has[b] = {}

\* The book that is open is in its file, or something put that out of step.
ReaderKnows == reader # Closed =>
    \/ file[reader.path] = reader.book
    \/ file[reader.path] # NoBook /\ file[reader.path] \in marred
    \/ file[reader.path] = NoBook /\ reader.path \in littered

\* Where the scan still looks at a path, or is about to forget its row.
Pruning == job.at \in {"prune", "gone"} \/ (job.at \in Statements /\ job.then = "prune")
Pending(p) ==
    \/ job.at \in {"walk", "index"}
    \/ Pruning /\ p \in job.todo
    \/ job.path = p /\ (job.at = "gone" \/ (job.at = "row" /\ job.then = "prune"))
Lost(p) == file[p] = NoBook /\ p \notin littered
RowsFollow == \A p \in Paths :
    Lost(p) /\ row[p].in => (ui.path = p /\ ui.at = "row") \/ Pending(p)
ProgressFollows == \A p \in Paths :
    Lost(p) /\ progress[p] # NoBook => ui.path = p /\ ui.at \in {"row", "progress"}
NotesFollow == \A p \in Paths :
    Lost(p) /\ notes[p] # {} => ui.path = p /\ ui.at \in Statements

\* What a rename and a removal rely on while their statements run.
Emptied(p) == ~ row[p].in /\ progress[p] = NoBook /\ notes[p] = {}
WayIsClear ==
    /\ ~ Scanning
    /\ ui.at = "row" => ~ row[ui.to].in
    /\ ui.at \in {"row", "progress"} => progress[ui.to] = NoBook
RenameClears == (Renaming /\ ui.path \notin littered) =>
    WayIsClear \/ (Emptied(ui.path) /\ job.at \notin {"walk", "index"})
RenameLeaves == Renaming => Void(ui.path)
RenameArrives == Renaming => ~ Lost(ui.to)
ScanTakes == job.at \in Statements => Void(job.path)
NothingOwed(p) == has[file[p]] = {} /\ progress[p] \in {NoBook, file[p]} /\ notes[p] \subseteq {file[p]}
RemovalTakes == Removing =>
    /\ Void(ui.path) \/ NothingOwed(ui.path)
    /\ ui.at = "notes" => progress[ui.path] = NoBook

\* Nothing is in the way of what a rename still has to carry.
Carrying == RenameCarries /\ (Renaming /\ ~ Void(ui.to) => WayIsClear /\ notes[ui.to] = {})

\* What a scan nobody disturbs has done so far.
Agrees(p) == row[p].in /\ row[p].stamp = file[p]
Dropping == job.at = "outside" \/ (job.at \in Statements /\ job.then = "outside")
Walked == \A p \in Paths : Under(p, roots) /\ Exists(p) =>
    \/ Agrees(p) \/ p \in job.unread
    \/ job.at \in {"walk", "index"} /\ p \in job.todo
    \/ job.at = "index" /\ p = job.path
Read == job.at = "index" => Exists(job.path) /\ job.book = file[job.path]
Passed ==
    /\ \A p \in job.unread : Exists(p) /\ Changed(p)
    /\ job.at \in {"walk", "index"} => job.unread \cap job.todo = {}
    /\ job.at = "index" => Changed(job.path) /\ job.path \notin job.unread \cup job.todo
Pruned == job.at \notin {"walk", "index"} => \A p \in Paths : row[p].in =>
    \/ Exists(p) \/ Offline(p)
    \/ Pruning /\ p \in job.todo
    \/ job.path = p /\ job.at \in {"gone", "row"}
Missed == (Pruning /\ job.at # "prune") => ~ Exists(job.path)
Strayed == (job.at \in Statements /\ job.then = "outside") => ~ Under(job.path, roots)
StraysDropped == (Dropping \/ (job.at = "sent" /\ job.orphans)) =>
    \A p \in Paths : row[p].in /\ ~ Under(p, roots) =>
        \/ Dropping /\ p \in job.todo
        \/ job.path = p /\ job.at = "row"
ScanSees == (calm /\ Scanning) =>
    /\ job.rs = roots
    /\ Walked /\ Read /\ Passed /\ Pruned /\ Missed /\ Strayed /\ StraysDropped

RecordsInv ==
    /\ FilesTyped /\ TablesTyped /\ RunTyped /\ JobTyped /\ MadeTyped
    /\ UiShape /\ JobShape /\ OneAtATime
    /\ FilesApart /\ NothingKnown /\ ReaderKnows
    /\ RowsFollow /\ ProgressFollows /\ NotesFollow
    /\ RenameClears /\ RenameLeaves /\ RenameArrives /\ ScanTakes /\ RemovalTakes /\ Carrying
    /\ RecordsKept /\ ScanSees

-----------------------------------------------------------------------------
(* What the actions do, as far as the proofs use it.                       *)

\* What the shapes say of the fields.
LEMMA Fields ==
    ASSUME RecordsInv
    PROVE  /\ reader # Closed => reader.path \in Paths /\ reader.book \in Books
           /\ job.path \in Paths \cup {""} /\ job.todo \in SUBSET Paths /\ job.at \in Stages
           /\ ui.at \in Statements \cup {"idle", "outside"} /\ ui.todo \in SUBSET Paths
           /\ ui.path \in Paths \cup {""} /\ ui.to \in Paths \cup {""}
           /\ Renaming => ui.path \in Paths /\ ui.to \in Paths
           /\ Removing => ui.path \in Paths
           /\ UiIdle.at = "idle" /\ UiIdle.path = "" /\ UiIdle.to = "" /\ UiIdle.todo = {}
           /\ UiIdle \in Uis
           /\ JobNone.at = "none" /\ JobNone.path = "" /\ JobNone.then = ""
           /\ Closed.path = "" /\ NoBook \notin Books /\ "" \notin Paths
<1>1. ui \in Uis /\ reader \in Readers /\ job \in Jobs
  BY DEF RecordsInv, RunTyped, JobTyped
<1>2. /\ reader # Closed => reader.path \in Paths /\ reader.book \in Books
  BY <1>1 DEF Readers
<1>3. job.path \in Paths \cup {""} /\ job.todo \in SUBSET Paths /\ job.at \in Stages
  BY <1>1 DEF Jobs
<1>4. /\ ui.at \in Statements \cup {"idle", "outside"} /\ ui.todo \in SUBSET Paths
      /\ ui.path \in Paths \cup {""} /\ ui.to \in Paths \cup {""}
  BY <1>1 DEF Uis
<1>5. NoBook \notin Books /\ "" \notin Paths
  BY RecordsAssumption
<1>6. (Renaming => ui.path \in Paths /\ ui.to \in Paths) /\ (Removing => ui.path \in Paths)
  BY <1>4 DEF RecordsInv, UiShape, Renaming, Removing
<1>7. UiIdle \in Uis
  BY DEF UiIdle, Uis
<1> QED BY <1>2, <1>3, <1>4, <1>5, <1>6, <1>7 DEF UiIdle, JobNone, Closed

\* What the shapes say of a path.
LEMMA RowFields ==
    ASSUME RecordsInv, NEW p \in Paths
    PROVE  /\ row[p] \in Rows /\ row[p].stamp \in Books \cup {NoBook} /\ row[p].desc \in Books \cup {NoBook}
           /\ row[p].edited \in BOOLEAN /\ row[p].in \in BOOLEAN
           /\ ~ row[p].in => row[p] = NoRow
           /\ file[p] \in Books \cup {NoBook} 
           /\ progress[p] \in Books \cup {NoBook} /\ notes[p] \in SUBSET Books
           /\ NoRow \in Rows
           /\ NoRow.in = FALSE /\ NoRow.edited = FALSE /\ NoRow.stamp = NoBook /\ NoRow.desc = NoBook
BY DEF RecordsInv, FilesTyped, TablesTyped, Rows, NoRow

\* A scan that begins.
LEMMA NewJobIs ==
    ASSUME NEW o \in BOOLEAN, NEW rs \in SUBSET Folders
    PROVE  /\ JobNone \in Jobs /\ NewJob(rs, o) \in Jobs
           /\ \A j \in Unopened : j \in Jobs /\ j.at = "unopened" /\ j.path = ""
<1>1. /\ {"walk", "none", "unopened"} \subseteq Stages /\ {} \in SUBSET Folders /\ {} \in SUBSET Paths
      /\ "" \in Paths \cup {""} /\ NoBook \in Books \cup {NoBook} /\ FALSE \in BOOLEAN
      /\ "" \in {"", "prune", "outside"}
  BY DEF Stages
<1>2. JobNone \in Jobs /\ JobNone.path = "" /\ JobNone.unread = {}
  BY <1>1 DEF JobNone, Jobs
<1>3. \A j \in Unopened : j = [JobNone EXCEPT !.at = "unopened"]
  BY DEF Unopened
<1>4. \A j \in Unopened : j \in Jobs /\ j.at = "unopened" /\ j.path = ""
  BY <1>1, <1>2, <1>3 DEF Jobs
<1> DEFINE todos == {p \in Paths : Under(p, rs)}
<1>5. todos \in SUBSET Paths
  OBVIOUS
<1>6. NewJob(rs, o) = [JobNone EXCEPT !.at = "walk", !.rs = rs, !.orphans = o, !.todo = todos]
  BY DEF NewJob
<1> HIDE DEF todos
<1>7. NewJob(rs, o) \in Jobs
  BY <1>1, <1>2, <1>5, <1>6 DEF Jobs
<1> QED BY <1>2, <1>4, <1>7

\* What each action leaves alone.
LEMMA Frames ==
    /\ LaunchLibrary
              => UNCHANGED <<file, away, row, progress, notes, roots, ui, reader, has, marred, littered>>
    /\ (\E p \in Paths : Open(p))
              => UNCHANGED <<file, away, progress, notes, roots, ui, job, has, marred, littered>>
    /\ SavePosition
              => UNCHANGED <<file, away, row, notes, roots, on, ui, job, marred, littered>>
    /\ AddNote
              => UNCHANGED <<file, away, row, progress, roots, on, ui, reader, job, marred, littered>>
    /\ (\E p \in Paths : Edit(p))
              => UNCHANGED <<file, away, progress, notes, roots, on, ui, reader, job, marred, littered>>
    /\ (\E p, q \in Paths : MoveFile(p, q))
              => UNCHANGED <<away, row, progress, notes, roots, on, reader, job, has>>
    /\ (\E p \in Paths : Trash(p))
              => UNCHANGED <<away, row, progress, notes, roots, on, reader, job, marred, littered>>
    /\ UiStatement
              => UNCHANGED <<file, away, roots, on, reader, job, has, marred>>
    /\ (\E f \in Folders : AddSource(f))
              => UNCHANGED <<file, away, row, progress, notes, on, ui, reader, has, marred, littered>>
    /\ (\E f \in Folders : RemoveSource(f))
              => UNCHANGED <<file, away, row, progress, notes, on, reader, job, has, marred, littered>>
    /\ (\E p \in Paths : UiOutside(p))
              => UNCHANGED <<file, away, row, progress, notes, roots, on, reader, job, littered>>
    /\ UiOutsideEmpty
              => UNCHANGED <<file, away, row, progress, notes, roots, on, reader, job, has, marred,
                             littered, calm>>
    /\ Rescan
              => UNCHANGED <<file, away, row, progress, notes, roots, on, ui, reader, has, marred, littered>>
    /\ Quit
              => UNCHANGED <<file, away, row, notes, roots, ui, marred>>
    /\ ((\E p \in Paths : Visit(p)) \/ StartPrune \/ (\E p \in Paths : LookForFile(p))
        \/ EndPrune \/ EndOutside \/ PollScan)
              => UNCHANGED <<file, away, row, progress, notes, roots, on, ui, reader, has, marred,
                             littered, calm>>
    /\ Index
              => UNCHANGED <<file, away, progress, notes, roots, on, ui, reader, has, marred, littered, calm>>
    /\ LookForRoot
              => UNCHANGED <<file, away, row, progress, notes, roots, on, ui, reader, has, calm>>
    /\ JobStatement
              => UNCHANGED <<file, away, roots, on, ui, reader, has, marred, calm>>
    /\ (\E p \in Paths : Outside(p))
              => UNCHANGED <<file, away, row, progress, notes, roots, on, ui, reader, littered, calm>>
    /\ (\E p \in Paths : DeleteFile(p))
              => UNCHANGED <<away, row, progress, notes, roots, on, ui, reader, job, marred>>
    /\ (\E p \in Paths, b \in Books : PutFile(p, b))
              => UNCHANGED <<away, row, progress, notes, roots, on, ui, reader, job, has, littered>>
    /\ ((\E f \in Folders : Unmount(f)) \/ (\E f \in Folders : Mount(f)))
              => UNCHANGED <<file, row, progress, notes, roots, on, ui, reader, job, has, marred, littered>>
    /\ Crash
              => UNCHANGED <<file, away, row, progress, notes, roots, has>>
<1>1. (LaunchLibrary)
      => UNCHANGED <<file, away, row, progress, notes, roots, ui, reader, has, marred, littered>>
  BY DEF LaunchLibrary, world, tables
<1>2. (\E p \in Paths : Open(p))
      => UNCHANGED <<file, away, progress, notes, roots, ui, job, has, marred, littered>>
  BY DEF Open, world
<1>3. (SavePosition)
      => UNCHANGED <<file, away, row, notes, roots, on, ui, job, marred, littered>>
  BY DEF SavePosition, world
<1>4. (AddNote)
      => UNCHANGED <<file, away, row, progress, roots, on, ui, reader, job, marred, littered>>
  BY DEF AddNote, world
<1>5. (\E p \in Paths : Edit(p))
      => UNCHANGED <<file, away, progress, notes, roots, on, ui, reader, job, marred, littered>>
  BY DEF Edit, world
<1>6. (\E p, q \in Paths : MoveFile(p, q))
      => UNCHANGED <<away, row, progress, notes, roots, on, reader, job, has>>
  BY DEF MoveFile, tables
<1>7. (\E p \in Paths : Trash(p))
      => UNCHANGED <<away, row, progress, notes, roots, on, reader, job, marred, littered>>
  BY DEF Trash, tables
<1>8. (UiStatement)
      => UNCHANGED <<file, away, roots, on, reader, job, has, marred>>
  BY DEF UiStatement, world
<1>9. (\E f \in Folders : AddSource(f))
      => UNCHANGED <<file, away, row, progress, notes, on, ui, reader, has, marred, littered>>
  BY DEF AddSource, world, tables
<1>10. (\E f \in Folders : RemoveSource(f))
      => UNCHANGED <<file, away, row, progress, notes, on, reader, job, has, marred, littered>>
  BY DEF RemoveSource, world, tables
<1>11. (\E p \in Paths : UiOutside(p))
      => UNCHANGED <<file, away, row, progress, notes, roots, on, reader, job, littered>>
  BY DEF UiOutside, world, tables
<1>12. (UiOutsideEmpty)
      => UNCHANGED <<file, away, row, progress, notes, roots, on, reader, job, has, marred,
                             littered, calm>>
  BY DEF UiOutsideEmpty, world, tables, recordGhosts
<1>13. (Rescan)
      => UNCHANGED <<file, away, row, progress, notes, roots, on, ui, reader, has, marred, littered>>
  BY DEF Rescan, world, tables
<1>14. (Quit)
      => UNCHANGED <<file, away, row, notes, roots, ui, marred>>
  BY DEF Quit, world
<1>15. ((\E p \in Paths : Visit(p)) \/ StartPrune \/ (\E p \in Paths : LookForFile(p))
        \/ EndPrune \/ EndOutside \/ PollScan)
      => UNCHANGED <<file, away, row, progress, notes, roots, on, ui, reader, has, marred,
                             littered, calm>>
  BY DEF Visit, StartPrune, LookForFile, EndPrune, EndOutside, PollScan, world, tables,
     recordGhosts, JobFrame
<1>16. (Index)
      => UNCHANGED <<file, away, progress, notes, roots, on, ui, reader, has, marred, littered, calm>>
  BY DEF Index, world, recordGhosts, JobFrame
<1>17. (LookForRoot)
      => UNCHANGED <<file, away, row, progress, notes, roots, on, ui, reader, has, calm>>
  BY DEF LookForRoot, world, tables
<1>18. (JobStatement)
      => UNCHANGED <<file, away, roots, on, ui, reader, has, marred, calm>>
  BY DEF JobStatement, world
<1>19. (\E p \in Paths : Outside(p))
      => UNCHANGED <<file, away, row, progress, notes, roots, on, ui, reader, littered, calm>>
  BY DEF Outside, world, tables
<1>20. (\E p \in Paths : DeleteFile(p))
      => UNCHANGED <<away, row, progress, notes, roots, on, ui, reader, job, marred>>
  BY DEF DeleteFile, tables
<1>21. (\E p \in Paths, b \in Books : PutFile(p, b))
      => UNCHANGED <<away, row, progress, notes, roots, on, ui, reader, job, has, littered>>
  BY DEF PutFile, tables
<1>22. ((\E f \in Folders : Unmount(f)) \/ (\E f \in Folders : Mount(f)))
      => UNCHANGED <<file, row, progress, notes, roots, on, ui, reader, job, has, marred, littered>>
  BY DEF Unmount, Mount, tables
<1>23. (Crash)
      => UNCHANGED <<file, away, row, progress, notes, roots, has>>
  BY DEF Crash, world, tables
<1> QED BY <1>1, <1>2, <1>3, <1>4, <1>5, <1>6, <1>7, <1>8, <1>9, <1>10, <1>11, <1>12, <1>13, <1>14,
      <1>15, <1>16, <1>17, <1>18, <1>19, <1>20, <1>21, <1>22, <1>23

\* A launch, a folder added and a rescan start a scan, which looks at every
\* file of the folders or, without a store, at none; or they start none.
LEMMA Starts ==
    ASSUME RecordsInv, LaunchLibrary \/ Rescan \/ \E f \in Folders : AddSource(f)
    PROVE  \/ job' = job /\ calm' = FALSE
           \/ /\ ~ Scanning /\ ui = UiIdle /\ job' \in Jobs /\ job'.path = ""
              /\ \/ job'.at = "unopened" /\ calm' = FALSE
                 \/ /\ job'.at = "walk" /\ job'.rs = roots' /\ job'.unread = {}
                    /\ job'.todo = {p \in Paths : Under(p, roots')}
<1>1. roots' \in SUBSET Folders
  BY Frames DEF RecordsInv, RunTyped, AddSource
<1>2. ui = UiIdle
  BY DEF RecordsInv, OneAtATime, LaunchLibrary, Rescan, AddSource, Ready
<1>3. \/ job' = job /\ calm' = FALSE
      \/ /\ ~ Scanning /\ calm' = (job'.at = "walk")
         /\ \E o \in BOOLEAN : job' = NewJob(roots', o) \/ job' \in Unopened
  <2>1. CASE LaunchLibrary
    BY <2>1, Frames DEF LaunchLibrary, StartScan
  <2>2. CASE Rescan
    BY <2>2, Frames DEF Rescan, StartScan
  <2>3. CASE \E f \in Folders : AddSource(f)
    BY <2>3 DEF AddSource, StartScan
  <2> QED BY <2>1, <2>2, <2>3
<1>4. ASSUME NEW o \in BOOLEAN, job' = NewJob(roots', o)
      PROVE  /\ job' \in Jobs /\ job'.path = "" /\ job'.at = "walk" /\ job'.rs = roots'
             /\ job'.unread = {} /\ job'.todo = {p \in Paths : Under(p, roots')}
  <2>1. PICK rs \in SUBSET Folders : rs = roots'
    BY <1>1, Zenon
  <2>2. job' = NewJob(rs, o)
    BY <1>4, <2>1
  <2>3. /\ job' \in Jobs /\ job'.path = "" /\ job'.at = "walk" /\ job'.rs = rs
        /\ job'.unread = {} /\ job'.todo = {p \in Paths : Under(p, rs)}
    <3>1. NewJob(rs, o) \in Jobs
      BY NewJobIs
    <3>2. /\ NewJob(rs, o).at = "walk" /\ NewJob(rs, o).path = ""
          /\ NewJob(rs, o).rs = rs /\ NewJob(rs, o).unread = {}
      BY DEF NewJob, JobNone
    <3>3. NewJob(rs, o).todo = {p \in Paths : Under(p, rs)}
      BY DEF NewJob, JobNone
    <3> QED BY <2>2, <3>1, <3>2, <3>3
  <2>4. \A p \in Paths : Under(p, rs) <=> Under(p, roots')
    BY <2>1
  <2>5. {p \in Paths : Under(p, rs)} = {p \in Paths : Under(p, roots')}
    BY <2>4
  <2> QED BY <2>1, <2>3, <2>5
<1>5. ASSUME job' \in Unopened
      PROVE  job' \in Jobs /\ job'.path = "" /\ job'.at = "unopened"
  <2>1. roots \in SUBSET Folders /\ FALSE \in BOOLEAN
    BY DEF RecordsInv, RunTyped
  <2> QED BY <1>5, <2>1, NewJobIs
<1> QED BY <1>2, <1>3, <1>4, <1>5

\* Where neither thread is at anything, no lost file has a row.
LEMMA NothingWaits ==
    ASSUME RecordsInv, ~ Scanning, ui = UiIdle, NEW r \in Paths
    PROVE  ~ (Lost(r) /\ row[r].in)
<1>1. job = JobNone
  BY DEF Scanning, RecordsInv, JobShape
<1>2. ui.path # r /\ ~ Pending(r)
  BY <1>1, Fields DEF Pending, Pruning, Statements
<1> QED BY <1>2 DEF RecordsInv, RowsFollow

\* The main thread's statements one after the other.
LEMMA UiAfter ==
    ASSUME RecordsInv, UiStatement
    PROVE  /\ ui.at \in Statements /\ ui.path \in Paths
           /\ \/ /\ ui.at = "row" /\ ui'.at = "progress"
                 /\ ui'.path = ui.path /\ ui'.to = ui.to /\ ui'.todo = ui.todo
              \/ /\ ui.at = "progress" /\ ui'.at = "notes"
                 /\ ui'.path = ui.path /\ ui'.to = ui.to /\ ui'.todo = ui.todo
              \/ /\ ui.at = "notes" /\ ui'.at \in {"idle", "outside"}
                 /\ ui'.path = "" /\ ui'.to = ""
<1>1. ui.at \in Statements /\ ui.path \in Paths
  BY DEF RecordsInv, UiShape, UiStatement, Statements
<1>2. CASE ui.at = "row"
  <2>1. ui' = [ui EXCEPT !.at = "progress"]
    BY <1>2 DEF UiStatement, After
  <2> QED BY <1>1, <1>2, <2>1 DEF RecordsInv
<1>3. CASE ui.at = "progress"
  <2>1. ui' = [ui EXCEPT !.at = "notes"]
    BY <1>3 DEF UiStatement, After
  <2> QED BY <1>1, <1>3, <2>1 DEF RecordsInv
<1>4. CASE ui.at = "notes"
  <2>1. ui' = UiIdle \/ ui' = [UiIdle EXCEPT !.at = "outside", !.todo = ui.todo]
    BY <1>4 DEF UiStatement, After
  <2> QED BY <1>1, <1>4, <2>1, Fields DEF Uis
<1> QED BY <1>1, <1>2, <1>3, <1>4 DEF Statements

\* The main thread looks at the paths outside the folders it still has.
LEMMA OutsideAfter ==
    ASSUME RecordsInv, NEW p \in Paths, UiOutside(p)
    PROVE  /\ ui.at = "outside" /\ ui.path = "" /\ ui.to = "" /\ ui'.to = ""
           /\ \/ ~ Under(p, roots) /\ ui'.at = "row" /\ ui'.path = p
              \/ Under(p, roots) /\ ui'.at \in {"idle", "outside"} /\ ui'.path = ""
<1>1. ui.at = "outside" /\ ui.path = "" /\ ui.to = ""
  BY DEF RecordsInv, UiShape, UiOutside
<1>2. CASE ~ Under(p, roots)
  <2>1. ui' = [ui EXCEPT !.at = "row", !.path = p, !.todo = @ \ {p}]
    BY <1>2 DEF UiOutside
  <2> QED BY <1>1, <1>2, <2>1 DEF RecordsInv, RunTyped, Uis
<1>3. CASE Under(p, roots)
  <2>1. ui' = UiIdle \/ ui' = [ui EXCEPT !.todo = @ \ {p}]
    BY <1>3 DEF UiOutside
  <2> QED BY <1>1, <1>3, <2>1, Fields DEF RecordsInv, RunTyped, Uis
<1> QED BY <1>2, <1>3

\* The scan looks at a file: it is read, is as its row says or is missing,
\* or it cannot be read.
LEMMA VisitAfter ==
    ASSUME RecordsInv, NEW p \in Paths, Visit(p)
    PROVE  /\ job.at = "walk" /\ p \in job.todo /\ job' \in Jobs
           /\ job'.rs = job.rs /\ job'.todo = job.todo \ {p}
           /\ \/ /\ job'.at = "index" /\ job'.path = p /\ job'.book = file[p]
                 /\ Exists(p) /\ Changed(p) /\ job'.unread = job.unread
              \/ job'.at = "walk" /\ ~ (Exists(p) /\ Changed(p)) /\ job'.unread = job.unread
              \/ /\ job'.at = "walk" /\ Exists(p) /\ Changed(p)
                 /\ job'.unread = job.unread \cup {p}
<1>1. job \in Jobs /\ file[p] \in Books \cup {NoBook} /\ {"walk", "index"} \subseteq Stages
  BY RowFields DEF RecordsInv, JobTyped, Stages
<1>2. job.at = "walk" /\ p \in job.todo
  BY DEF Visit
<1> DEFINE found == [job EXCEPT !.at = "index", !.path = p, !.book = file[p], !.todo = @ \ {p}]
           passed == [job EXCEPT !.todo = @ \ {p}]
           unread == [job EXCEPT !.todo = @ \ {p}, !.unread = @ \cup {p}]
<1>3. \/ Exists(p) /\ Changed(p) /\ job' = found
      \/ ~ (Exists(p) /\ Changed(p)) /\ job' = passed
      \/ Exists(p) /\ Changed(p) /\ job' = unread
  BY DEF Visit
<1>4. /\ found \in Jobs /\ found.rs = job.rs /\ found.todo = job.todo \ {p} /\ found.at = "index"
      /\ found.path = p /\ found.book = file[p] /\ found.unread = job.unread
  BY <1>1 DEF Jobs
<1>5. /\ passed \in Jobs /\ passed.rs = job.rs /\ passed.todo = job.todo \ {p}
      /\ passed.at = job.at /\ passed.unread = job.unread
  BY <1>1 DEF Jobs
<1>6. /\ unread \in Jobs /\ unread.rs = job.rs /\ unread.todo = job.todo \ {p}
      /\ unread.at = job.at /\ unread.unread = job.unread \cup {p}
  BY <1>1 DEF Jobs
<1> HIDE DEF found, passed, unread
<1> QED BY <1>2, <1>3, <1>4, <1>5, <1>6

\* What was read is written, or does not parse.
LEMMA IndexAfter ==
    ASSUME RecordsInv, Index
    PROVE  /\ job.at = "index" /\ job.path \in Paths /\ job.book \in Books
           /\ job' \in Jobs /\ job'.at = "walk" /\ job'.rs = job.rs /\ job'.todo = job.todo
           /\ \/ /\ job'.unread = job.unread
                 /\ row' = [row EXCEPT ![job.path] = Upsert(row[job.path], job.book)]
              \/ job'.unread = job.unread \cup {job.path} /\ row' = row
<1>1. job \in Jobs /\ "walk" \in Stages
  BY DEF RecordsInv, JobTyped, Stages
<1>2. job.at = "index" /\ job.path \in Paths /\ job.book \in Books
  BY DEF Index, RecordsInv, JobShape
<1> DEFINE written == [job EXCEPT !.at = "walk"]
           unread == [job EXCEPT !.at = "walk", !.unread = @ \cup {job.path}]
<1>3. \/ job' = written /\ row' = [row EXCEPT ![job.path] = Upsert(row[job.path], job.book)]
      \/ job' = unread /\ row' = row
  BY DEF Index
<1>4. /\ written \in Jobs /\ written.at = "walk" /\ written.rs = job.rs /\ written.todo = job.todo
      /\ written.unread = job.unread
  BY <1>1 DEF Jobs
<1>5. /\ unread \in Jobs /\ unread.at = "walk" /\ unread.rs = job.rs /\ unread.todo = job.todo
      /\ unread.unread = job.unread \cup {job.path}
  BY <1>1, <1>2 DEF Jobs
<1> HIDE DEF written, unread
<1> QED BY <1>2, <1>3, <1>4, <1>5

\* The scan's statements.
LEMMA JobAfter ==
    ASSUME RecordsInv, JobStatement
    PROVE  /\ job.at \in Statements /\ job.path \in Paths /\ job.then \in {"prune", "outside"}
           /\ job'.path = job.path /\ job'.then = job.then /\ job'.todo = job.todo
           /\ job'.rs = job.rs /\ job'.orphans = job.orphans /\ job'.unread = job.unread
           /\ \/ job.at = "row" /\ job'.at = "progress"
              \/ job.at = "progress" /\ job'.at = "notes"
              \/ job.at = "notes" /\ job'.at = job.then
<1>1. job.at \in Statements /\ job.path \in Paths /\ job.then \in {"prune", "outside"}
  BY DEF RecordsInv, JobShape, JobStatement, Statements
<1>2. job' = [job EXCEPT !.at = IF After(job.at) = "end" THEN job.then ELSE After(job.at)]
  BY DEF JobStatement
<1>3. job \in Jobs
  BY DEF RecordsInv, JobTyped
<1>4. CASE job.at = "row"
  BY <1>1, <1>2, <1>4 DEF After
<1>5. CASE job.at = "progress"
  BY <1>1, <1>2, <1>5 DEF After
<1>6. CASE job.at = "notes"
  BY <1>1, <1>2, <1>6 DEF After
<1> QED BY <1>1, <1>4, <1>5, <1>6 DEF Statements

\* A file moved: its new path was free.
LEMMA MoveIs ==
    ASSUME RecordsInv, NEW p \in Paths, NEW q \in Paths, MoveFile(p, q)
    PROVE  /\ p # q /\ file[p] \in Books /\ file[q] = NoBook
           /\ file'[q] = file[p] /\ file'[p] = NoBook
           /\ \A r \in Paths : r # p /\ r # q => file'[r] = file[r]
           /\ ui'.at = "row" /\ ui'.path = p /\ ui'.to = q /\ ui'.todo = {}
           /\ ui = UiIdle /\ reader = Closed /\ reader' = Closed /\ on
           /\ marred \subseteq marred' /\ littered \subseteq littered'
           /\ (Scanning \/ q \in littered) => p \in littered' /\ file[p] \in marred'
           /\ ~ (Scanning \/ q \in littered) => marred' = marred /\ littered' = littered
<1>1. p # q /\ file[p] \in Books /\ file[q] = NoBook
  <2>1. p # q /\ file[p] # NoBook /\ FolderOf[p] \notin away /\ ~ Exists(q) /\ FolderOf[p] = FolderOf[q]
    BY DEF MoveFile, Exists
  <2> QED BY <2>1, RowFields DEF Exists
<1>2. file' = [file EXCEPT ![q] = file[p], ![p] = NoBook]
  BY DEF MoveFile
<1>3. /\ file'[q] = file[p] /\ file'[p] = NoBook
      /\ \A r \in Paths : r # p /\ r # q => file'[r] = file[r]
  BY <1>2 DEF RecordsInv, FilesTyped
<1>4. ui'.at = "row" /\ ui'.path = p /\ ui'.to = q /\ ui'.todo = {}
  BY DEF MoveFile, UiIdle
<1>5. ui = UiIdle /\ reader = Closed /\ reader' = Closed /\ on
  BY DEF MoveFile, Ready
<1>6. /\ marred \subseteq marred' /\ littered \subseteq littered'
      /\ (Scanning \/ q \in littered) => p \in littered' /\ file[p] \in marred'
      /\ ~ (Scanning \/ q \in littered) => marred' = marred /\ littered' = littered
  BY DEF MoveFile
<1> QED BY <1>1, <1>3, <1>4, <1>5, <1>6

\* A statement of a removal takes a path off the littered ones only when
\* nothing is left under it.
LEMMA ClearedIs ==
    ASSUME NEW p, NEW table, Cleared(p, table)
    PROVE  /\ littered \ {p} \subseteq littered' /\ littered' \subseteq littered
           /\ p \in littered /\ p \notin littered' =>
                 /\ table = "notes" /\ Emptied(p)' /\ reader.path # p /\ ui.to # p
BY DEF Cleared, Emptied

\* What a removal's statement does to the tables.
LEMMA ForgetIs ==
    ASSUME RecordsInv, NEW p \in Paths, NEW table \in Statements, Forget(p, table)
    PROVE  /\ \A r \in Paths : r # p => row'[r] = row[r] /\ progress'[r] = progress[r] /\ notes'[r] = notes[r]
           /\ row'[p] = (IF table = "row" THEN NoRow ELSE row[p])
           /\ progress'[p] = (IF table = "progress" THEN NoBook ELSE progress[p])
           /\ notes'[p] = (IF table = "notes" THEN {} ELSE notes[p])
BY DEF Forget, RecordsInv, TablesTyped

\* What a rename's statement does to the tables: a row or a place that is there stays.
LEMMA RepointIs ==
    ASSUME RecordsInv, NEW p \in Paths, NEW q \in Paths, p # q, NEW table \in Statements, Repoint(p, q, table)
    PROVE  /\ \A r \in Paths : r # p /\ r # q =>
                  row'[r] = row[r] /\ progress'[r] = progress[r] /\ notes'[r] = notes[r]
           /\ (table = "row" /\ row[p].in /\ ~ row[q].in) => row'[q] = row[p] /\ row'[p] = NoRow
           /\ ~ (table = "row" /\ row[p].in /\ ~ row[q].in) => row'[q] = row[q] /\ row'[p] = row[p]
           /\ (table = "progress" /\ progress[q] = NoBook) =>
                 progress'[q] = progress[p] /\ progress'[p] = NoBook
           /\ ~ (table = "progress" /\ progress[q] = NoBook) =>
                 progress'[q] = progress[q] /\ progress'[p] = progress[p]
           /\ table = "notes" => notes'[q] = notes[q] \cup notes[p] /\ notes'[p] = {}
           /\ table # "notes" => notes'[q] = notes[q] /\ notes'[p] = notes[p]
<1>1. /\ row' = (IF table = "row" /\ row[p].in /\ ~ row[q].in
                 THEN [row EXCEPT ![q] = row[p], ![p] = NoRow] ELSE row)
      /\ progress' = (IF table = "progress" /\ progress[q] = NoBook
                      THEN [progress EXCEPT ![q] = progress[p], ![p] = NoBook] ELSE progress)
      /\ notes' = (IF table = "notes"
                   THEN [notes EXCEPT ![q] = @ \cup notes[p], ![p] = {}] ELSE notes)
  BY DEF Repoint
<1>2. DOMAIN row = Paths /\ DOMAIN progress = Paths /\ DOMAIN notes = Paths
  BY DEF RecordsInv, TablesTyped
<1>3. /\ \A r \in Paths : r # p /\ r # q => row'[r] = row[r]
      /\ (table = "row" /\ row[p].in /\ ~ row[q].in) => row'[q] = row[p] /\ row'[p] = NoRow
      /\ ~ (table = "row" /\ row[p].in /\ ~ row[q].in) => row'[q] = row[q] /\ row'[p] = row[p]
  BY <1>1, <1>2 DEF RecordsInv
<1>4. /\ \A r \in Paths : r # p /\ r # q => progress'[r] = progress[r]
      /\ (table = "progress" /\ progress[q] = NoBook) =>
                 progress'[q] = progress[p] /\ progress'[p] = NoBook
      /\ ~ (table = "progress" /\ progress[q] = NoBook) =>
                 progress'[q] = progress[q] /\ progress'[p] = progress[p]
  BY <1>1, <1>2 DEF RecordsInv
<1>5. /\ \A r \in Paths : r # p /\ r # q => notes'[r] = notes[r]
      /\ table = "notes" => notes'[q] = notes[q] \cup notes[p] /\ notes'[p] = {}
      /\ table # "notes" => notes'[q] = notes[q] /\ notes'[p] = notes[p]
  BY <1>1, <1>2 DEF RecordsInv
<1> QED BY <1>3, <1>4, <1>5

\* What a statement of the main thread leaves of a path whose file is gone.
LEMMA UiOn ==
    ASSUME RecordsInv, UiStatement, NEW r \in Paths, file[r] = NoBook, r \notin littered'
    PROVE  /\ r # ui.path => Lost(r) /\ row'[r] = row[r] /\ progress'[r] = progress[r] /\ notes'[r] = notes[r]
           /\ r = ui.path => \/ Emptied(r)'
                             \/ /\ Lost(r)
                                /\ row'[r].in => row[r].in /\ ui.at # "row"
                                /\ progress'[r] # NoBook => progress[r] # NoBook /\ ui.at # "progress"
                                /\ notes'[r] # {} => notes[r] # {} /\ ui.at # "notes"
<1>1. ui.path \in Paths /\ ui.at \in Statements /\ Cleared(ui.path, ui.at)
  BY UiAfter DEF UiStatement
<1>2. r \in littered => r = ui.path /\ Emptied(r)'
  BY <1>1, ClearedIs
<1>3. CASE ~ Renaming
  <2>1. Forget(ui.path, ui.at)
    BY <1>3 DEF UiStatement, Renaming
  <2>2. NoRow.in = FALSE
    BY DEF NoRow
  <2> QED BY <1>1, <1>2, <2>1, <2>2, ForgetIs DEF Lost
<1>4. CASE Renaming
  <2>1. Repoint(ui.path, ui.to, ui.at) /\ ui.to \in Paths /\ ui.path # ui.to /\ ~ Lost(ui.to)
    BY <1>4, Fields DEF UiStatement, RecordsInv, UiShape, RenameArrives
  <2>2. r # ui.to
    BY <1>2, <2>1 DEF Lost
  <2>3. CASE r # ui.path
    BY <1>1, <1>2, <2>1, <2>3, RepointIs DEF Lost
  <2>4. CASE r = ui.path /\ r \notin littered
    <3>1. WayIsClear \/ Emptied(r)
      BY <1>4, <2>4 DEF RecordsInv, RenameClears
    <3>2. NoRow.in = FALSE
      BY DEF NoRow
    <3>3. row'[r].in => row[r].in /\ ui.at # "row"
      BY <1>1, <2>1, <2>4, <3>1, <3>2, RepointIs DEF WayIsClear, Emptied
    <3>4. progress'[r] # NoBook => progress[r] # NoBook /\ ui.at # "progress"
      BY <1>1, <2>1, <2>4, <3>1, RepointIs DEF WayIsClear, Emptied
    <3>5. notes'[r] # {} => notes[r] # {} /\ ui.at # "notes"
      BY <1>1, <2>1, <2>4, RepointIs
    <3> QED BY <2>4, <3>3, <3>4, <3>5 DEF Lost
  <2> QED BY <1>2, <2>3, <2>4
<1> QED BY <1>3, <1>4

-----------------------------------------------------------------------------
(* Every step keeps every part of the invariant.                           *)

\* The types, variable by variable.
LEMMA FilesStep ==
    ASSUME RecordsInv, RecordNext
    PROVE  FilesTyped'
<1>1. CASE UNCHANGED <<file, away>>
  BY <1>1 DEF RecordsInv, FilesTyped
<1>2. ASSUME NEW p \in Paths, NEW q \in Paths, MoveFile(p, q)
      PROVE  FilesTyped'
  BY <1>2 DEF RecordsInv, FilesTyped, MoveFile
<1>3. ASSUME NEW p \in Paths, Trash(p)
      PROVE  FilesTyped'
  BY <1>3 DEF RecordsInv, FilesTyped, Trash
<1>4. ASSUME NEW p \in Paths, DeleteFile(p)
      PROVE  FilesTyped'
  BY <1>4 DEF RecordsInv, FilesTyped, DeleteFile
<1>5. ASSUME NEW p \in Paths, NEW b \in Books, PutFile(p, b)
      PROVE  FilesTyped'
  BY <1>5 DEF RecordsInv, FilesTyped, PutFile
<1>6. ASSUME NEW f \in Folders, Unmount(f)
      PROVE  FilesTyped'
  BY <1>6 DEF RecordsInv, FilesTyped, Unmount
<1>7. ASSUME NEW f \in Folders, Mount(f)
      PROVE  FilesTyped'
  BY <1>7 DEF RecordsInv, FilesTyped, Mount
<1> QED BY <1>1, <1>2, <1>3, <1>4, <1>5, <1>6, <1>7, Frames, Zenon DEF RecordNext

\* The tables keep their types.
LEMMA TablesStep ==
    ASSUME RecordsInv, RecordNext
    PROVE  TablesTyped'
<1>1. CASE UNCHANGED <<row, progress, notes>>
  BY <1>1 DEF RecordsInv, TablesTyped
<1>2. ASSUME NEW p \in Paths, Open(p)
      PROVE  TablesTyped'
  BY <1>2 DEF RecordsInv, TablesTyped, Open, Opened, Rows
<1>3. ASSUME SavePosition
      PROVE  TablesTyped'
  BY <1>3, Fields DEF RecordsInv, TablesTyped, SavePosition
<1>4. ASSUME AddNote
      PROVE  TablesTyped'
  BY <1>4, Fields DEF RecordsInv, TablesTyped, AddNote
<1>5. ASSUME NEW p \in Paths, Edit(p)
      PROVE  TablesTyped'
  <2>1. PICK stamp \in Books \cup {NoBook} : row' = [row EXCEPT ![p].edited = TRUE, ![p].stamp = stamp]
    BY <1>5, RowFields DEF Edit
  <2>2. row' = [row EXCEPT ![p] = [row[p] EXCEPT !.edited = TRUE, !.stamp = stamp]] /\ row[p].in
    BY <1>5, <2>1 DEF RecordsInv, Edit
  <2>3. /\ [row[p] EXCEPT !.edited = TRUE, !.stamp = stamp] \in Rows
        /\ [row[p] EXCEPT !.edited = TRUE, !.stamp = stamp].in
    BY <2>2, RowFields DEF Rows
  <2>4. progress' = progress /\ notes' = notes
    BY <1>5 DEF Edit
  <2> QED BY <2>2, <2>3, <2>4 DEF RecordsInv, TablesTyped
<1>6. ASSUME UiStatement
      PROVE  TablesTyped'
  <2>1. ui.path \in Paths /\ (ui.to # "" => ui.to \in Paths)
    BY <1>6, Fields DEF RecordsInv, UiShape, UiStatement
  <2>2. CASE ui.to = ""
    BY <1>6, <2>2, RowFields DEF RecordsInv, TablesTyped, UiStatement, Forget
  <2>3. CASE ui.to # ""
    <3>1. Repoint(ui.path, ui.to, ui.at)
      BY <1>6, <2>3 DEF UiStatement
    <3>2. row' \in [Paths -> Rows] /\ \A p \in Paths : row'[p].in \/ row'[p] = NoRow
      BY <2>1, <3>1, RowFields DEF RecordsInv, TablesTyped, Repoint
    <3>3. progress' \in [Paths -> Books \cup {NoBook}]
      BY <2>1, <3>1 DEF RecordsInv, TablesTyped, Repoint
    <3>4. notes' \in [Paths -> SUBSET Books]
      BY <2>1, <3>1 DEF RecordsInv, TablesTyped, Repoint
    <3> QED BY <3>2, <3>3, <3>4 DEF TablesTyped
  <2> QED BY <2>2, <2>3
<1>7. ASSUME Quit
      PROVE  TablesTyped'
  BY <1>7, Fields DEF RecordsInv, TablesTyped, Quit
<1>8. ASSUME Index
      PROVE  TablesTyped'
  <2>1. job.path \in Paths /\ job.book \in Books
    BY <1>8 DEF RecordsInv, JobShape, Index
  <2> DEFINE r == Upsert(row[job.path], job.book)
  <2>2. r \in Rows /\ r.in
    BY <2>1, RowFields DEF Upsert, Rows
  <2>3. /\ row' = [row EXCEPT ![job.path] = r] \/ row' = row
        /\ progress' = progress /\ notes' = notes
    BY <1>8 DEF Index
  <2> HIDE DEF r
  <2> QED BY <2>2, <2>3 DEF RecordsInv, TablesTyped
<1>9. ASSUME JobStatement
      PROVE  TablesTyped'
  BY <1>9, RowFields DEF RecordsInv, TablesTyped, JobStatement, Forget
<1> QED BY <1>1, <1>2, <1>3, <1>4, <1>5, <1>6, <1>7, <1>8, <1>9, Frames, Zenon DEF RecordNext

\* So does what was made of each book.
LEMMA MadeStep ==
    ASSUME RecordsInv, RecordNext
    PROVE  MadeTyped'
<1>1. CASE UNCHANGED <<has>>
  BY <1>1 DEF RecordsInv, MadeTyped
<1>2. ASSUME SavePosition
      PROVE  MadeTyped'
  BY <1>2 DEF RecordsInv, MadeTyped, SavePosition, Made
<1>3. ASSUME AddNote
      PROVE  MadeTyped'
  BY <1>3 DEF RecordsInv, MadeTyped, AddNote, Made
<1>4. ASSUME NEW p \in Paths, Edit(p)
      PROVE  MadeTyped'
  BY <1>4 DEF RecordsInv, MadeTyped, Edit
<1>5. ASSUME NEW p \in Paths, Trash(p)
      PROVE  MadeTyped'
  BY <1>5 DEF RecordsInv, MadeTyped, Trash
<1>6. ASSUME NEW p \in Paths, UiOutside(p)
      PROVE  MadeTyped'
  BY <1>6 DEF RecordsInv, MadeTyped, UiOutside, Dropped
<1>7. ASSUME Quit
      PROVE  MadeTyped'
  <2>1. CASE reader = Closed
    BY <1>7, <2>1 DEF RecordsInv, MadeTyped, Quit
  <2>2. CASE reader # Closed
    <3>1. Made("progress")
      BY <1>7, <2>2 DEF Quit
    <3> QED BY <3>1 DEF RecordsInv, MadeTyped, Made
  <2> QED BY <2>1, <2>2
<1>8. ASSUME NEW p \in Paths, Outside(p)
      PROVE  MadeTyped'
  BY <1>8 DEF RecordsInv, MadeTyped, Outside, Dropped
<1>9. ASSUME NEW p \in Paths, DeleteFile(p)
      PROVE  MadeTyped'
  BY <1>9 DEF RecordsInv, MadeTyped, DeleteFile
<1> QED BY <1>1, <1>2, <1>3, <1>4, <1>5, <1>6, <1>7, <1>8, <1>9, Frames, Zenon DEF RecordNext

\* So do the program, its main thread and its reader.
LEMMA RunStep ==
    ASSUME RecordsInv, RecordNext
    PROVE  RunTyped'
<1>1. CASE UNCHANGED <<roots, on, ui, reader>>
  BY <1>1 DEF RecordsInv, RunTyped
<1>2. ASSUME LaunchLibrary
      PROVE  RunTyped'
  BY <1>2, Frames DEF RecordsInv, RunTyped, LaunchLibrary
<1>3. ASSUME NEW p \in Paths, Open(p)
      PROVE  RunTyped'
  BY <1>3, Fields, Frames DEF RecordsInv, RunTyped, Open, Readers, Exists, FilesTyped
<1>4. ASSUME SavePosition
      PROVE  RunTyped'
  BY <1>4, Frames DEF RecordsInv, RunTyped, SavePosition, Readers
<1>5. ASSUME NEW p \in Paths, NEW q \in Paths, MoveFile(p, q)
      PROVE  RunTyped'
  BY <1>5, Fields DEF RecordsInv, RunTyped, MoveFile, Uis, Statements
<1>6. ASSUME NEW p \in Paths, Trash(p)
      PROVE  RunTyped'
  BY <1>6, Fields DEF RecordsInv, RunTyped, Trash, Uis, Statements
<1>7. ASSUME UiStatement
      PROVE  RunTyped'
  BY <1>7, Fields, Frames DEF RecordsInv, RunTyped, UiStatement, Uis, Statements, After
<1>8. ASSUME NEW f \in Folders, AddSource(f)
      PROVE  RunTyped'
  BY <1>8 DEF RecordsInv, RunTyped, AddSource
<1>9. ASSUME NEW f \in Folders, RemoveSource(f)
      PROVE  RunTyped'
  BY <1>9, Fields DEF RecordsInv, RunTyped, RemoveSource, Uis
<1>10. ASSUME NEW p \in Paths, UiOutside(p)
      PROVE  RunTyped'
  BY <1>10, Fields, Frames DEF RecordsInv, RunTyped, UiOutside, Uis, Statements
<1>11. ASSUME UiOutsideEmpty
      PROVE  RunTyped'
  BY <1>11, Fields DEF RecordsInv, RunTyped, UiOutsideEmpty
<1>12. ASSUME Quit
      PROVE  RunTyped'
  BY <1>12, Frames DEF RecordsInv, RunTyped, Quit, Readers
<1>13. ASSUME Crash
      PROVE  RunTyped'
  BY <1>13, Fields, Frames DEF RecordsInv, RunTyped, Crash, Readers
<1> QED BY <1>1, <1>2, <1>3, <1>4, <1>5, <1>6, <1>7, <1>8, <1>9, <1>10, <1>11, <1>12, <1>13, Frames,
      Zenon DEF RecordNext

\* So does the scan.
LEMMA JobStep ==
    ASSUME RecordsInv, RecordNext
    PROVE  JobTyped'
<1>1. CASE UNCHANGED <<job>>
  BY <1>1 DEF RecordsInv, JobTyped
<1>2. ASSUME LaunchLibrary
      PROVE  JobTyped'
  BY <1>2, Starts DEF RecordsInv, JobTyped
<1>3. ASSUME NEW f \in Folders, AddSource(f)
      PROVE  JobTyped'
  BY <1>3, Starts DEF RecordsInv, JobTyped
<1>4. ASSUME Rescan
      PROVE  JobTyped'
  BY <1>4, Starts DEF RecordsInv, JobTyped
<1>5. ASSUME Quit
      PROVE  JobTyped'
  BY <1>5, Frames DEF JobTyped, Quit, Jobs, Stages, JobNone
<1>6. ASSUME NEW p \in Paths, Visit(p)
      PROVE  JobTyped'
  BY <1>6, VisitAfter DEF JobTyped
<1>7. ASSUME Index
      PROVE  JobTyped'
  BY <1>7, IndexAfter DEF JobTyped
<1>8. ASSUME StartPrune
      PROVE  JobTyped'
  BY <1>8 DEF RecordsInv, JobTyped, StartPrune, Jobs, Stages
<1>9. ASSUME NEW p \in Paths, LookForFile(p)
      PROVE  JobTyped'
  BY <1>9 DEF RecordsInv, JobTyped, LookForFile, Jobs, Stages
<1>10. ASSUME LookForRoot
      PROVE  JobTyped'
  BY <1>10 DEF RecordsInv, JobTyped, LookForRoot, Jobs, Stages, Statements
<1>11. ASSUME JobStatement
      PROVE  JobTyped'
  <2> DEFINE at == IF After(job.at) = "end" THEN job.then ELSE After(job.at)
  <2>1. job' = [job EXCEPT !.at = at]
    BY <1>11 DEF JobStatement
  <2>2. at \in Stages
    BY <1>11 DEF RecordsInv, JobShape, JobStatement, After, Stages, Statements
  <2> HIDE DEF at
  <2> QED BY <2>1, <2>2 DEF RecordsInv, JobTyped, Jobs
<1>12. ASSUME EndPrune
      PROVE  JobTyped'
  BY <1>12 DEF RecordsInv, JobTyped, EndPrune, Jobs, Stages
<1>13. ASSUME NEW p \in Paths, Outside(p)
      PROVE  JobTyped'
  BY <1>13, Frames DEF RecordsInv, JobTyped, Outside, Jobs, Stages, Statements
<1>14. ASSUME EndOutside
      PROVE  JobTyped'
  BY <1>14 DEF RecordsInv, JobTyped, EndOutside, Jobs, Stages
<1>15. ASSUME PollScan
      PROVE  JobTyped'
  BY <1>15 DEF JobTyped, PollScan, Jobs, Stages, JobNone
<1>16. ASSUME Crash
      PROVE  JobTyped'
  BY <1>16, Frames DEF JobTyped, Crash, Jobs, Stages, JobNone
<1> QED BY <1>1, <1>2, <1>3, <1>4, <1>5, <1>6, <1>7, <1>8, <1>9, <1>10, <1>11, <1>12, <1>13, <1>14,
      <1>15, <1>16, Frames, Zenon DEF RecordNext

\* What the main thread is at, and what it is at it with.
LEMMA UiShapeStep ==
    ASSUME RecordsInv, RecordNext
    PROVE  UiShape'
<1>1. CASE UNCHANGED <<ui>>
  BY <1>1 DEF RecordsInv, UiShape, Renaming
<1>2. ASSUME NEW p \in Paths, NEW q \in Paths, MoveFile(p, q)
      PROVE  UiShape'
  BY <1>2 DEF UiShape, MoveFile, UiIdle, Statements
<1>3. ASSUME NEW p \in Paths, Trash(p)
      PROVE  UiShape'
  BY <1>3 DEF UiShape, Trash, Renaming, UiIdle
<1>4. ASSUME UiStatement
      PROVE  UiShape'
  <2>1. ui.at \in Statements /\ ui.path \in Paths
    BY <1>4 DEF RecordsInv, UiShape, UiStatement, Statements
  <2>2. CASE After(ui.at) # "end"
    <3>1. ui' = [ui EXCEPT !.at = After(ui.at)] /\ After(ui.at) \in Statements
      BY <1>4, <2>2 DEF UiStatement, After, Statements
    <3>2. ui'.at \in Statements /\ ui'.path = ui.path /\ ui'.to = ui.to /\ ui'.todo = ui.todo
      BY <3>1 DEF RecordsInv
    <3> QED BY <2>1, <3>2 DEF RecordsInv, UiShape, Renaming, Statements
  <2>3. CASE After(ui.at) = "end"
    <3>1. ui' = UiIdle \/ (ui'.at = "outside" /\ ui'.path = "" /\ ui'.to = "")
      BY <1>4, <2>3 DEF UiStatement, UiIdle
    <3> QED BY <3>1, Fields DEF UiShape, Renaming, Statements
  <2> QED BY <2>2, <2>3
<1>5. ASSUME NEW f \in Folders, RemoveSource(f)
      PROVE  UiShape'
  BY <1>5 DEF UiShape, RemoveSource, Renaming, UiIdle, Statements
<1>6. ASSUME NEW p \in Paths, UiOutside(p)
      PROVE  UiShape'
  <2>1. ui.at = "outside" /\ ui.path = "" /\ ui.to = ""
    BY <1>6 DEF RecordsInv, UiShape, UiOutside
  <2>2. ui' = UiIdle \/ (ui'.at = "row" /\ ui'.path = p /\ ui'.to = "")
        \/ (ui'.at = "outside" /\ ui'.path = "" /\ ui'.to = "")
    BY <1>6, <2>1 DEF UiOutside, RecordsInv, RunTyped, Uis
  <2> QED BY <2>2, Fields DEF UiShape, Renaming, Statements
<1>7. ASSUME UiOutsideEmpty
      PROVE  UiShape'
  BY <1>7, Fields DEF UiShape, UiOutsideEmpty, Renaming, Statements
<1>8. ASSUME Crash
      PROVE  UiShape'
  BY <1>8, Fields DEF UiShape, Crash, Renaming, Statements
<1> QED BY <1>1, <1>2, <1>3, <1>4, <1>5, <1>6, <1>7, <1>8, Frames, Zenon DEF RecordNext

\* The same of the scan.
LEMMA JobShapeStep ==
    ASSUME RecordsInv, RecordNext
    PROVE  JobShape'
<1>1. CASE UNCHANGED <<job>>
  BY <1>1 DEF RecordsInv, JobShape
<1>2. ASSUME LaunchLibrary
      PROVE  JobShape'
  <2>1. job' = job \/ job'.at \in {"walk", "unopened"}
    BY <1>2, Starts
  <2> QED BY <2>1 DEF RecordsInv, JobShape, Statements
<1>3. ASSUME NEW f \in Folders, AddSource(f)
      PROVE  JobShape'
  <2>1. job' = job \/ job'.at \in {"walk", "unopened"}
    BY <1>3, Starts
  <2> QED BY <2>1 DEF RecordsInv, JobShape, Statements
<1>4. ASSUME Rescan
      PROVE  JobShape'
  <2>1. job' = job \/ job'.at \in {"walk", "unopened"}
    BY <1>4, Starts
  <2> QED BY <2>1 DEF RecordsInv, JobShape, Statements
<1>5. ASSUME Quit
      PROVE  JobShape'
  BY <1>5, Fields, RowFields, Frames DEF JobShape, Quit, Statements
<1>6. ASSUME NEW p \in Paths, Visit(p)
      PROVE  JobShape'
  BY <1>6, Fields, RowFields, Frames DEF RecordsInv, JobShape, Visit, Statements, JobTyped, Jobs,
     Exists
<1>7. ASSUME Index
      PROVE  JobShape'
  BY <1>7, Fields, RowFields, Frames DEF RecordsInv, JobShape, Index, Statements, JobTyped, Jobs
<1>8. ASSUME StartPrune
      PROVE  JobShape'
  BY <1>8, Fields, RowFields, Frames DEF RecordsInv, JobShape, StartPrune, Statements, JobTyped,
     Jobs
<1>9. ASSUME NEW p \in Paths, LookForFile(p)
      PROVE  JobShape'
  BY <1>9, Fields, RowFields, Frames DEF RecordsInv, JobShape, LookForFile, Statements, JobTyped,
     Jobs
<1>10. ASSUME LookForRoot
      PROVE  JobShape'
  BY <1>10, Fields, RowFields, Frames DEF RecordsInv, JobShape, LookForRoot, Statements, JobTyped,
     Jobs
<1>11. ASSUME JobStatement
      PROVE  JobShape'
  BY <1>11, Fields, RowFields, Frames DEF RecordsInv, JobShape, JobStatement, Statements, After,
     JobTyped, Jobs
<1>12. ASSUME EndPrune
      PROVE  JobShape'
  BY <1>12, Fields, RowFields, Frames DEF RecordsInv, JobShape, EndPrune, Statements, JobTyped, Jobs
<1>13. ASSUME NEW p \in Paths, Outside(p)
      PROVE  JobShape'
  BY <1>13, Fields, RowFields, Frames DEF RecordsInv, JobShape, Outside, JobTyped, Jobs
<1>14. ASSUME EndOutside
      PROVE  JobShape'
  BY <1>14, Fields, RowFields, Frames DEF RecordsInv, JobShape, EndOutside, Statements, JobTyped,
     Jobs
<1>15. ASSUME PollScan
      PROVE  JobShape'
  BY <1>15, Fields, RowFields, Frames DEF JobShape, PollScan, Statements
<1>16. ASSUME Crash
      PROVE  JobShape'
  BY <1>16, Fields, RowFields, Frames DEF JobShape, Crash, Statements
<1> QED BY <1>1, <1>2, <1>3, <1>4, <1>5, <1>6, <1>7, <1>8, <1>9, <1>10, <1>11, <1>12, <1>13, <1>14,
      <1>15, <1>16, Frames, Zenon DEF RecordNext

\* The main thread does one thing at a time, and nothing while the program is not running.
LEMMA OneAtATimeStep ==
    ASSUME RecordsInv, RecordNext
    PROVE  OneAtATime'
<1>1. CASE UNCHANGED <<on, ui, reader, job>>
  BY <1>1 DEF RecordsInv, OneAtATime
<1>2. ASSUME LaunchLibrary
      PROVE  OneAtATime'
  <2>1. on' /\ ui' = ui /\ reader' = reader
    BY <1>2 DEF LaunchLibrary
  <2> QED BY <2>1 DEF RecordsInv, OneAtATime
<1>3. ASSUME NEW p \in Paths, Open(p)
      PROVE  OneAtATime'
  BY <1>3 DEF RecordsInv, OneAtATime, Open, Ready
<1>4. ASSUME SavePosition
      PROVE  OneAtATime'
  BY <1>4 DEF RecordsInv, OneAtATime, SavePosition
<1>5. ASSUME NEW p \in Paths, NEW q \in Paths, MoveFile(p, q)
      PROVE  OneAtATime'
  BY <1>5 DEF OneAtATime, MoveFile, Ready
<1>6. ASSUME NEW p \in Paths, Trash(p)
      PROVE  OneAtATime'
  BY <1>6 DEF OneAtATime, Trash, Ready
<1>7. ASSUME UiStatement
      PROVE  OneAtATime'
  BY <1>7, Fields DEF RecordsInv, OneAtATime, UiStatement
<1>8. ASSUME NEW f \in Folders, AddSource(f)
      PROVE  OneAtATime'
  <2>1. on' = on /\ ui' = ui /\ reader' = reader /\ on
    BY <1>8 DEF AddSource, Ready
  <2> QED BY <2>1 DEF RecordsInv, OneAtATime
<1>9. ASSUME NEW f \in Folders, RemoveSource(f)
      PROVE  OneAtATime'
  BY <1>9 DEF OneAtATime, RemoveSource, Ready
<1>10. ASSUME NEW p \in Paths, UiOutside(p)
      PROVE  OneAtATime'
  BY <1>10, Fields DEF RecordsInv, OneAtATime, UiOutside
<1>11. ASSUME UiOutsideEmpty
      PROVE  OneAtATime'
  BY <1>11 DEF OneAtATime, UiOutsideEmpty
<1>12. ASSUME Rescan
      PROVE  OneAtATime'
  <2>1. on' = on /\ ui' = ui /\ reader' = reader /\ on
    BY <1>12 DEF Rescan, Ready
  <2> QED BY <2>1 DEF RecordsInv, OneAtATime
<1>13. ASSUME Quit
      PROVE  OneAtATime'
  BY <1>13 DEF OneAtATime, Quit, Ready
<1>14. ASSUME NEW p \in Paths, Visit(p)
      PROVE  OneAtATime'
  <2>1. on' = on /\ ui' = ui /\ reader' = reader /\ job # JobNone
    BY <1>14, Fields DEF Visit, JobFrame
  <2> QED BY <2>1 DEF RecordsInv, OneAtATime
<1>15. ASSUME Index
      PROVE  OneAtATime'
  <2>1. on' = on /\ ui' = ui /\ reader' = reader /\ job # JobNone
    BY <1>15, Fields DEF Index, JobFrame
  <2> QED BY <2>1 DEF RecordsInv, OneAtATime
<1>16. ASSUME StartPrune
      PROVE  OneAtATime'
  <2>1. on' = on /\ ui' = ui /\ reader' = reader /\ job # JobNone
    BY <1>16, Fields DEF StartPrune, JobFrame
  <2> QED BY <2>1 DEF RecordsInv, OneAtATime
<1>17. ASSUME NEW p \in Paths, LookForFile(p)
      PROVE  OneAtATime'
  <2>1. on' = on /\ ui' = ui /\ reader' = reader /\ job # JobNone
    BY <1>17, Fields DEF LookForFile, JobFrame
  <2> QED BY <2>1 DEF RecordsInv, OneAtATime
<1>18. ASSUME LookForRoot
      PROVE  OneAtATime'
  <2>1. on' = on /\ ui' = ui /\ reader' = reader /\ job # JobNone
    BY <1>18, Fields DEF LookForRoot
  <2> QED BY <2>1 DEF RecordsInv, OneAtATime
<1>19. ASSUME JobStatement
      PROVE  OneAtATime'
  <2>1. on' = on /\ ui' = ui /\ reader' = reader /\ job # JobNone
    BY <1>19, Fields DEF JobStatement
  <2> QED BY <2>1 DEF RecordsInv, OneAtATime
<1>20. ASSUME EndPrune
      PROVE  OneAtATime'
  <2>1. on' = on /\ ui' = ui /\ reader' = reader /\ job # JobNone
    BY <1>20, Fields DEF EndPrune, JobFrame
  <2> QED BY <2>1 DEF RecordsInv, OneAtATime
<1>21. ASSUME NEW p \in Paths, Outside(p)
      PROVE  OneAtATime'
  <2>1. on' = on /\ ui' = ui /\ reader' = reader /\ job # JobNone
    BY <1>21, Fields DEF Outside
  <2> QED BY <2>1 DEF RecordsInv, OneAtATime
<1>22. ASSUME EndOutside
      PROVE  OneAtATime'
  <2>1. on' = on /\ ui' = ui /\ reader' = reader /\ job # JobNone
    BY <1>22, Fields DEF EndOutside, JobFrame
  <2> QED BY <2>1 DEF RecordsInv, OneAtATime
<1>23. ASSUME PollScan
      PROVE  OneAtATime'
  <2>1. on' = on /\ ui' = ui /\ reader' = reader /\ job # JobNone
    BY <1>23, Fields DEF PollScan, JobFrame
  <2> QED BY <2>1 DEF RecordsInv, OneAtATime
<1>24. ASSUME Crash
      PROVE  OneAtATime'
  BY <1>24 DEF OneAtATime, Crash
<1> QED BY <1>1, <1>2, <1>3, <1>4, <1>5, <1>6, <1>7, <1>8, <1>9, <1>10, <1>11, <1>12, <1>13, <1>14,
      <1>15, <1>16, <1>17, <1>18, <1>19, <1>20, <1>21, <1>22, <1>23, <1>24, Frames, Zenon DEF RecordNext

\* A book is under one path.
LEMMA ApartStep ==
    ASSUME RecordsInv, RecordNext
    PROVE  FilesApart'
<1>1. CASE UNCHANGED <<file>>
  BY <1>1 DEF RecordsInv, FilesApart
<1>2. ASSUME NEW p \in Paths, NEW q \in Paths, MoveFile(p, q)
      PROVE  FilesApart'
  BY <1>2 DEF RecordsInv, FilesApart, MoveFile, FilesTyped, Exists
<1>3. ASSUME NEW p \in Paths, Trash(p)
      PROVE  FilesApart'
  BY <1>3 DEF RecordsInv, FilesApart, Trash, FilesTyped
<1>4. ASSUME NEW p \in Paths, DeleteFile(p)
      PROVE  FilesApart'
  BY <1>4 DEF RecordsInv, FilesApart, DeleteFile, FilesTyped
<1>5. ASSUME NEW p \in Paths, NEW b \in Books, PutFile(p, b)
      PROVE  FilesApart'
  BY <1>5 DEF RecordsInv, FilesApart, PutFile, FilesTyped
<1> QED BY <1>1, <1>2, <1>3, <1>4, <1>5, Frames, Zenon DEF RecordNext

\* Nothing is known of a book that is no file any more.
LEMMA KnownStep ==
    ASSUME RecordsInv, RecordNext
    PROVE  NothingKnown'
<1>1. CASE UNCHANGED <<file, has>>
  BY <1>1 DEF RecordsInv, NothingKnown
<1>2. ASSUME SavePosition
      PROVE  NothingKnown'
  BY <1>2, Fields, RowFields DEF RecordsInv, NothingKnown, world, SavePosition, Made, MadeTyped
<1>3. ASSUME AddNote
      PROVE  NothingKnown'
  BY <1>3, Fields, RowFields DEF RecordsInv, NothingKnown, world, AddNote, Made, MadeTyped
<1>4. ASSUME NEW p \in Paths, Edit(p)
      PROVE  NothingKnown'
  BY <1>4, Fields, RowFields DEF RecordsInv, NothingKnown, world, Edit, MadeTyped
<1>5. ASSUME NEW p \in Paths, NEW q \in Paths, MoveFile(p, q)
      PROVE  NothingKnown'
  <2>1. has' = has
    BY <1>5, Frames
  <2>2. \A r \in Paths : file[r] # NoBook => file[r] \in {file'[t] : t \in Paths}
    BY <1>5, MoveIs
  <2>3. ASSUME NEW b \in Books, \A t \in Paths : file'[t] # b
        PROVE  \A r \in Paths : file[r] # b
    BY <2>2, <2>3, Fields
  <2> QED BY <2>1, <2>3 DEF RecordsInv, NothingKnown
<1>6. ASSUME NEW p \in Paths, Trash(p)
      PROVE  NothingKnown'
  BY <1>6, Fields, RowFields DEF RecordsInv, NothingKnown, Trash, FilesTyped, MadeTyped, Exists
<1>7. ASSUME NEW p \in Paths, UiOutside(p)
      PROVE  NothingKnown'
  BY <1>7, Fields, RowFields DEF RecordsInv, NothingKnown, world, UiOutside, Dropped, MadeTyped
<1>8. ASSUME Quit
      PROVE  NothingKnown'
  BY <1>8, Fields, Frames DEF RecordsInv, NothingKnown, Quit, Made, FilesTyped, MadeTyped, Exists,
     FilesApart, ReaderKnows
<1>9. ASSUME NEW p \in Paths, Outside(p)
      PROVE  NothingKnown'
  BY <1>9, Fields, RowFields DEF RecordsInv, NothingKnown, world, Outside, Dropped, MadeTyped
<1>10. ASSUME NEW p \in Paths, DeleteFile(p)
      PROVE  NothingKnown'
  BY <1>10, Frames DEF RecordsInv, NothingKnown, DeleteFile, FilesTyped, MadeTyped
<1>11. ASSUME NEW p \in Paths, NEW b \in Books, PutFile(p, b)
      PROVE  NothingKnown'
  BY <1>11, Fields, Frames DEF RecordsInv, NothingKnown, PutFile, FilesTyped
<1> QED BY <1>1, <1>2, <1>3, <1>4, <1>5, <1>6, <1>7, <1>8, <1>9, <1>10, <1>11, Frames, Zenon DEF RecordNext

\* The book that is read is the one under its path, or that path is out of step.
LEMMA ReaderStep ==
    ASSUME RecordsInv, RecordNext
    PROVE  ReaderKnows'
<1>1. CASE UNCHANGED <<reader, file, marred, littered>>
  BY <1>1 DEF RecordsInv, ReaderKnows
<1>2. ASSUME NEW p \in Paths, Open(p)
      PROVE  ReaderKnows'
  BY <1>2, Frames DEF ReaderKnows, Open
<1>3. ASSUME SavePosition
      PROVE  ReaderKnows'
  BY <1>3, Frames DEF RecordsInv, ReaderKnows, SavePosition
<1>4. ASSUME NEW p \in Paths, NEW q \in Paths, MoveFile(p, q)
      PROVE  ReaderKnows'
  BY <1>4 DEF ReaderKnows, MoveFile
<1>5. ASSUME NEW p \in Paths, Trash(p)
      PROVE  ReaderKnows'
  BY <1>5 DEF ReaderKnows, Trash
<1>6. ASSUME UiStatement
      PROVE  ReaderKnows'
  BY <1>6, Fields, RowFields, Frames DEF RecordsInv, ReaderKnows, UiStatement, Cleared
<1>7. ASSUME NEW p \in Paths, UiOutside(p)
      PROVE  ReaderKnows'
  BY <1>7, Frames DEF RecordsInv, ReaderKnows, UiOutside, Dropped
<1>8. ASSUME Quit
      PROVE  ReaderKnows'
  BY <1>8, Frames DEF ReaderKnows, Quit
<1>9. ASSUME LookForRoot
      PROVE  ReaderKnows'
  BY <1>9, Frames DEF RecordsInv, ReaderKnows, LookForRoot
<1>10. ASSUME JobStatement
      PROVE  ReaderKnows'
  BY <1>10, RowFields, Frames DEF RecordsInv, ReaderKnows, JobStatement, Cleared
<1>11. ASSUME NEW p \in Paths, Outside(p)
      PROVE  ReaderKnows'
  BY <1>11, Frames DEF RecordsInv, ReaderKnows, Outside, Dropped
<1>12. ASSUME NEW p \in Paths, DeleteFile(p)
      PROVE  ReaderKnows'
  BY <1>12, Frames DEF RecordsInv, ReaderKnows, DeleteFile, FilesTyped
<1>13. ASSUME NEW p \in Paths, NEW b \in Books, PutFile(p, b)
      PROVE  ReaderKnows'
  BY <1>13, Fields, Frames DEF RecordsInv, ReaderKnows, PutFile, FilesTyped
<1>14. ASSUME Crash
      PROVE  ReaderKnows'
  BY <1>14, Frames DEF ReaderKnows, Crash
<1> QED BY <1>1, <1>2, <1>3, <1>4, <1>5, <1>6, <1>7, <1>8, <1>9, <1>10, <1>11, <1>12, <1>13, <1>14,
      Frames, Zenon DEF RecordNext

\* A rename has left its old path without a book.
LEMMA LeavesStep ==
    ASSUME RecordsInv, RecordNext
    PROVE  RenameLeaves'
<1>1. CASE UNCHANGED <<ui, file, marred>>
  BY <1>1 DEF RecordsInv, RenameLeaves, Renaming, Void
<1>2. ASSUME NEW p \in Paths, NEW q \in Paths, MoveFile(p, q)
      PROVE  RenameLeaves'
  BY <1>2, Frames DEF RecordsInv, RenameLeaves, MoveFile, Renaming, Void, FilesTyped, UiIdle
<1>3. ASSUME NEW p \in Paths, Trash(p)
      PROVE  RenameLeaves'
  BY <1>3, Frames DEF RenameLeaves, Trash, Renaming, UiIdle
<1>4. ASSUME UiStatement
      PROVE  RenameLeaves'
  BY <1>4, UiAfter, Frames DEF RecordsInv, RenameLeaves, Renaming, Void
<1>5. ASSUME NEW f \in Folders, RemoveSource(f)
      PROVE  RenameLeaves'
  BY <1>5, Frames DEF RenameLeaves, RemoveSource, Renaming, UiIdle
<1>6. ASSUME NEW p \in Paths, UiOutside(p)
      PROVE  RenameLeaves'
  BY <1>6, OutsideAfter DEF RenameLeaves, Renaming
<1>7. ASSUME UiOutsideEmpty
      PROVE  RenameLeaves'
  BY <1>7, Fields, Frames DEF RenameLeaves, UiOutsideEmpty, Renaming
<1>8. ASSUME LookForRoot
      PROVE  RenameLeaves'
  BY <1>8, Frames DEF RecordsInv, RenameLeaves, LookForRoot, Renaming, Void
<1>9. ASSUME NEW p \in Paths, Outside(p)
      PROVE  RenameLeaves'
  BY <1>9, RowFields, Frames DEF RecordsInv, RenameLeaves, Outside, Dropped, Renaming, Void
<1>10. ASSUME NEW p \in Paths, DeleteFile(p)
      PROVE  RenameLeaves'
  BY <1>10, Fields, RowFields, Frames DEF RecordsInv, RenameLeaves, DeleteFile, Renaming, Void,
     FilesTyped
<1>11. ASSUME NEW p \in Paths, NEW b \in Books, PutFile(p, b)
      PROVE  RenameLeaves'
  BY <1>11, Fields, RowFields, Frames DEF RecordsInv, RenameLeaves, PutFile, Renaming, Void,
     FilesTyped
<1>12. ASSUME Crash
      PROVE  RenameLeaves'
  BY <1>12, Fields, RowFields, Frames DEF RenameLeaves, Crash, Renaming
<1> QED BY <1>1, <1>2, <1>3, <1>4, <1>5, <1>6, <1>7, <1>8, <1>9, <1>10, <1>11, <1>12, Frames, Zenon
      DEF RecordNext

\* What the scan removes has no book to keep.
LEMMA TakesStep ==
    ASSUME RecordsInv, RecordNext
    PROVE  ScanTakes'
<1>1. CASE UNCHANGED <<job, file, marred>>
  BY <1>1 DEF RecordsInv, ScanTakes, Void
<1>2. ASSUME LaunchLibrary
      PROVE  ScanTakes'
  <2>1. job' = job \/ job'.at \in {"walk", "unopened"}
    BY <1>2, Starts
  <2>2. UNCHANGED <<file, marred>>
    BY <1>2, Frames
  <2> QED BY <2>1, <2>2 DEF RecordsInv, ScanTakes, Void, Statements
<1>3. ASSUME NEW p \in Paths, NEW q \in Paths, MoveFile(p, q)
      PROVE  ScanTakes'
  BY <1>3, Fields, RowFields, Frames DEF RecordsInv, ScanTakes, MoveFile, Void, FilesTyped,
     Scanning, JobShape
<1>4. ASSUME NEW p \in Paths, Trash(p)
      PROVE  ScanTakes'
  BY <1>4, Fields, RowFields, Frames DEF RecordsInv, ScanTakes, Trash, Void, FilesTyped, JobShape
<1>5. ASSUME NEW f \in Folders, AddSource(f)
      PROVE  ScanTakes'
  <2>1. job' = job \/ job'.at \in {"walk", "unopened"}
    BY <1>5, Starts
  <2>2. UNCHANGED <<file, marred>>
    BY <1>5, Frames
  <2> QED BY <2>1, <2>2 DEF RecordsInv, ScanTakes, Void, Statements
<1>6. ASSUME NEW p \in Paths, UiOutside(p)
      PROVE  ScanTakes'
  BY <1>6, Fields, RowFields, Frames DEF RecordsInv, ScanTakes, UiOutside, Dropped, Void
<1>7. ASSUME Rescan
      PROVE  ScanTakes'
  <2>1. job' = job \/ job'.at \in {"walk", "unopened"}
    BY <1>7, Starts
  <2>2. UNCHANGED <<file, marred>>
    BY <1>7, Frames
  <2> QED BY <2>1, <2>2 DEF RecordsInv, ScanTakes, Void, Statements
<1>8. ASSUME Quit
      PROVE  ScanTakes'
  BY <1>8, Fields, RowFields, Frames DEF RecordsInv, ScanTakes, Quit, Statements
<1>9. ASSUME NEW p \in Paths, Visit(p)
      PROVE  ScanTakes'
  BY <1>9, Fields, RowFields, Frames DEF RecordsInv, ScanTakes, Visit, JobTyped, Jobs, Statements
<1>10. ASSUME Index
      PROVE  ScanTakes'
  BY <1>10, Fields, RowFields, Frames DEF RecordsInv, ScanTakes, Index, JobTyped, Jobs, Statements
<1>11. ASSUME StartPrune
      PROVE  ScanTakes'
  BY <1>11, Fields, RowFields, Frames DEF RecordsInv, ScanTakes, StartPrune, JobTyped, Jobs,
     Statements
<1>12. ASSUME NEW p \in Paths, LookForFile(p)
      PROVE  ScanTakes'
  BY <1>12, Fields, RowFields, Frames DEF RecordsInv, ScanTakes, LookForFile, JobTyped, Jobs,
     Statements
<1>13. ASSUME LookForRoot
      PROVE  ScanTakes'
  <2>1. file' = file /\ job \in Jobs
    BY <1>13, Frames DEF RecordsInv, JobTyped
  <2>2. CASE Offline(job.path)
    <3>1. job'.at = "prune"
      BY <1>13, <2>2 DEF LookForRoot
    <3> QED BY <3>1 DEF ScanTakes, Statements
  <2>3. CASE ~ Offline(job.path)
    <3>1. job'.path = job.path /\ Void(job.path)'
      BY <1>13, <2>1, <2>3 DEF LookForRoot, Void, Offline
    <3> QED BY <3>1 DEF ScanTakes
  <2> QED BY <2>2, <2>3
<1>14. ASSUME JobStatement
      PROVE  ScanTakes'
  BY <1>14, JobAfter, Frames DEF RecordsInv, ScanTakes, Void
<1>15. ASSUME EndPrune
      PROVE  ScanTakes'
  BY <1>15, Fields, RowFields, Frames DEF RecordsInv, ScanTakes, EndPrune, JobTyped, Jobs,
     Statements
<1>16. ASSUME NEW p \in Paths, Outside(p)
      PROVE  ScanTakes'
  BY <1>16, Fields, RowFields, Frames DEF RecordsInv, ScanTakes, Outside, Dropped, Void, JobTyped,
     Jobs
<1>17. ASSUME EndOutside
      PROVE  ScanTakes'
  BY <1>17, Fields, RowFields, Frames DEF RecordsInv, ScanTakes, EndOutside, JobTyped, Jobs,
     Statements
<1>18. ASSUME PollScan
      PROVE  ScanTakes'
  BY <1>18, Fields, RowFields, Frames DEF RecordsInv, ScanTakes, PollScan, Statements
<1>19. ASSUME NEW p \in Paths, DeleteFile(p)
      PROVE  ScanTakes'
  BY <1>19, Fields, RowFields, Frames DEF RecordsInv, ScanTakes, DeleteFile, Void, FilesTyped,
     JobShape
<1>20. ASSUME NEW p \in Paths, NEW b \in Books, PutFile(p, b)
      PROVE  ScanTakes'
  BY <1>20, Fields, RowFields, Frames DEF RecordsInv, ScanTakes, PutFile, Void, FilesTyped,
     Scanning, JobShape
<1>21. ASSUME Crash
      PROVE  ScanTakes'
  BY <1>21, Fields, RowFields, Frames DEF RecordsInv, ScanTakes, Crash, Statements
<1> QED BY <1>1, <1>2, <1>3, <1>4, <1>5, <1>6, <1>7, <1>8, <1>9, <1>10, <1>11, <1>12, <1>13, <1>14,
      <1>15, <1>16, <1>17, <1>18, <1>19, <1>20, <1>21, Frames, Zenon DEF RecordNext

\* A rename finds its way clear, or has nothing left to carry.
LEMMA ClearsStep ==
    ASSUME RecordsInv, RecordNext
    PROVE  RenameClears'
<1>1. CASE UNCHANGED <<ui, littered, row, progress, notes, job>>
  BY <1>1 DEF RecordsInv, RenameClears, Renaming, WayIsClear, Emptied, Scanning
<1>2. ASSUME LaunchLibrary
      PROVE  RenameClears'
  <2>1. ui'.to = ""
    BY <1>2, Fields DEF LaunchLibrary, RecordsInv, OneAtATime
  <2> QED BY <2>1 DEF RenameClears, Renaming
<1>3. ASSUME NEW p \in Paths, Open(p)
      PROVE  RenameClears'
  <2>1. ui'.to = ""
    BY <1>3, Fields DEF Open, Ready, RecordsInv, OneAtATime
  <2> QED BY <2>1 DEF RenameClears, Renaming
<1>4. ASSUME SavePosition
      PROVE  RenameClears'
  <2>1. ui'.to = ""
    BY <1>4, Fields DEF SavePosition, Ready
  <2> QED BY <2>1 DEF RenameClears, Renaming
<1>5. ASSUME AddNote
      PROVE  RenameClears'
  <2>1. ui'.to = ""
    BY <1>5, Fields DEF AddNote, Ready
  <2> QED BY <2>1 DEF RenameClears, Renaming
<1>6. ASSUME NEW p \in Paths, Edit(p)
      PROVE  RenameClears'
  <2>1. ui'.to = ""
    BY <1>6, Fields DEF Edit, Ready
  <2> QED BY <2>1 DEF RenameClears, Renaming
<1>7. ASSUME NEW p \in Paths, NEW q \in Paths, MoveFile(p, q)
      PROVE  RenameClears'
  <2>1. UNCHANGED <<row, progress, notes, job>> /\ ui.path \notin Paths
    BY <1>7, Frames, MoveIs, Fields
  <2>2. CASE Scanning \/ q \in littered
    BY <1>7, <2>2, MoveIs DEF RenameClears
  <2>3. CASE ~ (Scanning \/ q \in littered)
    <3>1. Lost(q) /\ ~ Pending(q) /\ ui.path # q
      <4>1. job = JobNone
        BY <2>3 DEF RecordsInv, JobShape, Scanning
      <4> QED BY <1>7, <2>1, <2>3, <4>1, MoveIs, Fields DEF Lost, Pending, Pruning
    <3>2. ~ row[q].in /\ progress[q] = NoBook
      BY <3>1 DEF RecordsInv, RowsFollow, ProgressFollows
    <3>3. WayIsClear'
      BY <1>7, <2>1, <2>3, <3>2, MoveIs DEF WayIsClear, Scanning
    <3> QED BY <3>3 DEF RenameClears
  <2> QED BY <2>2, <2>3
<1>8. ASSUME NEW p \in Paths, Trash(p)
      PROVE  RenameClears'
  <2>1. ui'.to = ""
    BY <1>8 DEF Trash, UiIdle
  <2> QED BY <2>1 DEF RenameClears, Renaming
<1>9. ASSUME UiStatement
      PROVE  RenameClears'
  <2>1. ui.path \in Paths /\ ui.at \in Statements /\ job' = job /\ Cleared(ui.path, ui.at)
    BY <1>9, UiAfter DEF UiStatement
  <2> SUFFICES ASSUME Renaming', ui'.path \notin littered'
               PROVE  (WayIsClear \/ (Emptied(ui.path) /\ job.at \notin {"walk", "index"}))'
    BY DEF RenameClears
  <2>2. ui'.path = ui.path /\ ui'.to = ui.to /\ Renaming
    BY <1>9, UiAfter DEF Renaming
  <2>3. ui.to \in Paths /\ ui.path # ui.to /\ Repoint(ui.path, ui.to, ui.at)
    BY <1>9, <2>2, Fields DEF UiStatement, RecordsInv, UiShape
  <2>4. ui.path \notin littered
    BY <1>9, <2>1, <2>2, ClearedIs, UiAfter
  <2>5. CASE WayIsClear
    <3>1. ui.at = "row" => ui'.at = "progress" /\ progress'[ui.to] = NoBook
      BY <1>9, <2>3, <2>5, RepointIs, UiAfter DEF WayIsClear
    <3>2. ui.at = "progress" => ui'.at = "notes"
      BY <1>9, UiAfter
    <3>3. ui.at # "notes"
      BY <1>9, UiAfter DEF Renaming
    <3> QED BY <2>1, <2>2, <2>5, <3>1, <3>2, <3>3 DEF WayIsClear, Scanning, Statements
  <2>6. CASE Emptied(ui.path) /\ job.at \notin {"walk", "index"}
    <3>1. ~ row'[ui.path].in
      BY <2>1, <2>3, <2>6, RepointIs DEF Emptied
    <3>2. progress'[ui.path] = NoBook /\ notes'[ui.path] = {}
      BY <2>1, <2>3, <2>6, RepointIs DEF Emptied
    <3> QED BY <2>1, <2>2, <2>6, <3>1, <3>2 DEF Emptied
  <2> QED BY <2>2, <2>4, <2>5, <2>6 DEF RecordsInv, RenameClears
<1>10. ASSUME NEW f \in Folders, AddSource(f)
      PROVE  RenameClears'
  <2>1. ui'.to = ""
    BY <1>10, Fields DEF AddSource, Ready
  <2> QED BY <2>1 DEF RenameClears, Renaming
<1>11. ASSUME NEW f \in Folders, RemoveSource(f)
      PROVE  RenameClears'
  <2>1. ui'.to = ""
    BY <1>11 DEF RemoveSource, UiIdle
  <2> QED BY <2>1 DEF RenameClears, Renaming
<1>12. ASSUME NEW p \in Paths, UiOutside(p)
      PROVE  RenameClears'
  BY <1>12, OutsideAfter DEF RenameClears, Renaming
<1>13. ASSUME UiOutsideEmpty
      PROVE  RenameClears'
  <2>1. ui'.to = ""
    BY <1>13, Fields DEF UiOutsideEmpty
  <2> QED BY <2>1 DEF RenameClears, Renaming
<1>14. ASSUME Rescan
      PROVE  RenameClears'
  <2>1. ui'.to = ""
    BY <1>14, Fields DEF Rescan, Ready
  <2> QED BY <2>1 DEF RenameClears, Renaming
<1>15. ASSUME Quit
      PROVE  RenameClears'
  <2>1. ui'.to = ""
    BY <1>15, Fields DEF Quit, Ready
  <2> QED BY <2>1 DEF RenameClears, Renaming
<1>16. ASSUME NEW p \in Paths, Visit(p)
      PROVE  RenameClears'
  <2>1. UNCHANGED <<row, progress, notes, ui, littered>> /\ Scanning /\ job \in Jobs
    BY <1>16, Frames DEF Visit, Scanning, RecordsInv, JobTyped
  <2>2. job.at \notin {"walk", "index"} => job'.at \notin {"walk", "index"}
    BY <1>16 DEF Visit
  <2> QED BY <2>1, <2>2 DEF RecordsInv, RenameClears, Renaming, WayIsClear, Emptied
<1>17. ASSUME Index
      PROVE  RenameClears'
  <2>1. UNCHANGED <<ui, littered>> /\ Scanning /\ job.at = "index"
    BY <1>17, Frames DEF Index, Scanning
  <2> QED BY <2>1 DEF RecordsInv, RenameClears, Renaming, WayIsClear
<1>18. ASSUME StartPrune
      PROVE  RenameClears'
  <2>1. UNCHANGED <<row, progress, notes, ui, littered>> /\ Scanning /\ job \in Jobs
    BY <1>18, Frames DEF StartPrune, Scanning, RecordsInv, JobTyped
  <2>2. job.at \notin {"walk", "index"} => job'.at \notin {"walk", "index"}
    BY <1>18 DEF StartPrune
  <2> QED BY <2>1, <2>2 DEF RecordsInv, RenameClears, Renaming, WayIsClear, Emptied
<1>19. ASSUME NEW p \in Paths, LookForFile(p)
      PROVE  RenameClears'
  <2>1. UNCHANGED <<row, progress, notes, ui, littered>> /\ Scanning /\ job \in Jobs
    BY <1>19, Frames DEF LookForFile, Scanning, RecordsInv, JobTyped
  <2>2. job.at \notin {"walk", "index"} => job'.at \notin {"walk", "index"}
    BY <1>19 DEF LookForFile
  <2> QED BY <2>1, <2>2 DEF RecordsInv, RenameClears, Renaming, WayIsClear, Emptied
<1>20. ASSUME LookForRoot
      PROVE  RenameClears'
  <2>1. UNCHANGED <<row, progress, notes, ui>> /\ Scanning /\ job \in Jobs /\ littered \subseteq littered'
    BY <1>20, Frames DEF LookForRoot, Scanning, RecordsInv, JobTyped
  <2>2. job'.at \notin {"walk", "index"}
    BY <1>20 DEF LookForRoot
  <2> QED BY <2>1, <2>2 DEF RecordsInv, RenameClears, Renaming, WayIsClear, Emptied
<1>21. ASSUME JobStatement
      PROVE  RenameClears'
  <2>1. ui' = ui /\ job.path \in Paths /\ job.at \in Statements /\ Scanning /\ job'.at \notin {"walk", "index"}
    BY <1>21, Frames, JobAfter DEF Scanning
  <2>2. Forget(job.path, job.at) /\ Cleared(job.path, job.at)
    BY <1>21 DEF JobStatement
  <2> SUFFICES ASSUME Renaming, ui.path \notin littered', ui.path \in Paths
               PROVE  Emptied(ui.path)'
    BY <2>1, Fields DEF RenameClears, Renaming
  <2>3. CASE ui.path \in littered
    <3>1. ui.path = job.path
      BY <2>2, <2>3, ClearedIs
    <3>2. \A r \in Paths : r = job.path => ~ row'[r].in /\ progress'[r] = NoBook /\ notes'[r] = {}
      BY <2>2, <2>3, ClearedIs DEF Emptied
    <3> QED BY <2>1, <3>1, <3>2 DEF Emptied
  <2>4. CASE ui.path \notin littered
    <3>1. Emptied(ui.path)
      BY <2>1, <2>4 DEF RecordsInv, RenameClears, WayIsClear
    <3>2. row'[ui.path].in = FALSE
      BY <2>1, <2>2, <3>1, ForgetIs, RowFields DEF Emptied
    <3>3. progress'[ui.path] = NoBook /\ notes'[ui.path] = {}
      BY <2>1, <2>2, <3>1, ForgetIs DEF Emptied
    <3> QED BY <2>1, <3>2, <3>3 DEF Emptied
  <2> QED BY <2>3, <2>4
<1>22. ASSUME EndPrune
      PROVE  RenameClears'
  <2>1. UNCHANGED <<row, progress, notes, ui, littered>> /\ Scanning /\ job \in Jobs
    BY <1>22, Frames DEF EndPrune, Scanning, RecordsInv, JobTyped
  <2>2. job.at \notin {"walk", "index"} => job'.at \notin {"walk", "index"}
    BY <1>22 DEF EndPrune
  <2> QED BY <2>1, <2>2 DEF RecordsInv, RenameClears, Renaming, WayIsClear, Emptied
<1>23. ASSUME NEW p \in Paths, Outside(p)
      PROVE  RenameClears'
  <2>1. UNCHANGED <<row, progress, notes, ui, littered>> /\ Scanning /\ job \in Jobs
    BY <1>23, Frames DEF Outside, Scanning, RecordsInv, JobTyped
  <2>2. job.at \notin {"walk", "index"} => job'.at \notin {"walk", "index"}
    BY <1>23 DEF Outside
  <2> QED BY <2>1, <2>2 DEF RecordsInv, RenameClears, Renaming, WayIsClear, Emptied
<1>24. ASSUME EndOutside
      PROVE  RenameClears'
  <2>1. UNCHANGED <<row, progress, notes, ui, littered>> /\ Scanning /\ job \in Jobs
    BY <1>24, Frames DEF EndOutside, Scanning, RecordsInv, JobTyped
  <2>2. job.at \notin {"walk", "index"} => job'.at \notin {"walk", "index"}
    BY <1>24 DEF EndOutside
  <2> QED BY <2>1, <2>2 DEF RecordsInv, RenameClears, Renaming, WayIsClear, Emptied
<1>25. ASSUME PollScan
      PROVE  RenameClears'
  <2>1. ui'.to = ""
    BY <1>25, Fields, Frames DEF PollScan, Ready
  <2> QED BY <2>1 DEF RenameClears, Renaming
<1>26. ASSUME NEW p \in Paths, DeleteFile(p)
      PROVE  RenameClears'
  <2>1. UNCHANGED <<row, progress, notes, ui, job>> /\ littered \subseteq littered'
    BY <1>26, Frames DEF DeleteFile
  <2> QED BY <2>1 DEF RecordsInv, RenameClears, Renaming, WayIsClear, Emptied, Scanning
<1>27. ASSUME Crash
      PROVE  RenameClears'
  <2>1. ui'.to = ""
    BY <1>27, Fields DEF Crash
  <2> QED BY <2>1 DEF RenameClears, Renaming
<1> QED BY <1>1, <1>2, <1>3, <1>4, <1>5, <1>6, <1>7, <1>8, <1>9, <1>10, <1>11, <1>12, <1>13, <1>14,
      <1>15, <1>16, <1>17, <1>18, <1>19, <1>20, <1>21, <1>22, <1>23, <1>24, <1>25, <1>26, <1>27, Frames,
      Zenon DEF RecordNext

\* A removal takes nothing that a book is owed.
LEMMA RemovalStep ==
    ASSUME RecordsInv, RecordNext
    PROVE  RemovalTakes'
<1>1. CASE UNCHANGED <<ui, file, marred, has, progress, notes>>
  BY <1>1 DEF RecordsInv, RemovalTakes, Removing, Renaming, Void, NothingOwed
<1>2. ASSUME SavePosition
      PROVE  RemovalTakes'
  <2>1. ~ Removing'
    BY <1>2, Fields DEF SavePosition, Ready, Removing
  <2> QED BY <2>1 DEF RemovalTakes
<1>3. ASSUME AddNote
      PROVE  RemovalTakes'
  <2>1. ~ Removing'
    BY <1>3, Fields DEF AddNote, Ready, Removing
  <2> QED BY <2>1 DEF RemovalTakes
<1>4. ASSUME NEW p \in Paths, Edit(p)
      PROVE  RemovalTakes'
  <2>1. ~ Removing'
    BY <1>4, Fields DEF Edit, Ready, Removing
  <2> QED BY <2>1 DEF RemovalTakes
<1>5. ASSUME NEW p \in Paths, NEW q \in Paths, MoveFile(p, q)
      PROVE  RemovalTakes'
  <2>1. Renaming'
    BY <1>5, MoveIs, Fields DEF Renaming
  <2> QED BY <2>1 DEF RemovalTakes, Removing
<1>6. ASSUME NEW p \in Paths, Trash(p)
      PROVE  RemovalTakes'
  <2>1. ui'.at = "row" /\ ui'.path = p /\ UNCHANGED <<marred, progress, notes>> /\ ui = UiIdle
    BY <1>6, Frames DEF Trash, UiIdle, Ready
  <2>2. file'[p] = NoBook \/ (file'[p] = file[p] /\ file[p] \in Books)
    BY <1>6 DEF Trash, RecordsInv, FilesTyped
  <2>3. file[p] \in Books => has'[file[p]] = {}
    BY <1>6, Fields DEF Trash, RecordsInv, MadeTyped
  <2>4. ASSUME file'[p] = file[p], file[p] \in Books, file[p] \notin marred
        PROVE  NothingOwed(p)'
    <3>1. KeptAt(p)
      BY <2>1, <2>4, Fields DEF RecordsInv, RecordsKept, Sound, Settled
    <3> QED BY <2>1, <2>3, <2>4, <3>1 DEF NothingOwed, KeptAt, PlaceAt, NotesAt
  <2> QED BY <2>1, <2>2, <2>4 DEF RemovalTakes, Void
<1>7. ASSUME UiStatement
      PROVE  RemovalTakes'
  <2>1. UNCHANGED <<file, has, marred>>
    BY <1>7, Frames
  <2> SUFFICES ASSUME Removing'
               PROVE  /\ (Void(ui.path) \/ NothingOwed(ui.path))'
                      /\ (ui'.at = "notes" => progress'[ui.path] = NoBook)
    BY <1>7, UiAfter DEF RemovalTakes
  <2>2. Removing /\ ui'.path = ui.path /\ ui.path \in Paths /\ ui.at \in Statements /\ Forget(ui.path, ui.at)
    BY <1>7, UiAfter DEF Removing, Renaming, UiStatement, Statements
  <2>3. /\ progress'[ui.path] = (IF ui.at = "progress" THEN NoBook ELSE progress[ui.path])
        /\ notes'[ui.path] = (IF ui.at = "notes" THEN {} ELSE notes[ui.path])
    BY <2>2, ForgetIs
  <2>4. ui'.at = "notes" => ui.at = "progress"
    BY <1>7, UiAfter
  <2>5. Void(ui.path) \/ NothingOwed(ui.path)
    BY <2>2 DEF RecordsInv, RemovalTakes
  <2> QED BY <2>1, <2>2, <2>3, <2>4, <2>5 DEF Void, NothingOwed
<1>8. ASSUME NEW f \in Folders, RemoveSource(f)
      PROVE  RemovalTakes'
  <2>1. ~ Removing'
    BY <1>8 DEF RemoveSource, UiIdle, Removing, Statements
  <2> QED BY <2>1 DEF RemovalTakes
<1>9. ASSUME NEW p \in Paths, UiOutside(p)
      PROVE  RemovalTakes'
  <2>1. UNCHANGED <<file, progress>> /\ (~ Under(p, roots) => file[p] = NoBook \/ file[p] \in marred')
    BY <1>9, Frames DEF UiOutside, Dropped
  <2> QED BY <1>9, <2>1, OutsideAfter DEF RemovalTakes, Removing, Void, Statements
<1>10. ASSUME UiOutsideEmpty
      PROVE  RemovalTakes'
  <2>1. ~ Removing'
    BY <1>10, Fields DEF UiOutsideEmpty, Removing, Statements
  <2> QED BY <2>1 DEF RemovalTakes
<1>11. ASSUME Quit
      PROVE  RemovalTakes'
  <2>1. ~ Removing'
    BY <1>11, Fields DEF Quit, Ready, Removing
  <2> QED BY <2>1 DEF RemovalTakes
<1>12. ASSUME LookForRoot
      PROVE  RemovalTakes'
  <2>1. UNCHANGED <<ui, progress, notes>> /\ marred \subseteq marred' /\ file' = file
    BY <1>12, Frames DEF LookForRoot
  <2>2. ASSUME NEW r \in Paths, Void(r) \/ NothingOwed(r)
        PROVE  Void(r)' \/ NothingOwed(r)'
    BY <1>12, <2>1, <2>2, Frames DEF Void, NothingOwed
  <2> QED BY <2>1, <2>2, Fields DEF RecordsInv, RemovalTakes, Removing, Renaming
<1>13. ASSUME JobStatement
      PROVE  RemovalTakes'
  <2>1. UNCHANGED <<ui, file, has, marred>> /\ job.path \in Paths
        /\ job.at \in Statements /\ Forget(job.path, job.at)
    BY <1>13, Frames, JobAfter DEF JobStatement
  <2>2. ASSUME NEW r \in Paths, Void(r) \/ NothingOwed(r)
        PROVE  Void(r)' \/ NothingOwed(r)'
    <3>1. progress'[r] \in {progress[r], NoBook} /\ notes'[r] \subseteq notes[r]
      BY <2>1, ForgetIs
    <3> QED BY <2>1, <2>2, <3>1 DEF Void, NothingOwed
  <2>3. \A r \in Paths : progress[r] = NoBook => progress'[r] = NoBook
    BY <2>1, ForgetIs
  <2> QED BY <2>1, <2>2, <2>3, Fields DEF RecordsInv, RemovalTakes, Removing, Renaming
<1>14. ASSUME NEW p \in Paths, Outside(p)
      PROVE  RemovalTakes'
  <2>1. UNCHANGED <<ui, progress, notes>> /\ marred \subseteq marred' /\ file' = file
    BY <1>14, Frames DEF Outside, Dropped
  <2>2. ASSUME NEW r \in Paths, Void(r) \/ NothingOwed(r)
        PROVE  Void(r)' \/ NothingOwed(r)'
    <3>1. \A b \in Books : has[b] = {} => has'[b] = {}
      BY <1>14 DEF Outside, Dropped, RecordsInv, MadeTyped
    <3> QED BY <2>1, <2>2, <3>1, RowFields DEF Void, NothingOwed
  <2> QED BY <2>1, <2>2, Fields DEF RecordsInv, RemovalTakes, Removing, Renaming
<1>15. ASSUME NEW p \in Paths, DeleteFile(p)
      PROVE  RemovalTakes'
  <2>1. UNCHANGED <<ui, progress, notes>> /\ marred' = marred /\ file' = [file EXCEPT ![p] = NoBook]
    BY <1>15, Frames DEF DeleteFile
  <2>2. ASSUME NEW r \in Paths, Void(r) \/ NothingOwed(r)
        PROVE  Void(r)' \/ NothingOwed(r)'
    <3>1. file'[r] = NoBook \/ (file'[r] = file[r] /\ file[r] \in Books)
      BY <2>1 DEF RecordsInv, FilesTyped
    <3>2. \A b \in Books : has[b] = {} => has'[b] = {}
      BY <1>15 DEF DeleteFile
    <3> QED BY <2>1, <2>2, <3>1, <3>2 DEF Void, NothingOwed
  <2> QED BY <2>1, <2>2, Fields DEF RecordsInv, RemovalTakes, Removing, Renaming
<1>16. ASSUME NEW p \in Paths, NEW b \in Books, PutFile(p, b)
      PROVE  RemovalTakes'
  <2>1. UNCHANGED <<ui, progress, notes, has>> /\ file' = [file EXCEPT ![p] = b] /\ file[p] = NoBook
    BY <1>16, Frames DEF PutFile
  <2>2. CASE ui = UiIdle
    BY <2>1, <2>2, Fields DEF RemovalTakes, Removing
  <2>3. CASE ui # UiIdle
    <3>1. marred' = marred \cup {b}
      BY <1>16, <2>3 DEF PutFile
    <3>2. ASSUME NEW r \in Paths, Void(r) \/ NothingOwed(r)
          PROVE  Void(r)' \/ NothingOwed(r)'
      <4>1. CASE r = p
        BY <2>1, <3>1, <4>1 DEF Void, RecordsInv, FilesTyped
      <4>2. CASE r # p
        <5>1. file'[r] = file[r]
          BY <2>1, <4>2 DEF RecordsInv
        <5> QED BY <2>1, <3>1, <3>2 DEF Void, NothingOwed
      <4> QED BY <4>1, <4>2
    <3> QED BY <2>1, <3>2, Fields DEF RecordsInv, RemovalTakes, Removing, Renaming
  <2> QED BY <2>2, <2>3
<1>17. ASSUME Crash
      PROVE  RemovalTakes'
  <2>1. ~ Removing'
    BY <1>17, Fields DEF Crash, Removing, Statements
  <2> QED BY <2>1 DEF RemovalTakes
<1> QED BY <1>1, <1>2, <1>3, <1>4, <1>5, <1>6, <1>7, <1>8, <1>9, <1>10, <1>11, <1>12, <1>13, <1>14,
      <1>15, <1>16, <1>17, Frames, Zenon DEF RecordNext

\* A rename has its book at the new path.
LEMMA ArrivesStep ==
    ASSUME RecordsInv, RecordNext
    PROVE  RenameArrives'
<1>1. CASE UNCHANGED <<ui, file, littered>>
  BY <1>1 DEF RecordsInv, RenameArrives, Renaming, Lost
<1>2. ASSUME NEW p \in Paths, NEW q \in Paths, MoveFile(p, q)
      PROVE  RenameArrives'
  <2>1. file'[q] = file[p] /\ file[p] # NoBook /\ ui'.to = q
    BY <1>2, MoveIs, Fields
  <2> QED BY <2>1 DEF RenameArrives, Lost
<1>3. ASSUME NEW p \in Paths, Trash(p)
      PROVE  RenameArrives'
  BY <1>3, Frames DEF RenameArrives, Trash, Renaming, UiIdle
<1>4. ASSUME UiStatement
      PROVE  RenameArrives'
  <2>1. file' = file /\ littered \ {ui.path} \subseteq littered' /\ littered' \subseteq littered
    BY <1>4, Frames, ClearedIs DEF UiStatement
  <2> QED BY <1>4, <2>1, UiAfter DEF RecordsInv, RenameArrives, Lost, Renaming, UiShape
<1>5. ASSUME NEW f \in Folders, RemoveSource(f)
      PROVE  RenameArrives'
  BY <1>5, Frames DEF RenameArrives, RemoveSource, Renaming, UiIdle
<1>6. ASSUME NEW p \in Paths, UiOutside(p)
      PROVE  RenameArrives'
  BY <1>6, OutsideAfter DEF RenameArrives, Renaming
<1>7. ASSUME UiOutsideEmpty
      PROVE  RenameArrives'
  BY <1>7, Fields, Frames DEF RenameArrives, UiOutsideEmpty, Renaming
<1>8. ASSUME Quit
      PROVE  RenameArrives'
  BY <1>8, RowFields, Frames DEF RecordsInv, RenameArrives, Quit, Renaming, Lost
<1>9. ASSUME LookForRoot
      PROVE  RenameArrives'
  BY <1>9, Frames DEF RecordsInv, RenameArrives, LookForRoot, Renaming, Lost
<1>10. ASSUME JobStatement
      PROVE  RenameArrives'
  <2>1. file' = file /\ ui' = ui /\ littered \ {job.path} \subseteq littered'
        /\ (job.path \notin littered' /\ job.path \in littered => ui.to # job.path)
    BY <1>10, Frames, ClearedIs DEF JobStatement
  <2> QED BY <2>1 DEF RecordsInv, RenameArrives, Lost, Renaming
<1>11. ASSUME NEW p \in Paths, DeleteFile(p)
      PROVE  RenameArrives'
  BY <1>11, Fields, RowFields, Frames DEF RecordsInv, RenameArrives, DeleteFile, Renaming, Lost,
     FilesTyped
<1>12. ASSUME NEW p \in Paths, NEW b \in Books, PutFile(p, b)
      PROVE  RenameArrives'
  BY <1>12, Fields, RowFields, Frames DEF RecordsInv, RenameArrives, PutFile, Renaming, Lost,
     FilesTyped
<1>13. ASSUME Crash
      PROVE  RenameArrives'
  BY <1>13, Fields, RowFields, Frames DEF RenameArrives, Crash, Renaming
<1> QED BY <1>1, <1>2, <1>3, <1>4, <1>5, <1>6, <1>7, <1>8, <1>9, <1>10, <1>11, <1>12, <1>13, Frames,
      Zenon DEF RecordNext

\* A place under a path whose file is gone is on its way out.
LEMMA ProgressStep ==
    ASSUME RecordsInv, RecordNext
    PROVE  ProgressFollows'
<1>1. CASE UNCHANGED <<file, littered, progress, ui>>
  BY <1>1 DEF RecordsInv, ProgressFollows, Lost
<1>2. ASSUME SavePosition
      PROVE  ProgressFollows'
  BY <1>2, Fields, RowFields, Frames DEF RecordsInv, ProgressFollows, SavePosition, Lost,
     TablesTyped, ReaderKnows
<1>3. ASSUME NEW p \in Paths, NEW q \in Paths, MoveFile(p, q)
      PROVE  ProgressFollows'
  <2>1. ui.path \notin Paths /\ progress' = progress
    BY <1>3, MoveIs, Fields, Frames
  <2> QED BY <1>3, <2>1, MoveIs DEF RecordsInv, ProgressFollows, Lost, Statements
<1>4. ASSUME NEW p \in Paths, Trash(p)
      PROVE  ProgressFollows'
  BY <1>4, Fields, RowFields, Frames DEF RecordsInv, ProgressFollows, Trash, Lost, FilesTyped,
     TablesTyped, Ready, UiIdle, Exists, Orphaned, Leftovers, Statements
<1>5. ASSUME UiStatement
      PROVE  ProgressFollows'
  <2>1. file' = file
    BY <1>5, Frames
  <2> QED BY <1>5, <2>1, UiOn, UiAfter DEF RecordsInv, ProgressFollows, Lost, Emptied
<1>6. ASSUME NEW f \in Folders, RemoveSource(f)
      PROVE  ProgressFollows'
  BY <1>6, Fields, RowFields, Frames DEF RecordsInv, ProgressFollows, RemoveSource, Lost, Ready
<1>7. ASSUME NEW p \in Paths, UiOutside(p)
      PROVE  ProgressFollows'
  <2>1. UNCHANGED <<file, littered, progress, notes>> /\ ui.path = "" /\ ui.path \notin Paths
    BY <1>7, Frames, OutsideAfter, Fields
  <2> QED BY <2>1 DEF RecordsInv, ProgressFollows, Lost
<1>8. ASSUME UiOutsideEmpty
      PROVE  ProgressFollows'
  BY <1>8, Fields, RowFields, Frames DEF RecordsInv, ProgressFollows, UiOutsideEmpty, Lost
<1>9. ASSUME Quit
      PROVE  ProgressFollows'
  BY <1>9, Fields, RowFields, Frames DEF RecordsInv, ProgressFollows, Quit, Lost, TablesTyped,
     ReaderKnows
<1>10. ASSUME LookForRoot
      PROVE  ProgressFollows'
  BY <1>10, Fields, RowFields, Frames DEF RecordsInv, ProgressFollows, LookForRoot, Lost
<1>11. ASSUME JobStatement
      PROVE  ProgressFollows'
  <2>1. job.path \in Paths /\ job.at \in Statements /\ UNCHANGED <<file, ui>>
    BY <1>11, JobAfter, Frames
  <2>2. /\ Forget(job.path, job.at) /\ Cleared(job.path, job.at)
    BY <1>11 DEF JobStatement
  <2> QED BY <2>1, <2>2, ForgetIs, ClearedIs DEF RecordsInv, ProgressFollows, Lost, Emptied
<1>12. ASSUME NEW p \in Paths, DeleteFile(p)
      PROVE  ProgressFollows'
  BY <1>12, Fields, RowFields, Frames DEF RecordsInv, ProgressFollows, DeleteFile, Lost, FilesTyped
<1>13. ASSUME NEW p \in Paths, NEW b \in Books, PutFile(p, b)
      PROVE  ProgressFollows'
  BY <1>13, Fields, RowFields, Frames DEF RecordsInv, ProgressFollows, PutFile, Lost, FilesTyped,
     ReaderKnows, Ready, UiIdle, Exists, Orphaned, Leftovers, Statements
<1>14. ASSUME Crash
      PROVE  ProgressFollows'
  BY <1>14, Fields, RowFields, Frames DEF RecordsInv, ProgressFollows, Crash, Lost, Orphaned,
     Leftovers
<1> QED BY <1>1, <1>2, <1>3, <1>4, <1>5, <1>6, <1>7, <1>8, <1>9, <1>10, <1>11, <1>12, <1>13, <1>14,
      Frames, Zenon DEF RecordNext

\* So are notes.
LEMMA NotesStep ==
    ASSUME RecordsInv, RecordNext
    PROVE  NotesFollow'
<1>1. CASE UNCHANGED <<file, littered, notes, ui>>
  BY <1>1 DEF RecordsInv, NotesFollow, Lost
<1>2. ASSUME AddNote
      PROVE  NotesFollow'
  <2>1. reader.path \in Paths /\ ~ Lost(reader.path) /\ UNCHANGED <<file, littered, ui>>
    BY <1>2, Fields, Frames DEF AddNote, RecordsInv, ReaderKnows, Lost
  <2>2. \A r \in Paths : r # reader.path => notes'[r] = notes[r]
    BY <1>2 DEF AddNote
  <2> QED BY <2>1, <2>2 DEF RecordsInv, NotesFollow, Lost
<1>3. ASSUME NEW p \in Paths, NEW q \in Paths, MoveFile(p, q)
      PROVE  NotesFollow'
  <2>1. ui.path \notin Paths /\ notes' = notes
    BY <1>3, MoveIs, Fields, Frames
  <2> QED BY <1>3, <2>1, MoveIs DEF RecordsInv, NotesFollow, Lost, Statements
<1>4. ASSUME NEW p \in Paths, Trash(p)
      PROVE  NotesFollow'
  BY <1>4, Fields, RowFields, Frames DEF RecordsInv, NotesFollow, Trash, Lost, FilesTyped, Ready,
     UiIdle, Statements
<1>5. ASSUME UiStatement
      PROVE  NotesFollow'
  <2>1. file' = file
    BY <1>5, Frames
  <2> QED BY <1>5, <2>1, UiOn, UiAfter DEF RecordsInv, NotesFollow, Lost, Emptied, Statements
<1>6. ASSUME NEW f \in Folders, RemoveSource(f)
      PROVE  NotesFollow'
  BY <1>6, Fields, RowFields, Frames DEF RecordsInv, NotesFollow, RemoveSource, Lost, Ready
<1>7. ASSUME NEW p \in Paths, UiOutside(p)
      PROVE  NotesFollow'
  <2>1. UNCHANGED <<file, littered, progress, notes>> /\ ui.path = "" /\ ui.path \notin Paths
    BY <1>7, Frames, OutsideAfter, Fields
  <2> QED BY <2>1 DEF RecordsInv, NotesFollow, Lost
<1>8. ASSUME UiOutsideEmpty
      PROVE  NotesFollow'
  BY <1>8, Fields, RowFields, Frames DEF RecordsInv, NotesFollow, UiOutsideEmpty, Lost, Statements
<1>9. ASSUME Quit
      PROVE  NotesFollow'
  BY <1>9, Fields, RowFields, Frames DEF RecordsInv, NotesFollow, Quit, Lost
<1>10. ASSUME LookForRoot
      PROVE  NotesFollow'
  BY <1>10, Fields, RowFields, Frames DEF RecordsInv, NotesFollow, LookForRoot, Lost
<1>11. ASSUME JobStatement
      PROVE  NotesFollow'
  <2>1. job.path \in Paths /\ job.at \in Statements /\ UNCHANGED <<file, ui>>
    BY <1>11, JobAfter, Frames
  <2>2. /\ Forget(job.path, job.at) /\ Cleared(job.path, job.at)
    BY <1>11 DEF JobStatement
  <2> QED BY <2>1, <2>2, ForgetIs, ClearedIs DEF RecordsInv, NotesFollow, Lost
<1>12. ASSUME NEW p \in Paths, DeleteFile(p)
      PROVE  NotesFollow'
  BY <1>12, Fields, RowFields, Frames DEF RecordsInv, NotesFollow, DeleteFile, Lost, FilesTyped
<1>13. ASSUME NEW p \in Paths, NEW b \in Books, PutFile(p, b)
      PROVE  NotesFollow'
  BY <1>13, Fields, RowFields, Frames DEF RecordsInv, NotesFollow, PutFile, Lost, FilesTyped
<1>14. ASSUME Crash
      PROVE  NotesFollow'
  BY <1>14, Fields, RowFields, Frames DEF RecordsInv, NotesFollow, Crash, Lost, Orphaned, Leftovers
<1> QED BY <1>1, <1>2, <1>3, <1>4, <1>5, <1>6, <1>7, <1>8, <1>9, <1>10, <1>11, <1>12, <1>13, <1>14,
      Frames, Zenon DEF RecordNext

\* So is a row, or the scan still comes to it.
LEMMA RowsStep ==
    ASSUME RecordsInv, RecordNext
    PROVE  RowsFollow'
<1>1. CASE UNCHANGED <<file, littered, row, ui, job>>
  BY <1>1 DEF RecordsInv, RowsFollow, Lost, Pending, Pruning
<1>2. ASSUME LaunchLibrary
      PROVE  RowsFollow'
  <2>1. UNCHANGED <<file, littered, row, ui>>
    BY <1>2, Frames
  <2>2. job' = job \/ (~ Scanning /\ ui = UiIdle)
    BY <1>2, Starts
  <2> QED BY <2>1, <2>2, NothingWaits DEF RecordsInv, RowsFollow, Lost, Pending, Pruning
<1>3. ASSUME NEW p \in Paths, Open(p)
      PROVE  RowsFollow'
  BY <1>3, Fields, RowFields, Frames DEF RecordsInv, RowsFollow, Open, Opened, Lost, FilesTyped,
     TablesTyped, Ready, UiIdle, Exists, Orphaned, Leftovers, Statements, Pending, Pruning, RowsFollow
<1>4. ASSUME NEW p \in Paths, Edit(p)
      PROVE  RowsFollow'
  <2>1. UNCHANGED <<file, littered, ui, job>> /\ row[p].in
    BY <1>4, Frames DEF Edit
  <2>2. \A r \in Paths : row'[r].in => row[r].in
    BY <1>4 DEF Edit, RecordsInv, TablesTyped
  <2> QED BY <2>1, <2>2 DEF RecordsInv, RowsFollow, Lost, Pending, Pruning
<1>5. ASSUME NEW p \in Paths, NEW q \in Paths, MoveFile(p, q)
      PROVE  RowsFollow'
  <2>1. ui.path \notin Paths /\ row' = row /\ job' = job
    BY <1>5, MoveIs, Fields, Frames
  <2>2. \A r \in Paths : r # p /\ Lost(r)' => Lost(r)
    BY <1>5, MoveIs DEF Lost
  <2> QED BY <1>5, <2>1, <2>2, MoveIs DEF RecordsInv, RowsFollow, Pending, Pruning
<1>6. ASSUME NEW p \in Paths, Trash(p)
      PROVE  RowsFollow'
  BY <1>6, Fields, RowFields, Frames DEF RecordsInv, RowsFollow, Trash, Lost, FilesTyped, TablesTyped,
     Ready, UiIdle, Exists, Orphaned, Leftovers, Statements, Pending, Pruning, RowsFollow
<1>7. ASSUME UiStatement
      PROVE  RowsFollow'
  <2>1. file' = file /\ job' = job
    BY <1>7, Frames
  <2> SUFFICES ASSUME NEW r \in Paths, Lost(r)', row'[r].in
               PROVE  (ui'.path = r /\ ui'.at = "row") \/ Pending(r)'
    BY DEF RowsFollow
  <2>2. Lost(r) /\ row[r].in /\ (r = ui.path => ui.at # "row")
    BY <1>7, <2>1, UiOn DEF Lost, Emptied
  <2> QED BY <2>1, <2>2 DEF RecordsInv, RowsFollow, Pending, Pruning
<1>8. ASSUME NEW f \in Folders, AddSource(f)
      PROVE  RowsFollow'
  <2>1. UNCHANGED <<file, littered, row, ui>>
    BY <1>8, Frames
  <2>2. job' = job \/ (~ Scanning /\ ui = UiIdle)
    BY <1>8, Starts
  <2> QED BY <2>1, <2>2, NothingWaits DEF RecordsInv, RowsFollow, Lost, Pending, Pruning
<1>9. ASSUME NEW f \in Folders, RemoveSource(f)
      PROVE  RowsFollow'
  BY <1>9, Fields, RowFields, Frames DEF RecordsInv, RowsFollow, RemoveSource, Lost, Ready, Pending,
     Pruning, RowsFollow
<1>10. ASSUME NEW p \in Paths, UiOutside(p)
      PROVE  RowsFollow'
  <2>1. UNCHANGED <<file, littered, row, job>> /\ ui.path = "" /\ ui.path \notin Paths
    BY <1>10, Frames, OutsideAfter, Fields
  <2> QED BY <2>1 DEF RecordsInv, RowsFollow, Lost, Pending, Pruning
<1>11. ASSUME UiOutsideEmpty
      PROVE  RowsFollow'
  BY <1>11, Fields, RowFields, Frames DEF RecordsInv, RowsFollow, UiOutsideEmpty, Lost, Pending,
     Pruning, RowsFollow
<1>12. ASSUME Rescan
      PROVE  RowsFollow'
  <2>1. UNCHANGED <<file, littered, row, ui>>
    BY <1>12, Frames
  <2>2. job' = job \/ (~ Scanning /\ ui = UiIdle)
    BY <1>12, Starts
  <2> QED BY <2>1, <2>2, NothingWaits DEF RecordsInv, RowsFollow, Lost, Pending, Pruning
<1>13. ASSUME Quit
      PROVE  RowsFollow'
  BY <1>13, Fields, RowFields, Frames DEF RecordsInv, RowsFollow, Quit, Made, Lost, Orphaned,
     Leftovers, RowsFollow
<1>14. ASSUME NEW p \in Paths, Visit(p)
      PROVE  RowsFollow'
  <2>1. UNCHANGED <<file, littered, row, ui>>
    BY <1>14, Frames
  <2>2. \A r \in Paths : Pending(r)'
    BY <1>14, VisitAfter DEF Pending
  <2> QED BY <2>1, <2>2 DEF RecordsInv, RowsFollow, Lost
<1>15. ASSUME Index
      PROVE  RowsFollow'
  <2>1. job'.at = "walk"
    BY <1>15, IndexAfter
  <2> QED BY <2>1 DEF RowsFollow, Pending
<1>16. ASSUME StartPrune
      PROVE  RowsFollow'
  <2>1. UNCHANGED <<file, littered, row, ui>> /\ job \in Jobs
    BY <1>16, Frames DEF RecordsInv, JobTyped
  <2>2. \A r \in Paths : Lost(r) /\ row[r].in /\ Pending(r) => Pending(r)'
    BY <1>16, <2>1 DEF StartPrune, Pending, Pruning, Jobs
  <2> QED BY <2>1, <2>2 DEF RecordsInv, RowsFollow, Lost
<1>17. ASSUME NEW p \in Paths, LookForFile(p)
      PROVE  RowsFollow'
  <2>1. UNCHANGED <<file, littered, row, ui>> /\ job \in Jobs
    BY <1>17, Frames DEF RecordsInv, JobTyped
  <2>2. \A r \in Paths : Lost(r) /\ row[r].in /\ Pending(r) => Pending(r)'
    BY <1>17, <2>1 DEF LookForFile, Pending, Pruning, Lost, Exists, Jobs
  <2> QED BY <2>1, <2>2 DEF RecordsInv, RowsFollow, Lost
<1>18. ASSUME LookForRoot
      PROVE  RowsFollow'
  <2>1. UNCHANGED <<file, row, ui>> /\ job \in Jobs /\ littered \subseteq littered'
    BY <1>18, Frames DEF RecordsInv, JobTyped, LookForRoot
  <2>2. ASSUME NEW r \in Paths, Lost(r)', Pending(r)
        PROVE  Pending(r)'
    <3>1. job.at = "gone" /\ (r \in job.todo \/ job.path = r)
      BY <1>18, <2>2 DEF LookForRoot, Pending
    <3>2. CASE Offline(job.path)
      <4>1. job' = [job EXCEPT !.at = "prune"] /\ r # job.path
        BY <1>18, <2>1, <2>2, <3>2 DEF LookForRoot, Lost
      <4> QED BY <3>1, <4>1 DEF Pending, Pruning
    <3>3. CASE ~ Offline(job.path)
      <4>1. job' = [job EXCEPT !.at = "row", !.then = "prune"]
        BY <1>18, <3>3 DEF LookForRoot
      <4> QED BY <3>1, <4>1 DEF Pending, Pruning, Statements
    <3> QED BY <3>2, <3>3
  <2> QED BY <2>1, <2>2 DEF RecordsInv, RowsFollow, Lost
<1>19. ASSUME JobStatement
      PROVE  RowsFollow'
  <2>1. job.path \in Paths /\ job.at \in Statements /\ UNCHANGED <<file, ui>> /\ NoRow.in = FALSE
    BY <1>19, JobAfter, Frames DEF NoRow
  <2>2. Forget(job.path, job.at) /\ Cleared(job.path, job.at)
    BY <1>19 DEF JobStatement
  <2> SUFFICES ASSUME NEW r \in Paths, Lost(r)', row'[r].in
               PROVE  (ui.path = r /\ ui.at = "row") \/ Pending(r)'
    BY <2>1 DEF RowsFollow
  <2>3. Lost(r) /\ row[r].in /\ ~ (r = job.path /\ job.at = "row")
    BY <2>1, <2>2, ForgetIs, ClearedIs DEF Lost, Emptied
  <2>4. Pending(r) => Pending(r)'
    BY <1>19, <2>3, JobAfter DEF Pending, Pruning, Statements
  <2> QED BY <2>3, <2>4 DEF RecordsInv, RowsFollow
<1>20. ASSUME EndPrune
      PROVE  RowsFollow'
  <2>1. UNCHANGED <<file, littered, row, ui>> /\ job \in Jobs
    BY <1>20, Frames DEF RecordsInv, JobTyped
  <2>2. \A r \in Paths : Lost(r) /\ row[r].in /\ Pending(r) => Pending(r)'
    BY <1>20 DEF EndPrune, Pending
  <2> QED BY <2>1, <2>2 DEF RecordsInv, RowsFollow, Lost
<1>21. ASSUME NEW p \in Paths, Outside(p)
      PROVE  RowsFollow'
  <2>1. UNCHANGED <<file, littered, row, ui>> /\ job \in Jobs
    BY <1>21, Frames DEF RecordsInv, JobTyped
  <2>2. \A r \in Paths : Lost(r) /\ row[r].in /\ Pending(r) => Pending(r)'
    BY <1>21 DEF Outside, Pending, Pruning, Statements
  <2> QED BY <2>1, <2>2 DEF RecordsInv, RowsFollow, Lost
<1>22. ASSUME EndOutside
      PROVE  RowsFollow'
  <2>1. UNCHANGED <<file, littered, row, ui>> /\ job \in Jobs
    BY <1>22, Frames DEF RecordsInv, JobTyped
  <2>2. \A r \in Paths : Lost(r) /\ row[r].in /\ Pending(r) => Pending(r)'
    BY <1>22 DEF EndOutside, Pending
  <2> QED BY <2>1, <2>2 DEF RecordsInv, RowsFollow, Lost
<1>23. ASSUME PollScan
      PROVE  RowsFollow'
  <2>1. UNCHANGED <<file, littered, row, ui>> /\ job \in Jobs
    BY <1>23, Frames DEF RecordsInv, JobTyped
  <2>2. \A r \in Paths : Lost(r) /\ row[r].in /\ Pending(r) => Pending(r)'
    BY <1>23 DEF PollScan, Pending, Pruning, Statements
  <2> QED BY <2>1, <2>2 DEF RecordsInv, RowsFollow, Lost
<1>24. ASSUME NEW p \in Paths, DeleteFile(p)
      PROVE  RowsFollow'
  BY <1>24, Fields, RowFields, Frames DEF RecordsInv, RowsFollow, DeleteFile, Fault, Lost, FilesTyped,
     TablesTyped, Ready, UiIdle, Exists, Orphaned, Leftovers, Statements, Pending, Pruning, RowsFollow
<1>25. ASSUME NEW p \in Paths, NEW b \in Books, PutFile(p, b)
      PROVE  RowsFollow'
  BY <1>25, Fields, RowFields DEF RecordsInv, RowsFollow, world, tables, counters, recordGhosts,
     JobFrame, PutFile, Fault, Lost, FilesTyped, TablesTyped, Ready, UiIdle, Exists, Orphaned,
     Leftovers, Statements, Pending, Pruning, RowsFollow
<1>26. ASSUME Crash
      PROVE  RowsFollow'
  BY <1>26, Fields, RowFields, Frames DEF RecordsInv, RowsFollow, Crash, Fault, Lost, Orphaned,
     Leftovers, RowsFollow
<1> QED BY <1>1, <1>2, <1>3, <1>4, <1>5, <1>6, <1>7, <1>8, <1>9, <1>10, <1>11, <1>12, <1>13, <1>14,
      <1>15, <1>16, <1>17, <1>18, <1>19, <1>20, <1>21, <1>22, <1>23, <1>24, <1>25, <1>26, Frames, Zenon
      DEF RecordNext

\* What a rename has not carried yet is still under the old path.
LEMMA CarriesStep ==
    ASSUME RecordsInv, RecordNext
    PROVE  Carrying'
<1>1. CASE UNCHANGED <<ui, file, marred, row, progress, notes, job, has>>
  BY <1>1 DEF RecordsInv, Carrying, RenameCarries, Renaming, Void, WayIsClear, Scanning, EditAt, PlaceAt, NotesAt
<1>2. ASSUME LaunchLibrary
      PROVE  Carrying'
  <2>1. ~ Renaming'
    BY <1>2, Fields DEF LaunchLibrary, RecordsInv, OneAtATime, Renaming
  <2> QED BY <2>1 DEF Carrying, RenameCarries
<1>3. ASSUME NEW p \in Paths, Open(p)
      PROVE  Carrying'
  <2>1. ~ Renaming'
    BY <1>3, Fields DEF Open, Ready, RecordsInv, OneAtATime, Renaming
  <2> QED BY <2>1 DEF Carrying, RenameCarries
<1>4. ASSUME SavePosition
      PROVE  Carrying'
  <2>1. ~ Renaming'
    BY <1>4, Fields DEF SavePosition, Ready, Renaming
  <2> QED BY <2>1 DEF Carrying, RenameCarries
<1>5. ASSUME AddNote
      PROVE  Carrying'
  <2>1. ~ Renaming'
    BY <1>5, Fields DEF AddNote, Ready, Renaming
  <2> QED BY <2>1 DEF Carrying, RenameCarries
<1>6. ASSUME NEW p \in Paths, Edit(p)
      PROVE  Carrying'
  <2>1. ~ Renaming'
    BY <1>6, Fields DEF Edit, Ready, Renaming
  <2> QED BY <2>1 DEF Carrying, RenameCarries
<1>7. ASSUME NEW p \in Paths, NEW q \in Paths, MoveFile(p, q)
      PROVE  Carrying'
  <2>1. UNCHANGED <<row, progress, notes, job, has>> /\ ui.path \notin Paths
    BY <1>7, Frames, MoveIs, Fields
  <2> SUFFICES ASSUME ~ Void(q)'
               PROVE  Carrying'
    BY <1>7, MoveIs DEF Carrying, RenameCarries
  <2>2. ~ Scanning /\ q \notin littered /\ file'[q] = file[p] /\ file[p] \in Books \ marred
    BY <1>7, MoveIs DEF Void
  <2>3. Lost(q) /\ ~ Pending(q) /\ ui.path # q
    <3>1. job = JobNone
      BY <2>2 DEF RecordsInv, JobShape, Scanning
    <3> QED BY <1>7, <2>1, <2>2, <3>1, MoveIs, Fields DEF Lost, Pending, Pruning
  <2>4. ~ row[q].in /\ progress[q] = NoBook /\ notes[q] = {}
    BY <2>3 DEF RecordsInv, RowsFollow, ProgressFollows, NotesFollow
  <2>5. WayIsClear'
    BY <1>7, <2>1, <2>2, <2>4, MoveIs DEF WayIsClear, Scanning
  <2>6. KeptAt(p)
    <3>1. Sound(p)
      <4>1. ui = UiIdle
        BY <1>7, MoveIs
      <4>2. ui.path # p /\ ui.to # p
        BY <4>1, Fields
      <4> QED BY <2>2, <4>2 DEF Sound, Settled
    <3> QED BY <3>1 DEF RecordsInv, RecordsKept
  <2>7. notes'[q] = {} /\ EditAt(file[q], p)' /\ PlaceAt(file[q], p)' /\ NotesAt(file[q], p)'
    BY <2>1, <2>2, <2>4, <2>6 DEF KeptAt, EditAt, PlaceAt, NotesAt
  <2>8. ui'.at = "row" /\ ui'.path = p /\ ui'.to = q
    BY <1>7, MoveIs
  <2> QED BY <2>5, <2>7, <2>8 DEF Carrying, RenameCarries
<1>8. ASSUME NEW p \in Paths, Trash(p)
      PROVE  Carrying'
  <2>1. ~ Renaming'
    BY <1>8 DEF Trash, UiIdle, Renaming
  <2> QED BY <2>1 DEF Carrying, RenameCarries
<1>9. ASSUME UiStatement
      PROVE  Carrying'
  <2>1. UNCHANGED <<file, has, marred, job>> /\ ui.path \in Paths /\ ui.at \in Statements
    BY <1>9, Frames, UiAfter
  <2> SUFFICES ASSUME Renaming', ~ Void(ui.to)'
               PROVE  Carrying'
    BY DEF Carrying, RenameCarries
  <2>2. ui'.path = ui.path /\ ui'.to = ui.to /\ Renaming /\ ~ Void(ui.to)
    BY <1>9, <2>1, UiAfter DEF Renaming, Void
  <2>3. ui.to \in Paths /\ ui.path # ui.to /\ Repoint(ui.path, ui.to, ui.at)
    BY <1>9, <2>2, Fields DEF UiStatement, RecordsInv, UiShape
  <2> DEFINE b == file[ui.to]
  <2>4. /\ WayIsClear /\ notes[ui.to] = {}
        /\ EditAt(b, IF ui.at = "row" THEN ui.path ELSE ui.to)
        /\ PlaceAt(b, IF ui.at \in {"row", "progress"} THEN ui.path ELSE ui.to)
        /\ NotesAt(b, ui.path)
    BY <2>2 DEF RecordsInv, Carrying, RenameCarries
  <2>5. NoRow.edited = FALSE /\ (row[ui.path].in \/ row[ui.path] = NoRow)
    BY <2>1, RowFields
  <2>6. CASE ui.at = "row"
    <3>1. ui'.at = "progress" /\ progress'[ui.to] = NoBook /\ notes'[ui.to] = {}
      BY <1>9, <2>3, <2>4, <2>6, RepointIs, UiAfter DEF WayIsClear
    <3>2. progress'[ui.path] = progress[ui.path] /\ notes'[ui.path] = notes[ui.path]
      BY <2>1, <2>3, <2>6, RepointIs
    <3>3. "edit" \in has[b] => row'[ui.to].edited /\ row'[ui.to].desc = b
      <4>1. ~ row[ui.to].in
        BY <2>4, <2>6 DEF WayIsClear
      <4>2. CASE row[ui.path].in
        <5>1. row'[ui.to] = row[ui.path]
          BY <2>1, <2>3, <2>6, <4>1, <4>2, RepointIs
        <5> QED BY <2>4, <2>6, <5>1 DEF EditAt
      <4>3. CASE row[ui.path] = NoRow
        BY <2>4, <2>5, <2>6, <4>3 DEF EditAt
      <4> QED BY <2>5, <4>2, <4>3
    <3> QED BY <2>1, <2>2, <2>4, <2>6, <3>1, <3>2, <3>3 DEF Carrying, RenameCarries, WayIsClear, Scanning, EditAt,
          PlaceAt, NotesAt
  <2>7. CASE ui.at = "progress"
    <3>1. ui'.at = "notes" /\ progress'[ui.to] = progress[ui.path] /\ notes'[ui.to] = {}
      BY <1>9, <2>3, <2>4, <2>7, RepointIs, UiAfter DEF WayIsClear
    <3>2. row'[ui.to] = row[ui.to] /\ notes'[ui.path] = notes[ui.path]
      BY <2>1, <2>3, <2>7, RepointIs
    <3> QED BY <2>1, <2>2, <2>4, <2>7, <3>1, <3>2 DEF Carrying, RenameCarries, WayIsClear, Scanning, EditAt,
          PlaceAt, NotesAt
  <2>8. CASE ui.at = "notes"
    BY <1>9, <2>8, UiAfter DEF Renaming
  <2> QED BY <2>1, <2>6, <2>7, <2>8 DEF Statements
<1>10. ASSUME NEW f \in Folders, AddSource(f)
      PROVE  Carrying'
  <2>1. ~ Renaming'
    BY <1>10, Fields DEF AddSource, Ready, Renaming
  <2> QED BY <2>1 DEF Carrying, RenameCarries
<1>11. ASSUME NEW f \in Folders, RemoveSource(f)
      PROVE  Carrying'
  <2>1. ~ Renaming'
    BY <1>11 DEF RemoveSource, UiIdle, Renaming
  <2> QED BY <2>1 DEF Carrying, RenameCarries
<1>12. ASSUME NEW p \in Paths, UiOutside(p)
      PROVE  Carrying'
  BY <1>12, OutsideAfter DEF Carrying, RenameCarries, Renaming
<1>13. ASSUME UiOutsideEmpty
      PROVE  Carrying'
  <2>1. ~ Renaming'
    BY <1>13, Fields DEF UiOutsideEmpty, Renaming
  <2> QED BY <2>1 DEF Carrying, RenameCarries
<1>14. ASSUME Rescan
      PROVE  Carrying'
  <2>1. ~ Renaming'
    BY <1>14, Fields DEF Rescan, Ready, Renaming
  <2> QED BY <2>1 DEF Carrying, RenameCarries
<1>15. ASSUME Quit
      PROVE  Carrying'
  <2>1. ~ Renaming'
    BY <1>15, Fields DEF Quit, Ready, Renaming
  <2> QED BY <2>1 DEF Carrying, RenameCarries
<1>16. ASSUME NEW p \in Paths, Visit(p)
      PROVE  Carrying'
  <2>1. UNCHANGED <<ui, file>> /\ Scanning /\ marred \subseteq marred'
    BY <1>16, Frames DEF Visit, Scanning
  <2> QED BY <2>1 DEF RecordsInv, Carrying, RenameCarries, Renaming, WayIsClear, Void
<1>17. ASSUME Index
      PROVE  Carrying'
  <2>1. UNCHANGED <<ui, file>> /\ Scanning /\ marred \subseteq marred'
    BY <1>17, Frames DEF Index, Scanning
  <2> QED BY <2>1 DEF RecordsInv, Carrying, RenameCarries, Renaming, WayIsClear, Void
<1>18. ASSUME StartPrune
      PROVE  Carrying'
  <2>1. UNCHANGED <<ui, file>> /\ Scanning /\ marred \subseteq marred'
    BY <1>18, Frames DEF StartPrune, Scanning
  <2> QED BY <2>1 DEF RecordsInv, Carrying, RenameCarries, Renaming, WayIsClear, Void
<1>19. ASSUME NEW p \in Paths, LookForFile(p)
      PROVE  Carrying'
  <2>1. UNCHANGED <<ui, file>> /\ Scanning /\ marred \subseteq marred'
    BY <1>19, Frames DEF LookForFile, Scanning
  <2> QED BY <2>1 DEF RecordsInv, Carrying, RenameCarries, Renaming, WayIsClear, Void
<1>20. ASSUME LookForRoot
      PROVE  Carrying'
  <2>1. UNCHANGED <<ui, file>> /\ Scanning /\ marred \subseteq marred'
    BY <1>20, Frames DEF LookForRoot, Scanning
  <2> QED BY <2>1 DEF RecordsInv, Carrying, RenameCarries, Renaming, WayIsClear, Void
<1>21. ASSUME JobStatement
      PROVE  Carrying'
  <2>1. UNCHANGED <<ui, file>> /\ Scanning /\ marred \subseteq marred'
    BY <1>21, Frames DEF JobStatement, Scanning
  <2> QED BY <2>1 DEF RecordsInv, Carrying, RenameCarries, Renaming, WayIsClear, Void
<1>22. ASSUME EndPrune
      PROVE  Carrying'
  <2>1. UNCHANGED <<ui, file>> /\ Scanning /\ marred \subseteq marred'
    BY <1>22, Frames DEF EndPrune, Scanning
  <2> QED BY <2>1 DEF RecordsInv, Carrying, RenameCarries, Renaming, WayIsClear, Void
<1>23. ASSUME NEW p \in Paths, Outside(p)
      PROVE  Carrying'
  <2>1. UNCHANGED <<ui, file>> /\ Scanning /\ marred \subseteq marred'
    BY <1>23, Frames DEF Outside, Dropped, Scanning
  <2> QED BY <2>1 DEF RecordsInv, Carrying, RenameCarries, Renaming, WayIsClear, Void
<1>24. ASSUME EndOutside
      PROVE  Carrying'
  <2>1. UNCHANGED <<ui, file>> /\ Scanning /\ marred \subseteq marred'
    BY <1>24, Frames DEF EndOutside, Scanning
  <2> QED BY <2>1 DEF RecordsInv, Carrying, RenameCarries, Renaming, WayIsClear, Void
<1>25. ASSUME PollScan
      PROVE  Carrying'
  <2>1. ~ Renaming'
    BY <1>25, Fields, Frames DEF PollScan, Ready, Renaming
  <2> QED BY <2>1 DEF Carrying, RenameCarries
<1>26. ASSUME NEW p \in Paths, DeleteFile(p)
      PROVE  Carrying'
  <2>1. UNCHANGED <<ui, row, progress, notes, job, marred>>
        /\ file' = [file EXCEPT ![p] = NoBook] /\ file[p] \in Books
    BY <1>26, Frames, RowFields DEF DeleteFile, Exists
  <2> SUFFICES ASSUME Renaming, ~ Void(ui.to)', ui.to \in Paths
               PROVE  Carrying'
    BY <2>1, Fields DEF Carrying, RenameCarries, Renaming
  <2>2. ui.to # p /\ file'[ui.to] = file[ui.to]
    BY <2>1 DEF Void, RecordsInv, FilesTyped
  <2>3. ~ Void(ui.to) /\ file[ui.to] \in Books /\ file[ui.to] # file[p]
    <3>1. ~ Void(ui.to) /\ file[ui.to] # NoBook
      BY <2>1 DEF Void
    <3>2. file[ui.to] \in Books
      BY <3>1, RowFields
    <3> QED BY <2>2, <3>1, <3>2 DEF RecordsInv, FilesApart
  <2>4. has'[file[ui.to]] = has[file[ui.to]]
    BY <1>26, <2>3 DEF DeleteFile
  <2> QED BY <2>1, <2>3, <2>4 DEF RecordsInv, Carrying, RenameCarries, WayIsClear, Scanning, EditAt, PlaceAt,
             NotesAt
<1>27. ASSUME NEW p \in Paths, NEW b \in Books, PutFile(p, b)
      PROVE  Carrying'
  <2>1. UNCHANGED <<ui, row, progress, notes, job, has>> /\ file' = [file EXCEPT ![p] = b]
    BY <1>27, Frames DEF PutFile
  <2> SUFFICES ASSUME Renaming, ~ Void(ui.to)', ui.to \in Paths
               PROVE  Carrying'
    BY <2>1, Fields DEF Carrying, RenameCarries, Renaming
  <2>2. marred' = marred \cup {b}
    BY <1>27, Fields DEF PutFile
  <2>3. ui.to # p /\ file'[ui.to] = file[ui.to]
    BY <2>1, <2>2 DEF Void, RecordsInv, FilesTyped
  <2>4. ~ Void(ui.to)
    BY <2>1, <2>2 DEF Void
  <2> QED BY <2>1, <2>3, <2>4 DEF RecordsInv, Carrying, RenameCarries, WayIsClear, Scanning, EditAt, PlaceAt, NotesAt
<1>28. ASSUME Crash
      PROVE  Carrying'
  <2>1. ~ Renaming'
    BY <1>28, Fields DEF Crash, Renaming
  <2> QED BY <2>1 DEF Carrying, RenameCarries
<1> QED BY <1>1, <1>2, <1>3, <1>4, <1>5, <1>6, <1>7, <1>8, <1>9, <1>10, <1>11, <1>12, <1>13, <1>14,
      <1>15, <1>16, <1>17, <1>18, <1>19, <1>20, <1>21, <1>22, <1>23, <1>24, <1>25, <1>26, <1>27, <1>28,
      Frames, Zenon DEF RecordNext

\* A path whose records nobody touched, and whose book has not gained any.
LEMMA StaysKept ==
    ASSUME NEW r \in Paths, KeptAt(r), file'[r] = file[r], has'[file[r]] \subseteq has[file[r]],
           row'[r].edited = row[r].edited, row'[r].desc = row[r].desc,
           progress'[r] = progress[r], notes'[r] = notes[r]
    PROVE  KeptAt(r)'
BY DEF KeptAt, EditAt, PlaceAt, NotesAt

\* Whose file nothing is moving to or from.
LEMMA IdleSettled ==
    ASSUME RecordsInv, NEW r \in Paths, ui.path = "", ui.to = ""
    PROVE  Settled(r)
BY Fields DEF Settled

\* The book of a sound path is no other path's.
LEMMA SoundApart ==
    ASSUME RecordsInv, NEW p \in Paths, NEW r \in Paths, p # r, file[r] \in Books
    PROVE  file[p] # file[r]
BY Fields DEF RecordsInv, FilesApart

\* A sound path keeps what its book was given.
LEMMA KeptStep ==
    ASSUME RecordsInv, RecordNext
    PROVE  RecordsKept'
<1>1. CASE UNCHANGED <<ui, file, marred, row, progress, notes, has>>
  BY <1>1 DEF RecordsInv, RecordsKept, Sound, Settled, KeptAt, EditAt, PlaceAt, NotesAt
<1>2. ASSUME NEW p \in Paths, Open(p)
      PROVE  RecordsKept'
  <2> SUFFICES ASSUME NEW r \in Paths, Sound(r)'
               PROVE  KeptAt(r)'
    BY DEF RecordsKept
  <2>1. UNCHANGED <<file, has, marred, ui, progress, notes>>
    BY <1>2, Frames
  <2>2. Sound(r) /\ KeptAt(r)
    BY <2>1 DEF Sound, Settled, RecordsInv, RecordsKept
  <2>3. row'[r] = row[r] \/ (row[r] = NoRow /\ row'[r].edited = FALSE)
    BY <1>2 DEF Open, Opened, RecordsInv, TablesTyped, NoRow
  <2> QED BY <2>1, <2>2, <2>3, RowFields DEF KeptAt, EditAt, PlaceAt, NotesAt
<1>3. ASSUME SavePosition
      PROVE  RecordsKept'
  <2> SUFFICES ASSUME NEW r \in Paths, Sound(r)'
               PROVE  KeptAt(r)'
    BY DEF RecordsKept
  <2>1. UNCHANGED <<file, marred, ui, row, notes>>
    BY <1>3, Frames
  <2>2. Sound(r) /\ KeptAt(r) /\ file[r] \in Books \ marred
    BY <2>1 DEF Sound, Settled, RecordsInv, RecordsKept
  <2>3. CASE reader = Closed
    BY <1>3, <2>3 DEF SavePosition
  <2>4. CASE reader # Closed /\ reader.path = r
    <3>1. file[r] = reader.book
      BY <2>2, <2>4, Fields DEF RecordsInv, ReaderKnows
    <3>2. progress'[r] = file[r]
      BY <1>3, <2>4, <3>1 DEF SavePosition, RecordsInv, TablesTyped
    <3>3. has'[file[r]] = has[file[r]] \cup {"progress"}
      BY <1>3, <2>2, <2>4, <3>1 DEF SavePosition, Made, RecordsInv, MadeTyped
    <3> QED BY <2>1, <2>2, <3>2, <3>3 DEF KeptAt, EditAt, PlaceAt, NotesAt
  <2>5. CASE reader # Closed /\ reader.path # r
    <3>1. reader.path \in Paths /\ file[reader.path] # file[r]
      BY <2>2, <2>5, Fields, SoundApart
    <3>2. has'[file[r]] = has[file[r]]
      BY <1>3, <2>2, <3>1 DEF SavePosition, Made, RecordsInv, MadeTyped
    <3>3. progress'[r] = progress[r]
      BY <1>3, <3>1 DEF SavePosition
    <3> QED BY <2>1, <2>2, <3>2, <3>3, StaysKept
  <2> QED BY <2>3, <2>4, <2>5
<1>4. ASSUME AddNote
      PROVE  RecordsKept'
  <2> SUFFICES ASSUME NEW r \in Paths, Sound(r)'
               PROVE  KeptAt(r)'
    BY DEF RecordsKept
  <2>1. UNCHANGED <<file, marred, ui, row, progress>>
    BY <1>4, Frames
  <2>2. Sound(r) /\ KeptAt(r) /\ file[r] \in Books \ marred
    BY <2>1 DEF Sound, Settled, RecordsInv, RecordsKept
  <2>3. CASE reader = Closed
    BY <1>4, <2>3 DEF AddNote
  <2>4. CASE reader # Closed /\ reader.path = r
    <3>1. file[r] = reader.book
      BY <2>2, <2>4, Fields DEF RecordsInv, ReaderKnows
    <3>2. notes'[r] = notes[r] \cup {file[r]}
      BY <1>4, <2>4, <3>1 DEF AddNote, RecordsInv, TablesTyped
    <3>3. has'[file[r]] = has[file[r]] \cup {"note"}
      BY <1>4, <2>2, <2>4, <3>1 DEF AddNote, Made, RecordsInv, MadeTyped
    <3> QED BY <2>1, <2>2, <3>2, <3>3 DEF KeptAt, EditAt, PlaceAt, NotesAt
  <2>5. CASE reader # Closed /\ reader.path # r
    <3>1. reader.path \in Paths /\ file[reader.path] # file[r]
      BY <2>2, <2>5, Fields, SoundApart
    <3>2. has'[file[r]] = has[file[r]]
      BY <1>4, <2>2, <3>1 DEF AddNote, Made, RecordsInv, MadeTyped
    <3>3. notes'[r] = notes[r]
      BY <1>4, <3>1 DEF AddNote
    <3> QED BY <2>1, <2>2, <3>2, <3>3, StaysKept
  <2> QED BY <2>3, <2>4, <2>5
<1>5. ASSUME NEW p \in Paths, Edit(p)
      PROVE  RecordsKept'
  <2> SUFFICES ASSUME NEW r \in Paths, Sound(r)'
               PROVE  KeptAt(r)'
    BY DEF RecordsKept
  <2>1. UNCHANGED <<file, marred, ui, progress, notes>>
    BY <1>5, Frames
  <2>2. Sound(r) /\ KeptAt(r) /\ file[r] \in Books
    BY <2>1 DEF Sound, Settled, RecordsInv, RecordsKept
  <2>3. PICK stamp \in Books \cup {NoBook} : row' = [row EXCEPT ![p].edited = TRUE, ![p].stamp = stamp]
    BY <1>5, RowFields DEF Edit
  <2>4. row' = [row EXCEPT ![p] = [row[p] EXCEPT !.edited = TRUE, !.stamp = stamp]]
    BY <2>3 DEF RecordsInv
  <2>5. /\ row'[p].edited /\ row'[p].desc = row[p].desc
        /\ r # p => row'[r] = row[r]
    BY <2>4 DEF RecordsInv, TablesTyped
  <2>6. CASE r = p
    <3>1. has'[file[p]] = has[file[p]] \/ (has'[file[p]] = has[file[p]] \cup {"edit"} /\ file[p] = row[p].desc)
      BY <1>5 DEF Edit
    <3> QED BY <2>1, <2>2, <2>5, <2>6, <3>1 DEF KeptAt, EditAt, PlaceAt, NotesAt
  <2>7. CASE r # p
    <3>1. file[p] # file[r]
      BY <2>2, <2>7, SoundApart
    <3>2. has'[file[r]] = has[file[r]]
      BY <1>5, <3>1 DEF Edit
    <3> QED BY <2>1, <2>2, <2>5, <2>7, <3>2, StaysKept
  <2> QED BY <2>6, <2>7
<1>6. ASSUME NEW p \in Paths, NEW q \in Paths, MoveFile(p, q)
      PROVE  RecordsKept'
  <2> SUFFICES ASSUME NEW r \in Paths, Sound(r)'
               PROVE  KeptAt(r)'
    BY DEF RecordsKept
  <2>1. UNCHANGED <<row, progress, notes, has>> /\ ui = UiIdle
    BY <1>6, Frames, MoveIs
  <2>2. r # p /\ r # q /\ file'[r] = file[r] /\ marred \subseteq marred'
    BY <1>6, MoveIs DEF Sound, Settled
  <2>3. Settled(r)
    BY <2>1, Fields, IdleSettled
  <2>4. KeptAt(r)
    BY <2>2, <2>3 DEF Sound, RecordsInv, RecordsKept
  <2> QED BY <2>1, <2>2, <2>4, StaysKept
<1>7. ASSUME NEW p \in Paths, Trash(p)
      PROVE  RecordsKept'
  <2> SUFFICES ASSUME NEW r \in Paths, Sound(r)'
               PROVE  KeptAt(r)'
    BY DEF RecordsKept
  <2>1. UNCHANGED <<row, progress, notes, marred>> /\ ui = UiIdle /\ r # p
    BY <1>7, Frames DEF Trash, Ready, Sound, Settled, UiIdle
  <2>2. file'[r] = file[r] /\ file[r] \in Books
    BY <1>7, <2>1 DEF Trash, Sound
  <2>3. Settled(r)
    BY <2>1, Fields, IdleSettled
  <2>4. KeptAt(r) /\ file[p] # file[r]
    BY <2>1, <2>2, <2>3, SoundApart DEF Sound, RecordsInv, RecordsKept
  <2>5. has'[file[r]] = has[file[r]]
    BY <1>7, <2>4 DEF Trash
  <2> QED BY <2>1, <2>2, <2>4, <2>5, StaysKept
<1>8. ASSUME UiStatement
      PROVE  RecordsKept'
  <2> SUFFICES ASSUME NEW r \in Paths, Sound(r)'
               PROVE  KeptAt(r)'
    BY DEF RecordsKept
  <2>1. UNCHANGED <<file, has, marred>> /\ ui.path \in Paths
        /\ ui.at \in Statements /\ file[r] \in Books \ marred
    BY <1>8, Frames, UiAfter DEF Sound
  <2>2. CASE Settled(r)
    <3>1. KeptAt(r)
      BY <2>1, <2>2 DEF Sound, RecordsInv, RecordsKept
    <3>2. row'[r] = row[r] /\ progress'[r] = progress[r] /\ notes'[r] = notes[r]
      <4>1. CASE ui.to = ""
        BY <1>8, <2>1, <2>2, <4>1, ForgetIs DEF UiStatement, Settled
      <4>2. CASE ui.to # ""
        <5>1. ui.to \in Paths /\ ui.path # ui.to /\ Repoint(ui.path, ui.to, ui.at)
          BY <1>8, <4>2, Fields DEF UiStatement, RecordsInv, UiShape, Renaming
        <5> QED BY <2>1, <2>2, <5>1, RepointIs DEF Settled
      <4> QED BY <4>1, <4>2
    <3> QED BY <2>1, <3>1, <3>2, StaysKept
  <2>3. CASE ~ Settled(r)
    <3>1. ui.at = "notes"
      BY <1>8, <2>3, UiAfter DEF Sound, Settled
    <3>2. CASE ~ Renaming
      <4>1. ui.path = r /\ Removing /\ Forget(r, "notes") /\ ~ Void(r)
        BY <1>8, <2>1, <2>3, <3>1, <3>2, Fields DEF Settled, Renaming, Removing, UiStatement, Void
      <4>2. NothingOwed(r)
        BY <4>1 DEF RecordsInv, RemovalTakes
      <4>3. progress'[r] = progress[r] /\ notes'[r] = {}
        BY <4>1, ForgetIs DEF Statements
      <4> QED BY <2>1, <4>2, <4>3 DEF NothingOwed, KeptAt, EditAt, PlaceAt, NotesAt
    <3>3. CASE Renaming
      <4>1. ui.to = r
        BY <2>1, <2>3, <3>3, Fields DEF Settled, RecordsInv, RenameLeaves, Void
      <4>2. ui.path # r /\ Repoint(ui.path, r, "notes")
        BY <1>8, <3>1, <3>3, <4>1 DEF UiStatement, RecordsInv, UiShape, Renaming
      <4>3. /\ notes[r] = {} /\ EditAt(file[r], r) /\ PlaceAt(file[r], r) /\ NotesAt(file[r], ui.path)
        <5>1. ~ Void(ui.to)
          BY <2>1, <4>1, Fields DEF Void
        <5> QED BY <3>1, <3>3, <4>1, <5>1 DEF RecordsInv, Carrying, RenameCarries
      <4>4. row'[r] = row[r] /\ progress'[r] = progress[r] /\ notes'[r] = notes[r] \cup notes[ui.path]
        BY <2>1, <4>2, RepointIs DEF Statements
      <4> QED BY <2>1, <4>3, <4>4 DEF KeptAt, EditAt, PlaceAt, NotesAt
    <3> QED BY <3>2, <3>3
  <2> QED BY <2>2, <2>3
<1>9. ASSUME NEW f \in Folders, RemoveSource(f)
      PROVE  RecordsKept'
  <2> SUFFICES ASSUME NEW r \in Paths, Sound(r)'
               PROVE  KeptAt(r)'
    BY DEF RecordsKept
  <2>1. UNCHANGED <<file, has, marred, row, progress, notes>> /\ ui = UiIdle
    BY <1>9, Frames DEF RemoveSource, Ready
  <2>2. Sound(r)
    BY <2>1, Fields, IdleSettled DEF Sound
  <2>3. KeptAt(r)
    BY <2>2 DEF RecordsInv, RecordsKept
  <2> QED BY <2>1, <2>3, StaysKept
<1>10. ASSUME NEW p \in Paths, UiOutside(p)
      PROVE  RecordsKept'
  <2> SUFFICES ASSUME NEW r \in Paths, Sound(r)'
               PROVE  KeptAt(r)'
    BY DEF RecordsKept
  <2>1. UNCHANGED <<file, row, progress, notes>> /\ ui.path = "" /\ ui.to = ""
    BY <1>10, Frames, OutsideAfter
  <2>2. has'[file[r]] = has[file[r]] /\ file[r] \notin marred
    <3>1. CASE UNCHANGED <<has, marred>>
      BY <2>1, <3>1 DEF Sound
    <3>2. CASE Dropped(p)
      <4>1. file[r] # file[p] \/ UNCHANGED <<has, marred>>
        BY <2>1, <3>2 DEF Sound, Dropped
      <4> QED BY <2>1, <3>2 DEF Dropped, RecordsInv, MadeTyped, Sound
    <3> QED BY <1>10, <3>1, <3>2 DEF UiOutside
  <2>3. KeptAt(r)
    BY <2>1, <2>2, IdleSettled DEF Sound, RecordsInv, RecordsKept
  <2> QED BY <2>1, <2>2, <2>3, StaysKept
<1>11. ASSUME UiOutsideEmpty
      PROVE  RecordsKept'
  <2> SUFFICES ASSUME NEW r \in Paths, Sound(r)'
               PROVE  KeptAt(r)'
    BY DEF RecordsKept
  <2>1. UNCHANGED <<file, has, marred, row, progress, notes>> /\ ui.path = "" /\ ui.to = ""
    BY <1>11, Frames DEF UiOutsideEmpty, RecordsInv, UiShape
  <2>2. Sound(r)
    BY <2>1, IdleSettled DEF Sound
  <2>3. KeptAt(r)
    BY <2>2 DEF RecordsInv, RecordsKept
  <2> QED BY <2>1, <2>3, StaysKept
<1>12. ASSUME Quit
      PROVE  RecordsKept'
  <2> SUFFICES ASSUME NEW r \in Paths, Sound(r)'
               PROVE  KeptAt(r)'
    BY DEF RecordsKept
  <2>1. UNCHANGED <<file, marred, ui, row, notes>>
    BY <1>12, Frames
  <2>2. Sound(r) /\ KeptAt(r) /\ file[r] \in Books \ marred
    BY <2>1 DEF Sound, Settled, RecordsInv, RecordsKept
  <2>3. CASE reader = Closed
    BY <1>12, <2>1, <2>2, <2>3 DEF Quit, KeptAt, EditAt, PlaceAt, NotesAt
  <2>4. CASE reader # Closed /\ reader.path = r
    <3>1. file[r] = reader.book
      BY <2>2, <2>4, Fields DEF RecordsInv, ReaderKnows
    <3>2. progress'[r] = file[r]
      BY <1>12, <2>4, <3>1 DEF Quit, RecordsInv, TablesTyped
    <3>3. has'[file[r]] = has[file[r]] \cup {"progress"}
      BY <1>12, <2>2, <2>4, <3>1 DEF Quit, Made, RecordsInv, MadeTyped
    <3> QED BY <2>1, <2>2, <3>2, <3>3 DEF KeptAt, EditAt, PlaceAt, NotesAt
  <2>5. CASE reader # Closed /\ reader.path # r
    <3>1. reader.path \in Paths /\ file[reader.path] # file[r]
      BY <2>2, <2>5, Fields, SoundApart
    <3>2. has'[file[r]] = has[file[r]]
      BY <1>12, <2>2, <3>1 DEF Quit, Made, RecordsInv, MadeTyped
    <3>3. progress'[r] = progress[r]
      BY <1>12, <3>1 DEF Quit
    <3> QED BY <2>1, <2>2, <3>2, <3>3, StaysKept
  <2> QED BY <2>3, <2>4, <2>5
<1>13. ASSUME Index
      PROVE  RecordsKept'
  <2> SUFFICES ASSUME NEW r \in Paths, Sound(r)'
               PROVE  KeptAt(r)'
    BY DEF RecordsKept
  <2>1. UNCHANGED <<file, has, marred, ui, progress, notes>> /\ job.path \in Paths
    BY <1>13, Frames DEF Index, RecordsInv, JobShape
  <2>2. KeptAt(r)
    BY <2>1 DEF Sound, Settled, RecordsInv, RecordsKept
  <2>3. \/ row'[r] = row[r]
        \/ row'[r] = Upsert(row[r], job.book)
    BY <1>13, IndexAfter DEF RecordsInv, TablesTyped
  <2>4. row[r].edited => row'[r].edited /\ row'[r].desc = row[r].desc
    BY <2>3 DEF Upsert
  <2> QED BY <2>1, <2>2, <2>4 DEF KeptAt, EditAt, PlaceAt, NotesAt
<1>14. ASSUME LookForRoot
      PROVE  RecordsKept'
  <2> SUFFICES ASSUME NEW r \in Paths, Sound(r)'
               PROVE  KeptAt(r)'
    BY DEF RecordsKept
  <2>1. UNCHANGED <<file, has, ui, row, progress, notes>> /\ marred \subseteq marred'
    BY <1>14, Frames DEF LookForRoot
  <2>2. KeptAt(r)
    BY <2>1 DEF Sound, Settled, RecordsInv, RecordsKept
  <2> QED BY <2>1, <2>2, StaysKept
<1>15. ASSUME JobStatement
      PROVE  RecordsKept'
  <2> SUFFICES ASSUME NEW r \in Paths, Sound(r)'
               PROVE  KeptAt(r)'
    BY DEF RecordsKept
  <2>1. UNCHANGED <<file, has, ui, marred>> /\ job.path \in Paths
        /\ job.at \in Statements /\ Forget(job.path, job.at)
    BY <1>15, Frames, JobAfter DEF JobStatement
  <2>2. KeptAt(r) /\ r # job.path
    BY <2>1, Fields DEF Sound, Settled, RecordsInv, RecordsKept, ScanTakes, Void
  <2>3. row'[r] = row[r] /\ progress'[r] = progress[r] /\ notes'[r] = notes[r]
    BY <2>1, <2>2, ForgetIs
  <2> QED BY <2>1, <2>2, <2>3, StaysKept
<1>16. ASSUME NEW p \in Paths, Outside(p)
      PROVE  RecordsKept'
  <2> SUFFICES ASSUME NEW r \in Paths, Sound(r)'
               PROVE  KeptAt(r)'
    BY DEF RecordsKept
  <2>1. UNCHANGED <<file, row, progress, notes, ui>>
    BY <1>16, Frames
  <2>2. has'[file[r]] = has[file[r]] /\ file[r] \notin marred
    <3>1. CASE UNCHANGED <<has, marred>>
      BY <2>1, <3>1 DEF Sound
    <3>2. CASE Dropped(p)
      <4>1. file[r] # file[p] \/ UNCHANGED <<has, marred>>
        BY <2>1, <3>2 DEF Sound, Dropped
      <4> QED BY <2>1, <3>2 DEF Dropped, RecordsInv, MadeTyped, Sound
    <3> QED BY <1>16, <3>1, <3>2 DEF Outside
  <2>3. KeptAt(r)
    BY <2>1, <2>2 DEF Sound, Settled, RecordsInv, RecordsKept
  <2> QED BY <2>1, <2>2, <2>3, StaysKept
<1>17. ASSUME NEW p \in Paths, DeleteFile(p)
      PROVE  RecordsKept'
  <2> SUFFICES ASSUME NEW r \in Paths, Sound(r)'
               PROVE  KeptAt(r)'
    BY DEF RecordsKept
  <2>1. UNCHANGED <<row, progress, notes, ui, marred>> /\ file' = [file EXCEPT ![p] = NoBook]
    BY <1>17, Frames DEF DeleteFile
  <2>2. r # p /\ file'[r] = file[r] /\ file[r] \in Books
    BY <2>1, Fields DEF Sound, RecordsInv, FilesTyped
  <2>3. KeptAt(r) /\ file[p] # file[r]
    BY <2>1, <2>2, SoundApart DEF Sound, Settled, RecordsInv, RecordsKept
  <2>4. has'[file[r]] = has[file[r]]
    BY <1>17, <2>3 DEF DeleteFile
  <2> QED BY <2>1, <2>3, <2>4, StaysKept
<1>18. ASSUME NEW p \in Paths, NEW b \in Books, PutFile(p, b)
      PROVE  RecordsKept'
  <2> SUFFICES ASSUME NEW r \in Paths, Sound(r)'
               PROVE  KeptAt(r)'
    BY DEF RecordsKept
  <2>1. UNCHANGED <<row, progress, notes, ui, has, job, littered>> /\ file' = [file EXCEPT ![p] = b]
    BY <1>18, Frames DEF PutFile
  <2>2. CASE r = p
    <3>1. file'[r] = b
      BY <2>1, <2>2 DEF RecordsInv, FilesTyped
    <3>2. p \notin littered /\ ~ Scanning /\ ui = UiIdle
      BY <1>18, <3>1 DEF PutFile, Sound
    <3>3. Lost(p) /\ ui.path # p /\ ~ Pending(p)
      <4>1. job = JobNone /\ file[p] = NoBook
        BY <1>18, <3>2 DEF RecordsInv, JobShape, Scanning, PutFile
      <4> QED BY <3>2, <4>1, Fields DEF Lost, Pending, Pruning
    <3>4. ~ row[p].in /\ progress[p] = NoBook /\ notes[p] = {}
      BY <3>3 DEF RecordsInv, RowsFollow, ProgressFollows, NotesFollow
    <3>5. has[b] = {}
      BY <1>18 DEF PutFile, RecordsInv, NothingKnown
    <3> QED BY <2>1, <2>2, <3>1, <3>4, <3>5 DEF KeptAt, EditAt, PlaceAt, NotesAt
  <2>3. CASE r # p
    <3>1. file'[r] = file[r] /\ file[r] # b
      BY <1>18, <2>3 DEF PutFile
    <3>2. file[r] \in Books \ marred
      BY <1>18, <3>1 DEF PutFile, Sound
    <3>3. KeptAt(r)
      BY <2>1, <3>2 DEF Sound, Settled, RecordsInv, RecordsKept
    <3> QED BY <2>1, <3>1, <3>3, StaysKept
  <2> QED BY <2>2, <2>3
<1>19. ASSUME Crash
      PROVE  RecordsKept'
  <2> SUFFICES ASSUME NEW r \in Paths, Sound(r)'
               PROVE  KeptAt(r)'
    BY DEF RecordsKept
  <2>1. UNCHANGED <<row, progress, notes, file, has>> /\ marred \subseteq marred' /\ file[r] \in Books \ marred
    BY <1>19, Frames DEF Crash, Sound
  <2>2. CASE Settled(r)
    BY <2>1, <2>2, StaysKept DEF Sound, RecordsInv, RecordsKept
  <2>3. ui.to # r
    <3>1. CASE ui.to = ""
      BY <3>1, Fields
    <3>2. CASE ui.to # ""
      BY <1>19, <2>1, <3>2 DEF Crash, Sound
    <3> QED BY <3>1, <3>2
  <2>4. CASE ui.path = r
    <3>1. ~ Void(r) /\ ui.at \in Statements
      BY <2>1, <2>4, Fields DEF Void, RecordsInv, UiShape
    <3>2. Removing
      BY <2>4, <3>1 DEF Removing, RecordsInv, RenameLeaves
    <3>3. NothingOwed(r)
      BY <2>4, <3>1, <3>2 DEF RecordsInv, RemovalTakes
    <3> QED BY <2>1, <3>3 DEF NothingOwed, KeptAt, EditAt, PlaceAt, NotesAt
  <2> QED BY <2>2, <2>3, <2>4 DEF Settled
<1> QED BY <1>1, <1>2, <1>3, <1>4, <1>5, <1>6, <1>7, <1>8, <1>9, <1>10, <1>11, <1>12, <1>13, <1>14,
      <1>15, <1>16, <1>17, <1>18, <1>19, Frames, Zenon DEF RecordNext

\* A scan that begins has everything to see.
LEMMA ScanBegins ==
    ASSUME \/ calm' = FALSE
           \/ (job'.at = "walk" /\ job'.rs = roots' /\ job'.unread = {}
               /\ job'.todo = {p \in Paths : Under(p, roots')})
    PROVE  ScanSees'
BY DEF ScanSees, Walked, Read, Passed, Pruned, Missed, Strayed, StraysDropped, Pruning, Dropping, Statements

\* A scan nobody disturbs leaves behind it what it has seen.
LEMMA SeesStep ==
    ASSUME RecordsInv, RecordNext
    PROVE  ScanSees'
<1>1. CASE UNCHANGED <<calm, job, roots, row, file, away>>
  BY <1>1 DEF RecordsInv, ScanSees, Agrees, Dropping, Walked, Read, Passed, Changed, Pruned, Missed, Strayed,
     StraysDropped, Scanning, Exists, Offline, Pruning
<1>2. ASSUME LaunchLibrary
      PROVE  ScanSees'
  BY <1>2, Starts, ScanBegins
<1>3. ASSUME NEW p \in Paths, Open(p)
      PROVE  ScanSees'
  <2>1. calm' = FALSE
    BY <1>3 DEF Open
  <2> QED BY <2>1 DEF ScanSees
<1>4. ASSUME SavePosition
      PROVE  ScanSees'
  <2>1. calm' = FALSE
    BY <1>4 DEF SavePosition
  <2> QED BY <2>1 DEF ScanSees
<1>5. ASSUME AddNote
      PROVE  ScanSees'
  <2>1. calm' = FALSE
    BY <1>5 DEF AddNote
  <2> QED BY <2>1 DEF ScanSees
<1>6. ASSUME NEW p \in Paths, Edit(p)
      PROVE  ScanSees'
  <2>1. calm' = FALSE
    BY <1>6 DEF Edit
  <2> QED BY <2>1 DEF ScanSees
<1>7. ASSUME NEW p \in Paths, NEW q \in Paths, MoveFile(p, q)
      PROVE  ScanSees'
  <2>1. calm' = FALSE
    BY <1>7 DEF MoveFile
  <2> QED BY <2>1 DEF ScanSees
<1>8. ASSUME NEW p \in Paths, Trash(p)
      PROVE  ScanSees'
  <2>1. calm' = FALSE
    BY <1>8 DEF Trash
  <2> QED BY <2>1 DEF ScanSees
<1>9. ASSUME UiStatement
      PROVE  ScanSees'
  <2>1. calm' = FALSE
    BY <1>9 DEF UiStatement
  <2> QED BY <2>1 DEF ScanSees
<1>10. ASSUME NEW f \in Folders, AddSource(f)
      PROVE  ScanSees'
  BY <1>10, Starts, ScanBegins
<1>11. ASSUME NEW f \in Folders, RemoveSource(f)
      PROVE  ScanSees'
  <2>1. calm' = FALSE
    BY <1>11 DEF RemoveSource
  <2> QED BY <2>1 DEF ScanSees
<1>12. ASSUME NEW p \in Paths, UiOutside(p)
      PROVE  ScanSees'
  <2>1. calm' = FALSE
    BY <1>12 DEF UiOutside
  <2> QED BY <2>1 DEF ScanSees
<1>13. ASSUME Rescan
      PROVE  ScanSees'
  BY <1>13, Starts, ScanBegins
<1>14. ASSUME Quit
      PROVE  ScanSees'
  <2>1. calm' = FALSE
    BY <1>14 DEF Quit
  <2> QED BY <2>1 DEF ScanSees
<1>15. ASSUME NEW p \in Paths, Visit(p)
      PROVE  ScanSees'
  <2> SUFFICES ASSUME calm, Scanning
               PROVE  (job.rs = roots /\ Walked /\ Read /\ Passed /\ Pruned /\ Missed /\ Strayed /\ StraysDropped)'
    BY <1>15, Frames DEF ScanSees, Scanning, Visit
  <2>1. job.rs = roots /\ Walked /\ Read /\ Passed /\ Pruned /\ Missed /\ Strayed /\ StraysDropped
    BY DEF RecordsInv, ScanSees
  <2>2. UNCHANGED <<file, away, roots, row>> /\ job \in Jobs
    BY <1>15, Frames DEF RecordsInv, JobTyped
  <2>3. /\ job.at = "walk" /\ job'.rs = job.rs /\ job'.todo = job.todo \ {p}
        /\ p \in job.todo
        /\ \/ /\ job'.at = "index" /\ job'.path = p /\ job'.book = file[p]
              /\ Exists(p) /\ Changed(p) /\ job'.unread = job.unread
           \/ job'.at = "walk" /\ (Exists(p) => Agrees(p)) /\ job'.unread = job.unread
           \/ /\ job'.at = "walk" /\ Exists(p) /\ Changed(p)
              /\ job'.unread = job.unread \cup {p}
    BY <1>15, VisitAfter DEF Changed, Agrees
  <2>11. job'.rs = roots'
    BY <2>1, <2>2, <2>3 DEF Statements
  <2>12. Walked'
    BY <2>1, <2>2, <2>3 DEF Walked, Agrees, Exists
  <2>13. Read'
    BY <2>2, <2>3 DEF Read, Exists
  <2>14. Pruned'
    BY <2>3 DEF Pruned
  <2>15. Missed'
    BY <2>3 DEF Missed, Pruning, Statements
  <2>16. Strayed'
    BY <2>3 DEF Strayed, Statements
  <2>17. StraysDropped'
    BY <2>3 DEF StraysDropped, Dropping, Statements
  <2>18. Passed'
    BY <2>1, <2>2, <2>3 DEF Passed, Exists, Changed
  <2> QED BY <2>11, <2>12, <2>13, <2>14, <2>15, <2>16, <2>17, <2>18
<1>16. ASSUME Index
      PROVE  ScanSees'
  <2> SUFFICES ASSUME calm, Scanning
               PROVE  (job.rs = roots /\ Walked /\ Read /\ Passed /\ Pruned /\ Missed /\ Strayed /\ StraysDropped)'
    BY <1>16, Frames DEF ScanSees, Scanning, Index
  <2>1. job.rs = roots /\ Walked /\ Read /\ Passed /\ Pruned /\ Missed /\ Strayed /\ StraysDropped
    BY DEF RecordsInv, ScanSees
  <2>2. UNCHANGED <<file, away, roots>> /\ job \in Jobs
    BY <1>16, Frames DEF RecordsInv, JobTyped
  <2>3. job.at = "index" /\ job'.rs = job.rs /\ job'.todo = job.todo /\ job'.at = "walk" /\ job.path \in Paths
    BY <1>16, IndexAfter
  <2>4. \/ /\ row'[job.path].in /\ row'[job.path].stamp = file[job.path]
           /\ (\A r \in Paths : r # job.path => row'[r] = row[r]) /\ job'.unread = job.unread
        \/ row' = row /\ job'.unread = job.unread \cup {job.path}
    <3>1. CASE row' = row /\ job'.unread = job.unread \cup {job.path}
      BY <3>1
    <3>2. CASE /\ row' = [row EXCEPT ![job.path] = Upsert(row[job.path], job.book)]
               /\ job'.unread = job.unread
      BY <2>1, <2>3, <3>2 DEF Upsert, Read, RecordsInv, TablesTyped
    <3> QED BY <1>16, <3>1, <3>2, IndexAfter
  <2>5. job.unread \in SUBSET Paths /\ job.todo \in SUBSET Paths
    BY <2>2 DEF Jobs
  <2>11. job'.rs = roots'
    BY <2>1, <2>2, <2>3 DEF Statements
  <2>12. Walked'
    BY <2>1, <2>2, <2>3, <2>4 DEF Walked, Agrees, Exists
  <2>13. Read'
    BY <2>3 DEF Read
  <2>14. Pruned'
    BY <2>3 DEF Pruned
  <2>15. Missed'
    BY <2>3 DEF Missed, Pruning, Statements
  <2>16. Strayed'
    BY <2>3 DEF Strayed, Statements
  <2>17. StraysDropped'
    BY <2>3 DEF StraysDropped, Dropping, Statements
  <2>18. Passed'
    <3>1. /\ \A p \in job.unread : Exists(p) /\ Changed(p)
          /\ job.unread \cap job.todo = {} /\ job.path \notin job.unread \cup job.todo
          /\ Exists(job.path) /\ Changed(job.path)
      BY <2>1, <2>3 DEF Passed, Read
    <3>2. \A p \in Paths : Exists(p)' <=> Exists(p)
      BY <2>2 DEF Exists
    <3>3. \A p \in Paths : row'[p] = row[p] => (Changed(p)' <=> Changed(p))
      BY <2>2 DEF Changed
    <3>4. job'.unread \cap job'.todo = {}
      BY <2>3, <2>4, <3>1
    <3>5. \A p \in job'.unread : Exists(p)' /\ Changed(p)'
      BY <2>3, <2>4, <2>5, <3>1, <3>2, <3>3
    <3> QED BY <2>3, <3>4, <3>5 DEF Passed
  <2> QED BY <2>11, <2>12, <2>13, <2>14, <2>15, <2>16, <2>17, <2>18
<1>17. ASSUME StartPrune
      PROVE  ScanSees'
  <2> SUFFICES ASSUME calm, Scanning
               PROVE  (job.rs = roots /\ Walked /\ Read /\ Passed /\ Pruned /\ Missed /\ Strayed /\ StraysDropped)'
    BY <1>17, Frames DEF ScanSees, Scanning, StartPrune
  <2>1. job.rs = roots /\ Walked /\ Read /\ Passed /\ Pruned /\ Missed /\ Strayed /\ StraysDropped
    BY DEF RecordsInv, ScanSees
  <2>2. UNCHANGED <<file, away, roots, row>> /\ job \in Jobs
    BY <1>17, Frames DEF RecordsInv, JobTyped
  <2>3. /\ job.at = "walk" /\ job.todo = {} /\ job'.rs = job.rs /\ job'.unread = job.unread /\ job'.at = "prune"
        /\ job'.todo = {p \in Paths : row[p].in}
    BY <1>17 DEF StartPrune
  <2>11. job'.rs = roots'
    BY <2>1, <2>2, <2>3 DEF Statements
  <2>12. Walked'
    BY <2>1, <2>2, <2>3 DEF Walked, Agrees, Exists
  <2>13. Read'
    BY <2>3 DEF Read
  <2>14. Pruned'
    BY <2>2, <2>3 DEF Pruned, Pruning
  <2>15. Missed'
    BY <2>3 DEF Missed
  <2>16. Strayed'
    BY <2>3 DEF Strayed, Statements
  <2>17. StraysDropped'
    BY <2>2, <2>3 DEF StraysDropped
  <2>18. Passed'
    BY <2>1, <2>2, <2>3 DEF Passed, Exists, Changed, Statements
  <2> QED BY <2>11, <2>12, <2>13, <2>14, <2>15, <2>16, <2>17, <2>18
<1>18. ASSUME NEW p \in Paths, LookForFile(p)
      PROVE  ScanSees'
  <2> SUFFICES ASSUME calm, Scanning
               PROVE  (job.rs = roots /\ Walked /\ Read /\ Passed /\ Pruned /\ Missed /\ Strayed /\ StraysDropped)'
    BY <1>18, Frames DEF ScanSees, Scanning, LookForFile
  <2>1. job.rs = roots /\ Walked /\ Read /\ Passed /\ Pruned /\ Missed /\ Strayed /\ StraysDropped
    BY DEF RecordsInv, ScanSees
  <2>2. UNCHANGED <<file, away, roots, row>> /\ job \in Jobs
    BY <1>18, Frames DEF RecordsInv, JobTyped
  <2>3. /\ job.at = "prune" /\ job'.rs = job.rs /\ job'.unread = job.unread /\ job'.todo = job.todo \ {p}
        /\ \/ job'.at = "prune" /\ Exists(p) /\ job'.path = job.path
           \/ job'.at = "gone" /\ job'.path = p /\ ~ Exists(p)
    BY <1>18 DEF LookForFile
  <2>11. job'.rs = roots'
    BY <2>1, <2>2, <2>3 DEF Statements
  <2>12. Walked'
    BY <2>1, <2>2, <2>3 DEF Walked, Agrees, Exists
  <2>13. Read'
    BY <2>3 DEF Read
  <2>14. Pruned'
    BY <2>1, <2>2, <2>3 DEF Pruned, Exists, Offline, Pruning
  <2>15. Missed'
    BY <2>2, <2>3 DEF Missed, Exists
  <2>16. Strayed'
    BY <2>3 DEF Strayed, Statements
  <2>17. StraysDropped'
    BY <2>3 DEF StraysDropped, Dropping, Statements
  <2>18. Passed'
    BY <2>1, <2>2, <2>3 DEF Passed, Exists, Changed, Statements
  <2> QED BY <2>11, <2>12, <2>13, <2>14, <2>15, <2>16, <2>17, <2>18
<1>19. ASSUME LookForRoot
      PROVE  ScanSees'
  <2> SUFFICES ASSUME calm, Scanning
               PROVE  (job.rs = roots /\ Walked /\ Read /\ Passed /\ Pruned /\ Missed /\ Strayed /\ StraysDropped)'
    BY <1>19 DEF ScanSees, Scanning, LookForRoot
  <2>1. job.rs = roots /\ Walked /\ Read /\ Passed /\ Pruned /\ Missed /\ Strayed /\ StraysDropped
    BY DEF RecordsInv, ScanSees
  <2>2. UNCHANGED <<file, away, roots, row>> /\ job \in Jobs
    BY <1>19, Frames DEF RecordsInv, JobTyped
  <2>3. /\ job.at = "gone" /\ job'.rs = job.rs /\ job'.unread = job.unread /\ job'.todo = job.todo /\ job'.path = job.path
        /\ \/ job'.at = "prune" /\ Offline(job.path)
           \/ job'.at = "row" /\ job'.then = "prune"
    BY <1>19 DEF LookForRoot
  <2>11. job'.rs = roots'
    BY <2>1, <2>2, <2>3 DEF Statements
  <2>12. Walked'
    BY <2>1, <2>2, <2>3 DEF Walked, Agrees, Exists
  <2>13. Read'
    BY <2>3 DEF Read
  <2>14. Pruned'
    BY <2>1, <2>2, <2>3 DEF Pruned, Exists, Offline, Pruning, Statements
  <2>15. Missed'
    BY <2>1, <2>2, <2>3 DEF Missed, Pruning, Exists
  <2>16. Strayed'
    BY <2>3 DEF Strayed, Statements
  <2>17. StraysDropped'
    BY <2>3 DEF StraysDropped, Dropping, Statements
  <2>18. Passed'
    BY <2>1, <2>2, <2>3 DEF Passed, Exists, Changed, Statements
  <2> QED BY <2>11, <2>12, <2>13, <2>14, <2>15, <2>16, <2>17, <2>18
<1>20. ASSUME JobStatement
      PROVE  ScanSees'
  <2> SUFFICES ASSUME calm, Scanning
               PROVE  (job.rs = roots /\ Walked /\ Read /\ Passed /\ Pruned /\ Missed /\ Strayed /\ StraysDropped)'
    BY <1>20 DEF ScanSees, Scanning, JobStatement
  <2>1. job.rs = roots /\ Walked /\ Read /\ Passed /\ Pruned /\ Missed /\ Strayed /\ StraysDropped
    BY DEF RecordsInv, ScanSees
  <2>2. UNCHANGED <<file, away, roots>> /\ job \in Jobs
    BY <1>20, Frames DEF RecordsInv, JobTyped
  <2>3. /\ job'.rs = job.rs /\ job'.unread = job.unread /\ job'.todo = job.todo /\ job'.path = job.path /\ job'.then = job.then
        /\ job.at \in Statements /\ job.path \in Paths /\ job.then \in {"prune", "outside"}
        /\ job'.at \in {"progress", "notes", "prune", "outside"} /\ job'.at \in {"progress", "notes", job.then}
    BY <1>20, JobAfter
  <2>4. /\ \A r \in Paths : r # job.path => row'[r] = row[r]
        /\ row'[job.path] = (IF job.at = "row" THEN NoRow ELSE row[job.path]) /\ NoRow.in = FALSE
    BY <1>20, <2>3, ForgetIs DEF JobStatement, NoRow
  <2>5. \A r \in Paths : row'[r].in => row[r].in /\ (r = job.path => job.at # "row")
    BY <2>4
  <2>6. job.then = "prune" => ~ Exists(job.path)
    BY <2>1, <2>3 DEF Missed, Pruning, Statements
  <2>7. job.then = "outside" => ~ Under(job.path, roots)
    BY <2>1, <2>3 DEF Strayed
  <2>11. job'.rs = roots'
    BY <2>1, <2>2, <2>3 DEF Statements
  <2>12. Walked'
    BY <2>1, <2>2, <2>3, <2>4, <2>6, <2>7, Fields DEF Walked, Agrees, Exists, Statements
  <2>13. Read'
    BY <2>3 DEF Read
  <2>14. Pruned'
    BY <2>1, <2>2, <2>3, <2>5, <2>6, <2>7, Fields DEF Pruned, Exists, Offline, Pruning, Statements
  <2>15. Missed'
    BY <2>2, <2>3, <2>6, Fields DEF Missed, Pruning, Exists
  <2>16. Strayed'
    BY <2>2, <2>3, <2>7 DEF Strayed
  <2>17. StraysDropped'
    BY <2>1, <2>2, <2>3, <2>5, Fields DEF StraysDropped, Dropping
  <2>18. Passed'
    <3>1. \A p \in job.unread : p \in Paths /\ Exists(p) /\ Changed(p)
      BY <2>1, <2>2 DEF Passed, Jobs
    <3>2. \A p \in Paths : Exists(p)' <=> Exists(p)
      BY <2>2 DEF Exists
    <3>3. \A p \in Paths : Changed(p) => Changed(p)'
      BY <2>2, <2>4 DEF Changed
    <3> QED BY <2>3, <3>1, <3>2, <3>3 DEF Passed
  <2> QED BY <2>11, <2>12, <2>13, <2>14, <2>15, <2>16, <2>17, <2>18
<1>21. ASSUME EndPrune
      PROVE  ScanSees'
  <2> SUFFICES ASSUME calm, Scanning
               PROVE  (job.rs = roots /\ Walked /\ Read /\ Passed /\ Pruned /\ Missed /\ Strayed /\ StraysDropped)'
    BY <1>21, Frames DEF ScanSees, Scanning, EndPrune
  <2>1. job.rs = roots /\ Walked /\ Read /\ Passed /\ Pruned /\ Missed /\ Strayed /\ StraysDropped
    BY DEF RecordsInv, ScanSees
  <2>2. UNCHANGED <<file, away, roots, row>> /\ job \in Jobs
    BY <1>21, Frames DEF RecordsInv, JobTyped
  <2>3. /\ job.at = "prune" /\ job.todo = {} /\ job'.rs = job.rs /\ job'.unread = job.unread
        /\ job'.path = job.path /\ job'.orphans = job.orphans
        /\ \/ job'.at = "outside" /\ job'.todo = {p \in Paths : row[p].in}
           \/ job'.at = "sent" /\ ~ job.orphans
    BY <1>21 DEF EndPrune
  <2>11. job'.rs = roots'
    BY <2>1, <2>2, <2>3 DEF Statements
  <2>12. Walked'
    BY <2>1, <2>2, <2>3 DEF Walked, Agrees, Exists
  <2>13. Read'
    BY <2>3 DEF Read
  <2>14. Pruned'
    BY <2>1, <2>2, <2>3 DEF Pruned, Exists, Offline
  <2>15. Missed'
    BY <2>3 DEF Missed, Pruning, Statements
  <2>16. Strayed'
    BY <2>3 DEF Strayed, Statements
  <2>17. StraysDropped'
    BY <2>2, <2>3 DEF StraysDropped, Dropping, Statements
  <2>18. Passed'
    BY <2>1, <2>2, <2>3 DEF Passed, Exists, Changed, Statements
  <2> QED BY <2>11, <2>12, <2>13, <2>14, <2>15, <2>16, <2>17, <2>18
<1>22. ASSUME NEW p \in Paths, Outside(p)
      PROVE  ScanSees'
  <2> SUFFICES ASSUME calm, Scanning
               PROVE  (job.rs = roots /\ Walked /\ Read /\ Passed /\ Pruned /\ Missed /\ Strayed /\ StraysDropped)'
    BY <1>22 DEF ScanSees, Scanning, Outside
  <2>1. job.rs = roots /\ Walked /\ Read /\ Passed /\ Pruned /\ Missed /\ Strayed /\ StraysDropped
    BY DEF RecordsInv, ScanSees
  <2>2. UNCHANGED <<file, away, roots, row>> /\ job \in Jobs
    BY <1>22, Frames DEF RecordsInv, JobTyped
  <2>3. /\ job.at = "outside" /\ job'.rs = job.rs /\ job'.unread = job.unread /\ job'.todo = job.todo \ {p}
        /\ \/ job'.at = "outside" /\ Under(p, job.rs) /\ job'.path = job.path
           \/ job'.at = "row" /\ job'.then = "outside" /\ job'.path = p /\ ~ Under(p, job.rs)
    BY <1>22 DEF Outside
  <2>11. job'.rs = roots'
    BY <2>1, <2>2, <2>3 DEF Statements
  <2>12. Walked'
    BY <2>1, <2>2, <2>3 DEF Walked, Agrees, Exists
  <2>13. Read'
    BY <2>3 DEF Read
  <2>14. Pruned'
    BY <2>1, <2>2, <2>3 DEF Pruned, Exists, Offline, Pruning, Statements
  <2>15. Missed'
    BY <2>3 DEF Missed, Pruning, Statements
  <2>16. Strayed'
    BY <2>1, <2>2, <2>3 DEF Strayed, Statements
  <2>17. StraysDropped'
    BY <2>1, <2>2, <2>3 DEF StraysDropped, Dropping
  <2>18. Passed'
    BY <2>1, <2>2, <2>3 DEF Passed, Exists, Changed, Statements
  <2> QED BY <2>11, <2>12, <2>13, <2>14, <2>15, <2>16, <2>17, <2>18
<1>23. ASSUME EndOutside
      PROVE  ScanSees'
  <2> SUFFICES ASSUME calm, Scanning
               PROVE  (job.rs = roots /\ Walked /\ Read /\ Passed /\ Pruned /\ Missed /\ Strayed /\ StraysDropped)'
    BY <1>23, Frames DEF ScanSees, Scanning, EndOutside
  <2>1. job.rs = roots /\ Walked /\ Read /\ Passed /\ Pruned /\ Missed /\ Strayed /\ StraysDropped
    BY DEF RecordsInv, ScanSees
  <2>2. UNCHANGED <<file, away, roots, row>> /\ job \in Jobs
    BY <1>23, Frames DEF RecordsInv, JobTyped
  <2>3. /\ job.at = "outside" /\ job.todo = {} /\ job'.rs = job.rs /\ job'.unread = job.unread /\ job'.path = job.path /\ job'.at = "sent"
    BY <1>23 DEF EndOutside
  <2>11. job'.rs = roots'
    BY <2>1, <2>2, <2>3 DEF Statements
  <2>12. Walked'
    BY <2>1, <2>2, <2>3 DEF Walked, Agrees, Exists
  <2>13. Read'
    BY <2>3 DEF Read
  <2>14. Pruned'
    BY <2>1, <2>2, <2>3 DEF Pruned, Exists, Offline
  <2>15. Missed'
    BY <2>3 DEF Missed, Pruning, Statements
  <2>16. Strayed'
    BY <2>3 DEF Strayed, Statements
  <2>17. StraysDropped'
    BY <2>1, <2>2, <2>3 DEF StraysDropped, Dropping
  <2>18. Passed'
    BY <2>1, <2>2, <2>3 DEF Passed, Exists, Changed, Statements
  <2> QED BY <2>11, <2>12, <2>13, <2>14, <2>15, <2>16, <2>17, <2>18
<1>24. ASSUME PollScan
      PROVE  ScanSees'
  <2>1. ~ Scanning'
    BY <1>24 DEF PollScan, Scanning, JobNone
  <2> QED BY <2>1 DEF ScanSees
<1>25. ASSUME NEW p \in Paths, DeleteFile(p)
      PROVE  ScanSees'
  <2>1. calm' = FALSE
    BY <1>25 DEF DeleteFile, Fault
  <2> QED BY <2>1 DEF ScanSees
<1>26. ASSUME NEW p \in Paths, NEW b \in Books, PutFile(p, b)
      PROVE  ScanSees'
  <2>1. calm' = FALSE
    BY <1>26 DEF PutFile, Fault
  <2> QED BY <2>1 DEF ScanSees
<1>27. ASSUME NEW f \in Folders, Unmount(f)
      PROVE  ScanSees'
  <2>1. calm' = FALSE
    BY <1>27 DEF Unmount, Fault
  <2> QED BY <2>1 DEF ScanSees
<1>28. ASSUME NEW f \in Folders, Mount(f)
      PROVE  ScanSees'
  <2>1. calm' = FALSE
    BY <1>28 DEF Mount
  <2> QED BY <2>1 DEF ScanSees
<1>29. ASSUME Crash
      PROVE  ScanSees'
  <2>1. calm' = FALSE
    BY <1>29 DEF Crash, Fault
  <2> QED BY <2>1 DEF ScanSees
<1> QED BY <1>1, <1>2, <1>3, <1>4, <1>5, <1>6, <1>7, <1>8, <1>9, <1>10, <1>11, <1>12, <1>13, <1>14,
      <1>15, <1>16, <1>17, <1>18, <1>19, <1>20, <1>21, <1>22, <1>23, <1>24, <1>25, <1>26, <1>27, <1>28,
      <1>29, Frames, Zenon DEF RecordNext

\* The invariant at the start, and after every step.
LEMMA InitHolds == RecordInit => RecordsInv
<1> SUFFICES ASSUME RecordInit
             PROVE  RecordsInv
  OBVIOUS
<1>1. FilesTyped /\ MadeTyped
  BY DEF RecordInit, FilesTyped, MadeTyped
<1>2. TablesTyped
  BY DEF RecordInit, TablesTyped, Rows, NoRow
<1>3. ui = UiIdle /\ reader = Closed /\ job = JobNone /\ ui \in Uis /\ "" \notin Paths
  BY RecordsAssumption DEF RecordInit, UiIdle, Uis
<1>4. RunTyped
  BY <1>3, RecordsAssumption DEF RecordInit, RunTyped, Readers
<1>5. JobTyped
  BY <1>3 DEF JobTyped, JobNone, Jobs, Stages
<1>6. UiShape /\ JobShape /\ OneAtATime
  BY <1>3 DEF UiShape, JobShape, OneAtATime, Renaming, UiIdle, JobNone, Statements
<1>7. FilesApart /\ NothingKnown /\ ReaderKnows
  BY DEF RecordInit, FilesApart, NothingKnown, ReaderKnows
<1>8. RowsFollow /\ ProgressFollows /\ NotesFollow
  BY DEF RecordInit, RowsFollow, ProgressFollows, NotesFollow, NoRow
<1>9. RenameClears /\ RenameLeaves /\ RenameArrives /\ ScanTakes /\ RemovalTakes /\ Carrying
  BY <1>3 DEF RenameClears, RenameLeaves, RenameArrives, ScanTakes, RemovalTakes, Carrying, RenameCarries,
     Renaming, Removing, UiIdle, JobNone, Statements
<1>10. RecordsKept
  BY DEF RecordInit, RecordsKept, Sound, KeptAt, EditAt, PlaceAt, NotesAt
<1>11. ScanSees
  BY DEF RecordInit, ScanSees
<1> QED BY <1>1, <1>2, <1>4, <1>5, <1>6, <1>7, <1>8, <1>9, <1>10, <1>11 DEF RecordsInv

\* Every step keeps the invariant.
LEMMA RecordsStep == RecordsInv /\ [RecordNext]_recordVars => RecordsInv'
<1> SUFFICES ASSUME RecordsInv, [RecordNext]_recordVars
             PROVE  RecordsInv'
  OBVIOUS
<1>1. CASE RecordNext
  <2>1. (FilesTyped /\ TablesTyped /\ RunTyped /\ JobTyped /\ MadeTyped)'
    BY <1>1, FilesStep, TablesStep, RunStep, JobStep, MadeStep
  <2>2. (UiShape /\ JobShape /\ OneAtATime)'
    BY <1>1, UiShapeStep, JobShapeStep, OneAtATimeStep
  <2>3. (FilesApart /\ NothingKnown /\ ReaderKnows)'
    BY <1>1, ApartStep, KnownStep, ReaderStep
  <2>4. (RowsFollow /\ ProgressFollows /\ NotesFollow)'
    BY <1>1, RowsStep, ProgressStep, NotesStep
  <2>5. (RenameClears /\ RenameLeaves /\ RenameArrives /\ ScanTakes /\ RemovalTakes /\ Carrying)'
    BY <1>1, ClearsStep, LeavesStep, ArrivesStep, TakesStep, RemovalStep, CarriesStep
  <2>6. (RecordsKept /\ ScanSees)'
    BY <1>1, KeptStep, SeesStep
  <2> QED BY <2>1, <2>2, <2>3, <2>4, <2>5, <2>6 DEF RecordsInv
<1>2. CASE UNCHANGED recordVars
  <2>1. UNCHANGED <<file, away, row, progress, notes, roots, on, ui, reader, job, has, marred, littered, calm>>
    BY <1>2 DEF recordVars, world, tables, recordGhosts
  <2>2. (FilesTyped /\ TablesTyped /\ RunTyped /\ JobTyped /\ MadeTyped /\ UiShape /\ JobShape /\ OneAtATime)'
    BY <2>1 DEF RecordsInv, FilesTyped, TablesTyped, RunTyped, JobTyped, MadeTyped, UiShape, JobShape,
       OneAtATime,
       Renaming
  <2>3. (FilesApart /\ NothingKnown /\ ReaderKnows /\ RowsFollow /\ ProgressFollows /\ NotesFollow)'
    BY <2>1 DEF RecordsInv, FilesApart, NothingKnown, ReaderKnows, RowsFollow, ProgressFollows, NotesFollow,
       Lost, Pending, Pruning
  <2>4. (RenameClears /\ RenameLeaves /\ RenameArrives /\ ScanTakes /\ RemovalTakes)'
    BY <2>1 DEF RecordsInv, RenameClears, RenameLeaves, RenameArrives, ScanTakes, RemovalTakes, Renaming,
       Removing, WayIsClear, Emptied, Void, NothingOwed, Lost, Scanning
  <2>5. (Carrying /\ RecordsKept)'
    BY <2>1 DEF RecordsInv, Carrying, RenameCarries, RecordsKept, Renaming, Void, WayIsClear, Scanning, Sound, Settled,
       KeptAt, EditAt, PlaceAt, NotesAt
  <2>6. ScanSees'
    BY <2>1 DEF RecordsInv, ScanSees, Scanning, Walked, Read, Passed, Changed, Pruned, Missed, Strayed,
       StraysDropped, Agrees, Dropping, Pruning, Exists, Offline
  <2> QED BY <2>2, <2>3, <2>4, <2>5, <2>6 DEF RecordsInv
<1> QED BY <1>1, <1>2

(* The inductive invariant: what is under a path is owed to its file, to a  *)
(* step that is on its way, or to something that put the path out of step.  *)
THEOREM RecordsInvariance == RecordSpec => []RecordsInv
BY InitHolds, RecordsStep, PTL DEF RecordSpec

\* What the invariant says of a finished scan.
LEMMA ExactThen == RecordsInv => ScanExact
<1> SUFFICES ASSUME RecordsInv, job.at = "sent", calm, NEW p \in Paths
             PROVE  /\ (Under(p, roots) /\ FolderOf[p] \notin away) =>
                           IF p \in job.unread THEN Exists(p) /\ Changed(p)
                           ELSE row[p].in = (file[p] # NoBook) /\ row[p].stamp = file[p]
                    /\ ~ Under(p, roots) => (row[p].in => Exists(p) /\ ~ job.orphans)
  BY DEF ScanExact
<1>1. job.rs = roots /\ Walked /\ Passed /\ Pruned /\ StraysDropped
  BY DEF RecordsInv, ScanSees, Scanning
<1>2. row[p].in => Exists(p) \/ (Under(p, roots) /\ FolderOf[p] \in away)
  BY <1>1 DEF Pruned, Pruning, Statements, Offline
<1>3. Under(p, roots) /\ Exists(p) /\ p \notin job.unread => row[p].in /\ row[p].stamp = file[p]
  BY <1>1 DEF Walked, Agrees
<1>4. ASSUME Under(p, roots), FolderOf[p] \notin away, p \notin job.unread
      PROVE  row[p].in = (file[p] # NoBook) /\ row[p].stamp = file[p]
  <2>1. CASE file[p] = NoBook
    <3>1. ~ row[p].in
      BY <1>2, <1>4, <2>1 DEF Exists
    <3>2. row[p].in = FALSE /\ row[p].stamp = NoBook
      BY <3>1, RowFields
    <3> QED BY <2>1, <3>2
  <2>2. CASE file[p] # NoBook
    <3>1. row[p].in /\ row[p].stamp = file[p]
      BY <1>3, <1>4, <2>2 DEF Exists
    <3>2. row[p].in = TRUE
      BY <3>1
    <3> QED BY <2>2, <3>1
  <2> QED BY <2>1, <2>2
<1>5. p \in job.unread => Exists(p) /\ Changed(p)
  BY <1>1 DEF Passed
<1>6. ~ Under(p, roots) => (row[p].in => Exists(p) /\ ~ job.orphans)
  BY <1>1, <1>2 DEF StraysDropped, Dropping, Statements
<1> QED BY <1>4, <1>5, <1>6

(* Whatever moves, goes away or comes back while a scan, a removal and a     *)
(* rename take turns, a book keeps its place, its notes and its edits (but   *)
(* for the exceptions RecordsKept names); a rename has, after any of its     *)
(* statements, each of them whole under one of the two names; and a scan     *)
(* that nobody disturbed leaves in the index what it found, and of a file    *)
(* it could not read, parse or write no row that passes for a read one.      *)
THEOREM TheIndexIsSound == RecordSpec => []IndexSound
<1>1. RecordsInv => IndexSound
  BY ExactThen DEF IndexSound, RecordsInv, Carrying
<1> QED BY <1>1, RecordsInvariance, PTL

-----------------------------------------------------------------------------
(* The union-find.  A forest hangs every copy under another or under       *)
(* itself, and going up comes to an end.                                   *)

Trees == [Copy -> Copy]
Descends(p, d) == \A x \in Copy : p[x] # x => d[p[x]] < d[x]
\* What find's recursion asks of its answers.
FindsRoots(p, r) == \A x \in Copy : r[x] = IF p[x] = x THEN x ELSE r[p[x]]
IsForest(p) ==
    /\ p \in Trees
    /\ \E d \in [Copy -> Nat] : Descends(p, d)
    /\ \E r \in Trees : FindsRoots(p, r)

\* The recursion of find has one solution.
LEMMA OneSolution ==
    ASSUME NEW p \in Trees, NEW d \in [Copy -> Nat], Descends(p, d),
           NEW r, NEW t, FindsRoots(p, r), FindsRoots(p, t)
    PROVE  \A x \in Copy : r[x] = t[x]
<1> DEFINE Bad == {x \in Copy : r[x] # t[x]}
           Depths == {d[x] : x \in Bad}
<1> SUFFICES ASSUME Bad # {} PROVE FALSE
  OBVIOUS
<1>1. Depths \in SUBSET Nat /\ Depths # {}
  OBVIOUS
<1>2. PICK m \in Depths : \A k \in Depths : m <= k
  BY <1>1, LeastElement
<1>3. PICK x \in Bad : m = d[x]
  BY <1>2
<1>4. p[x] # x /\ p[x] \in Copy
  BY <1>3 DEF FindsRoots, Trees
<1>5. p[x] \in Bad
  BY <1>3, <1>4 DEF FindsRoots
<1>6. d[p[x]] < d[x] /\ d[x] <= d[p[x]] /\ d[x] \in Nat /\ d[p[x]] \in Nat
  BY <1>2, <1>3, <1>4, <1>5 DEF Descends
<1> QED BY <1>6

\* So the root is what any solution says.
LEMMA RootIsSolution ==
    ASSUME NEW p, IsForest(p), NEW r \in Trees, FindsRoots(p, r)
    PROVE  \A x \in Copy : Root(p, x) = r[x]
<1> DEFINE Solves(f) == f = [x \in Copy |-> IF p[x] = x THEN x ELSE f[p[x]]]
           root == CHOOSE f : Solves(f)
<1>1. Solves(r)
  <2>1. r = [x \in Copy |-> r[x]]
    BY DEF Trees
  <2>2. \A x \in Copy : r[x] = IF p[x] = x THEN x ELSE r[p[x]]
    BY DEF FindsRoots
  <2> QED BY <2>1, <2>2
<1>2. Solves(root)
  BY <1>1
<1>3. \A c : Root(p, c) = root[c]
  BY DEF Root
<1> HIDE DEF root
<1>4. FindsRoots(p, root)
  BY <1>2 DEF FindsRoots
<1>5. PICK d \in [Copy -> Nat] : Descends(p, d)
  BY DEF IsForest
<1>6. p \in Trees
  BY DEF IsForest
<1> QED BY <1>3, <1>4, <1>5, <1>6, OneSolution

\* Each copy has a root; copies hung under one another have the same one.
LEMMA RootsOf ==
    ASSUME NEW p, IsForest(p)
    PROVE  \A x \in Copy : /\ Root(p, x) \in Copy /\ p[Root(p, x)] = Root(p, x)
                           /\ Root(p, x) = IF p[x] = x THEN x ELSE Root(p, p[x])
<1>1. PICK r \in Trees : FindsRoots(p, r)
  BY DEF IsForest
<1>2. PICK d \in [Copy -> Nat] : Descends(p, d)
  BY DEF IsForest
<1>3. p \in Trees
  BY DEF IsForest
<1>4. \A x \in Copy : Root(p, x) = r[x]
  BY <1>1, RootIsSolution
<1>5. \A x \in Copy : p[r[x]] = r[x]
  <2> DEFINE Bad == {x \in Copy : p[r[x]] # r[x]}
             Depths == {d[x] : x \in Bad}
  <2> SUFFICES ASSUME Bad # {} PROVE FALSE
    OBVIOUS
  <2>1. Depths \in SUBSET Nat /\ Depths # {}
    BY <1>2
  <2>2. PICK m \in Depths : \A k \in Depths : m <= k
    BY <2>1, LeastElement
  <2>3. PICK x \in Bad : m = d[x]
    BY <2>2
  <2>4. p[x] # x /\ p[x] \in Copy
    BY <1>1, <1>3, <2>3 DEF FindsRoots, Trees
  <2>5. p[x] \in Bad
    BY <1>1, <2>3, <2>4 DEF FindsRoots
  <2>6. d[p[x]] < d[x] /\ d[x] <= d[p[x]] /\ d[x] \in Nat /\ d[p[x]] \in Nat
    BY <1>2, <2>2, <2>3, <2>4, <2>5 DEF Descends
  <2> QED BY <2>6
<1>6. \A x \in Copy : r[x] \in Copy /\ p[x] \in Copy
  BY <1>1, <1>3 DEF Trees
<1>7. \A x \in Copy : r[x] = IF p[x] = x THEN x ELSE r[p[x]]
  BY <1>1 DEF FindsRoots
<1> QED BY <1>4, <1>5, <1>6, <1>7

\* union hangs one root under the other, and nothing else moves.
LEMMA UnionIs ==
    ASSUME NEW p, IsForest(p), NEW a \in Copy, NEW b \in Copy
    PROVE  /\ IsForest(Union(p, a, b))
           /\ \A x \in Copy : Root(Union(p, a, b), x) =
                  IF Root(p, x) = Root(p, b) THEN Root(p, a) ELSE Root(p, x)
<1> DEFINE ra == Root(p, a)
           rb == Root(p, b)
           q == Union(p, a, b)
           r == [x \in Copy |-> Root(p, x)]
<1>1. p \in Trees /\ \E d \in [Copy -> Nat] : Descends(p, d)
  BY DEF IsForest
<1>2. /\ r \in Trees /\ \A x \in Copy : p[r[x]] = r[x]
      /\ \A x \in Copy : r[x] = IF p[x] = x THEN x ELSE r[p[x]]
  BY <1>1, RootsOf DEF Trees
<1>3. ra \in Copy /\ rb \in Copy /\ p[ra] = ra /\ p[rb] = rb /\ r[ra] = ra /\ r[rb] = rb
  BY <1>2, RootsOf
<1>4. q = [p EXCEPT ![rb] = ra]
  BY DEF Union
<1>5. \A x \in Copy : Root(p, x) = r[x]
  OBVIOUS
<1> HIDE DEF ra, rb, q, r
<1>6. CASE ra = rb
  <2>1. q = p
    BY <1>1, <1>3, <1>4, <1>6 DEF Trees
  <2> QED BY <1>6, <2>1 DEF q, ra, rb
<1>7. CASE ra # rb
  <2> DEFINE t == [x \in Copy |-> IF r[x] = rb THEN ra ELSE r[x]]
  <2>1. q \in Trees /\ q[rb] = ra /\ \A x \in Copy : x # rb => q[x] = p[x]
    BY <1>1, <1>3, <1>4 DEF Trees
  <2>2. t \in Trees
    BY <1>2, <1>3 DEF Trees
  <2>3. FindsRoots(q, t)
    <3> SUFFICES ASSUME NEW x \in Copy PROVE t[x] = IF q[x] = x THEN x ELSE t[q[x]]
      BY DEF FindsRoots
    <3>1. q[x] \in Copy /\ t[x] = (IF r[x] = rb THEN ra ELSE r[x])
          /\ t[q[x]] = (IF r[q[x]] = rb THEN ra ELSE r[q[x]])
      BY <2>1 DEF Trees
    <3> HIDE DEF t
    <3>2. CASE x = rb
      BY <1>3, <1>7, <2>1, <3>1, <3>2
    <3>3. CASE x # rb
      BY <1>2, <2>1, <3>1, <3>3
    <3> QED BY <3>2, <3>3
  <2>4. PICK d \in [Copy -> Nat] : Descends(p, d)
    BY <1>1
  <2> DEFINE e == [x \in Copy |-> IF r[x] = rb THEN d[x] + d[ra] + 1 ELSE d[x]]
  <2>5. e \in [Copy -> Nat]
    BY <1>3, <2>4
  <2>6. Descends(q, e)
    <3> SUFFICES ASSUME NEW x \in Copy, q[x] # x PROVE e[q[x]] < e[x]
      BY DEF Descends
    <3>1. /\ q[x] \in Copy /\ d[x] \in Nat /\ d[q[x]] \in Nat /\ d[ra] \in Nat
          /\ e[x] = (IF r[x] = rb THEN d[x] + d[ra] + 1 ELSE d[x])
          /\ e[q[x]] = (IF r[q[x]] = rb THEN d[q[x]] + d[ra] + 1 ELSE d[q[x]])
      BY <1>3, <2>1, <2>4 DEF Trees
    <3> HIDE DEF e
    <3>2. CASE x = rb
      <4>1. e[x] = d[x] + d[ra] + 1 /\ e[q[x]] = d[ra]
        BY <1>3, <1>7, <2>1, <3>1, <3>2
      <4> QED BY <3>1, <4>1
    <3>3. CASE x # rb
      <4>1. q[x] = p[x] /\ r[x] = r[p[x]] /\ d[q[x]] < d[x]
        BY <1>2, <2>1, <2>4, <3>3 DEF Descends
      <4> QED BY <3>1, <4>1
    <3> QED BY <3>2, <3>3
  <2> HIDE DEF t, e
  <2>7. IsForest(q)
    BY <2>1, <2>2, <2>3, <2>5, <2>6 DEF IsForest
  <2>8. \A x \in Copy : Root(q, x) = t[x]
    BY <2>2, <2>3, <2>7, RootIsSolution
  <2>9. \A x \in Copy : Root(q, x) = IF r[x] = rb THEN ra ELSE r[x]
    BY <2>8 DEF t
  <2> QED BY <1>5, <2>7, <2>9 DEF q, ra, rb
<1> QED BY <1>6, <1>7

(* A forest joins a set of links: their ends have one root, and nothing    *)
(* the links keep apart has.                                               *)
Keeps(t, s) == \A l \in s : l[1] \in t <=> l[2] \in t
Parts(p, t) == \A x, y \in Copy : Root(p, x) = Root(p, y) => (x \in t <=> y \in t)
Joins(p, s) ==
    /\ IsForest(p)
    /\ \A l \in s : Root(p, l[1]) = Root(p, l[2])
    /\ \A t \in SUBSET Copy : Keeps(t, s) => Parts(p, t)

\* Without links, each copy is a tree of its own.
LEMMA Unjoined == Joins([c \in Copy |-> c], {})
<1> DEFINE p == [c \in Copy |-> c]
           d == [c \in Copy |-> 0]
<1>1. p \in Trees /\ FindsRoots(p, p)
  BY DEF Trees, FindsRoots
<1>2. d \in [Copy -> Nat] /\ Descends(p, d)
  BY DEF Descends
<1>3. IsForest(p)
  BY <1>1, <1>2 DEF IsForest
<1>4. \A x \in Copy : Root(p, x) = x
  BY <1>1, <1>3, RootIsSolution
<1> QED BY <1>3, <1>4 DEF Joins, Parts

\* A link more.
LEMMA JoinsOne ==
    ASSUME NEW p, NEW s \in SUBSET (Copy \X Copy), Joins(p, s), NEW l \in Copy \X Copy
    PROVE  Joins(Union(p, l[1], l[2]), s \cup {l})
<1> DEFINE q == Union(p, l[1], l[2])
           a == l[1]
           b == l[2]
<1>1. a \in Copy /\ b \in Copy /\ IsForest(p)
  BY DEF Joins
<1>2. IsForest(q) /\ \A x \in Copy : Root(q, x) = IF Root(p, x) = Root(p, b) THEN Root(p, a) ELSE Root(p, x)
  BY <1>1, UnionIs
<1> HIDE DEF q
<1>3. \A k \in s \cup {l} : Root(q, k[1]) = Root(q, k[2])
  <2>1. \A k \in s : k[1] \in Copy /\ k[2] \in Copy /\ Root(p, k[1]) = Root(p, k[2])
    BY DEF Joins
  <2> QED BY <1>1, <1>2, <2>1
<1>4. ASSUME NEW t \in SUBSET Copy, Keeps(t, s \cup {l}) PROVE Parts(q, t)
  <2>1. Keeps(t, s) /\ (a \in t <=> b \in t)
    BY <1>4 DEF Keeps
  <2>2. Parts(p, t)
    BY <2>1 DEF Joins
  <2> SUFFICES ASSUME NEW x \in Copy, NEW y \in Copy, Root(q, x) = Root(q, y) PROVE x \in t <=> y \in t
    BY DEF Parts
  <2>3. \A z \in Copy : Root(p, z) = Root(p, b) => (z \in t <=> b \in t)
    BY <1>1, <2>2 DEF Parts
  <2>4. \A z \in Copy : Root(p, z) = Root(p, a) => (z \in t <=> a \in t)
    BY <1>1, <2>2 DEF Parts
  <2>5. Root(p, x) = Root(p, y) => (x \in t <=> y \in t)
    BY <2>2 DEF Parts
  <2> QED BY <1>2, <2>1, <2>3, <2>4, <2>5
<1> QED BY <1>2, <1>3, <1>4 DEF Joins, q

(* The links are taken one after the other, in any order.                  *)
PickedLink(s) == CHOOSE l \in s : TRUE
Grown(f, s) == f[s] = IF s = {} THEN [c \in Copy |-> c] ELSE Hang(PickedLink(s))[f[s \ {PickedLink(s)}]]

\* A set of links without the one picked.
LEMMA WithoutOneLink ==
    ASSUME NEW es, IsFiniteSet(es), NEW s \in SUBSET es, s # {}
    PROVE  /\ PickedLink(s) \in s /\ s \ {PickedLink(s)} \in SUBSET es
           /\ Cardinality(s) \in Nat /\ Cardinality(s \ {PickedLink(s)}) \in Nat
           /\ Cardinality(s \ {PickedLink(s)}) = Cardinality(s) - 1
<1>1. PickedLink(s) \in s
  BY DEF PickedLink
<1>2. IsFiniteSet(s)
  BY FS_Subset
<1> QED BY <1>1, <1>2, FS_RemoveElement, FS_CardinalityType, FS_Subset

\* Taking a link of a forest's links gives a forest.
LEMMA Hangs ==
    ASSUME NEW l \in Copy \X Copy, NEW p, IsForest(p)
    PROVE  Hang(l)[p] = Union(p, l[1], l[2]) /\ IsForest(Hang(l)[p])
<1>1. p \in Trees
  BY DEF IsForest
<1>2. Hang(l)[p] = Union(p, l[1], l[2])
  BY <1>1 DEF Hang, Trees
<1>3. l[1] \in Copy /\ l[2] \in Copy
  OBVIOUS
<1> QED BY <1>2, <1>3, UnionIs

\* Any set of links grows one.
LEMMA ForestsExist ==
    ASSUME NEW es \in SUBSET (Copy \X Copy), IsFiniteSet(es), NEW n \in Nat
    PROVE  \E f : /\ f = [s \in SUBSET es |-> f[s]]
                  /\ \A s \in SUBSET es : Cardinality(s) <= n => Grown(f, s)
<1> DEFINE Upto(f, m) == \A s \in SUBSET es : Cardinality(s) <= m => Grown(f, s)
           Bad == {m \in Nat : ~ \E f : f = [s \in SUBSET es |-> f[s]] /\ Upto(f, m)}
<1> SUFFICES Bad = {}
  OBVIOUS
<1> SUFFICES ASSUME Bad # {} PROVE FALSE
  OBVIOUS
<1>1. PICK m \in Bad : \A k \in Bad : m <= k
  BY LeastElement
<1>2. CASE m = 0
  <2> DEFINE f == [s \in SUBSET es |-> [c \in Copy |-> c]]
  <2>1. \A s \in SUBSET es : Cardinality(s) <= 0 => s = {}
    BY FS_Subset, FS_EmptySet, FS_CardinalityType
  <2>2. Upto(f, 0)
    BY <2>1 DEF Grown
  <2>3. f = [s \in SUBSET es |-> f[s]]
    OBVIOUS
  <2> HIDE DEF f
  <2> QED BY <1>2, <2>2, <2>3
<1>3. CASE m # 0
  <2>1. m \in Nat /\ m - 1 \in Nat /\ ~ (m <= m - 1)
    BY <1>3
  <2>2. m - 1 \notin Bad
    BY <1>1, <2>1
  <2>3. PICK g : g = [s \in SUBSET es |-> g[s]] /\ Upto(g, m - 1)
    BY <2>1, <2>2
  <2> DEFINE h == [s \in SUBSET es |->
                      IF Cardinality(s) <= m - 1 THEN g[s]
                      ELSE Hang(PickedLink(s))[g[s \ {PickedLink(s)}]]]
  <2> HIDE DEF Bad
  <2>4. \A s \in SUBSET es : Cardinality(s) \in Nat
    BY FS_Subset, FS_CardinalityType
  <2>5. h = [s \in SUBSET es |-> h[s]]
    OBVIOUS
  <2>6. ASSUME NEW s \in SUBSET es, Cardinality(s) <= m PROVE Grown(h, s)
    <3>1. CASE s = {}
      <4>1. Cardinality(s) = 0
        BY <3>1, FS_EmptySet
      <4>2. h[s] = g[s]
        BY <2>1, <4>1
      <4>3. g[s] = [c \in Copy |-> c]
        <5>1. Cardinality(s) <= m - 1
          BY <2>1, <4>1
        <5>2. Grown(g, s)
          BY <2>3, <5>1
        <5> QED BY <3>1, <5>2 DEF Grown
      <4> QED BY <3>1, <4>2, <4>3 DEF Grown
    <3>2. CASE s # {}
      <4> DEFINE t == s \ {PickedLink(s)}
      <4>0. t \in SUBSET es /\ Cardinality(s) \in Nat /\ Cardinality(t) = Cardinality(s) - 1
        BY <3>2, WithoutOneLink
      <4>1. t \in SUBSET es /\ Cardinality(t) <= m - 1
        BY <2>1, <2>6, <4>0
      <4>2. h[t] = g[t]
        BY <4>1
      <4>3. h[s] = Hang(PickedLink(s))[g[t]]
        <5>1. CASE Cardinality(s) <= m - 1
          BY <2>3, <3>2, <5>1 DEF Grown
        <5>2. CASE ~ (Cardinality(s) <= m - 1)
          BY <5>2
        <5> QED BY <5>1, <5>2
      <4> HIDE DEF h
      <4> QED BY <3>2, <4>2, <4>3 DEF Grown
    <3> QED BY <3>1, <3>2
  <2> HIDE DEF h
  <2>7. Upto(h, m)
    BY <2>6
  <2> QED BY <1>1, <2>5, <2>7 DEF Bad
<1> QED BY <1>2, <1>3

\* The forest of a set of links joins them.
LEMMA ForestJoins ==
    ASSUME NEW es \in SUBSET (Copy \X Copy), IsFiniteSet(es)
    PROVE  Joins(Forest(es), es)
<1> DEFINE Solves(f) == f = [s \in SUBSET es |->
                             IF s = {} THEN [c \in Copy |-> c]
                             ELSE LET l == CHOOSE l \in s : TRUE IN Hang(l)[f[s \ {l}]]]
           forest == CHOOSE f : Solves(f)
           n == Cardinality(es)
<1>1. n \in Nat /\ \A s \in SUBSET es : Cardinality(s) <= n /\ Cardinality(s) \in Nat
  BY FS_Subset, FS_CardinalityType
<1>2. \E f : Solves(f)
  <2> HIDE DEF n
  <2>1. PICK f : /\ f = [s \in SUBSET es |-> f[s]]
                 /\ \A s \in SUBSET es : Cardinality(s) <= n => Grown(f, s)
    BY <1>1, ForestsExist
  <2>2. \A s \in SUBSET es : f[s] = IF s = {} THEN [c \in Copy |-> c]
                                    ELSE LET l == CHOOSE l \in s : TRUE IN Hang(l)[f[s \ {l}]]
    BY <1>1, <2>1 DEF Grown, PickedLink
  <2>3. Solves(f)
    BY <2>1, <2>2
  <2> HIDE DEF Solves
  <2> QED BY <2>3
<1>3. Solves(forest)
  BY <1>2
<1>4. Forest(es) = forest[es]
  BY DEF Forest
<1> HIDE DEF forest
<1>5. \A s \in SUBSET es : Grown(forest, s)
  BY <1>3 DEF Grown, PickedLink
<1>6. \A s \in SUBSET es : Joins(forest[s], s)
  <2> DEFINE Bad == {s \in SUBSET es : ~ Joins(forest[s], s)}
             Sizes == {Cardinality(s) : s \in Bad}
  <2> SUFFICES ASSUME Bad # {} PROVE FALSE
    OBVIOUS
  <2>1. Sizes \in SUBSET Nat /\ Sizes # {}
    BY <1>1
  <2>2. PICK m \in Sizes : \A k \in Sizes : m <= k
    BY <2>1, LeastElement
  <2>3. PICK s \in Bad : m = Cardinality(s)
    BY <2>2
  <2>4. CASE s = {}
    <3>1. forest[s] = [c \in Copy |-> c]
      BY <1>5, <2>4 DEF Grown
    <3> QED BY <2>3, <2>4, <3>1, Unjoined
  <2>5. CASE s # {}
    <3> DEFINE l == PickedLink(s)
               t == s \ {l}
    <3>1. l \in s /\ t \in SUBSET es /\ Cardinality(t) = Cardinality(s) - 1 /\ Cardinality(s) \in Nat
          /\ Cardinality(t) \in Nat
      BY <2>3, <2>5, WithoutOneLink
    <3>2. l \in Copy \X Copy /\ t \in SUBSET (Copy \X Copy) /\ t \cup {l} = s
      BY <3>1
    <3>3. forest[s] = Hang(l)[forest[t]]
      BY <1>5, <2>5 DEF Grown
    <3> HIDE DEF l, t
    <3>4. t \notin Bad
      BY <2>2, <2>3, <3>1
    <3>5. Joins(forest[t], t)
      BY <3>1, <3>4
    <3>6. IsForest(forest[t])
      BY <3>5 DEF Joins
    <3>7. forest[s] = Union(forest[t], l[1], l[2])
      BY <3>2, <3>3, <3>6, Hangs
    <3>8. Joins(forest[s], s)
      BY <3>2, <3>5, <3>7, JoinsOne
    <3> QED BY <2>3, <3>8
  <2> QED BY <2>4, <2>5
<1> QED BY <1>4, <1>6

-----------------------------------------------------------------------------
(* The groups.                                                             *)

\* There are finitely many copies.
LEMMA CopiesFinite == IsFiniteSet(Copy) /\ IsFiniteSet(Copy \X Copy)
<1>1. IsFiniteSet(Range(Copies))
  BY DuplicatesAssumption, LengthOfInjective
<1>2. IsFiniteSet(Copy)
  BY <1>1 DEF Copy, ToSet, Range
<1> QED BY <1>2, FS_Product

ClassOf(p, c) == {d \in held : Root(p, d) = Root(p, c)}

\* The groups are the classes of two copies or more.
LEMMA GroupsAre ==
    Groups = {g \in {ClassOf(Forest(Edges), c) : c \in held} : Cardinality(g) > 1}
BY DEF Groups, ClassOf

\* The union-find gives the connected components of the links among the books held.
LEMMA UnionFindIsRight ==
    ASSUME held \subseteq Copy, links \subseteq Copy \X Copy
    PROVE  GroupsAreComponents
<1> DEFINE p == Forest(Edges)
<1>1. Edges \in SUBSET (Copy \X Copy) /\ IsFiniteSet(Edges)
  <2>1. Edges \in SUBSET (Copy \X Copy)
    BY DEF Edges
  <2> QED BY <2>1, CopiesFinite, FS_Subset
<1>2. Joins(p, Edges)
  BY <1>1, ForestJoins
<1>3. Groups = {g \in {ClassOf(p, c) : c \in held} : Cardinality(g) > 1}
  BY GroupsAre
<1> HIDE DEF p
<1>4. ASSUME NEW s \in SUBSET held PROVE Linked(s) <=> Keeps(s, Edges)
  BY DEF Linked, Keeps, Edges
<1>5. ASSUME NEW c \in held
      PROVE  /\ ClassOf(p, c) \in SUBSET held /\ c \in ClassOf(p, c)
             /\ Linked(ClassOf(p, c))
             /\ \A s \in SUBSET held : Linked(s) => (c \in s <=> ClassOf(p, c) \subseteq s)
  <2>1. ClassOf(p, c) \in SUBSET held /\ c \in ClassOf(p, c)
    BY DEF ClassOf
  <2>2. Keeps(ClassOf(p, c), Edges)
    BY <1>2 DEF Keeps, ClassOf, Joins, Edges
  <2>3. ASSUME NEW s \in SUBSET held, Linked(s) PROVE c \in s => ClassOf(p, c) \subseteq s
    <3>1. Parts(p, s)
      BY <1>2, <1>4, <2>3 DEF Joins
    <3> QED BY <3>1 DEF Parts, ClassOf
  <2> QED BY <1>4, <2>1, <2>2, <2>3
<1>6. ASSUME NEW c \in held, NEW s \in SUBSET ClassOf(p, c), Linked(s) PROVE s \in {{}, ClassOf(p, c)}
  <2> SUFFICES ASSUME NEW x \in s PROVE s = ClassOf(p, c)
    OBVIOUS
  <2>1. x \in held /\ ClassOf(p, x) = ClassOf(p, c) /\ s \in SUBSET held
    BY DEF ClassOf
  <2>2. ClassOf(p, x) \subseteq s
    BY <1>5, <1>6, <2>1
  <2> QED BY <2>1, <2>2
<1>7. Groups \subseteq Components
  BY <1>3, <1>5, <1>6 DEF Components
<1>8. ASSUME NEW g \in Components PROVE g \in Groups
  <2>1. /\ g \in SUBSET held /\ Cardinality(g) > 1 /\ Linked(g)
        /\ \A s \in SUBSET g : Linked(s) => s \in {{}, g}
    BY DEF Components
  <2>2. g # {}
    <3>1. g = {} => Cardinality(g) = 0
      BY FS_EmptySet, Zenon
    <3> QED BY <2>1, <3>1
  <2>3. PICK c \in g : TRUE
    BY <2>2
  <2>4. c \in held /\ ClassOf(p, c) \subseteq g /\ Linked(ClassOf(p, c)) /\ c \in ClassOf(p, c)
    BY <1>5, <2>1, <2>3
  <2>5. ClassOf(p, c) = g
    BY <2>1, <2>4
  <2> QED BY <1>3, <2>1, <2>4, <2>5
<1> QED BY <1>7, <1>8 DEF GroupsAreComponents

-----------------------------------------------------------------------------
(* The proposal.                                                           *)

\* Groups of copies that share none.
Apart(gs) ==
    /\ gs \in SUBSET SUBSET Copy
    /\ \A g \in gs : g # {}
    /\ \A g, h \in gs : g # h => g \cap h = {}

\* Two groups share no copy ...
LEMMA GroupsApart == held \subseteq Copy => Apart(Offered)
<1> SUFFICES ASSUME held \subseteq Copy PROVE Apart(Offered)
  OBVIOUS
<1>1. \A g \in Offered : \E c \in held : g = ClassOf(Forest(Edges), c)
  BY GroupsAre DEF Offered
<1>2. \A c \in held : ClassOf(Forest(Edges), c) \subseteq Copy /\ c \in ClassOf(Forest(Edges), c)
  BY DEF ClassOf
<1>3. \A b, c \in held : \A x \in ClassOf(Forest(Edges), b) \cap ClassOf(Forest(Edges), c) :
         ClassOf(Forest(Edges), b) = ClassOf(Forest(Edges), c)
  BY DEF ClassOf
<1> QED BY <1>1, <1>2, <1>3 DEF Apart

\* ... in the next state neither.
LEMMA GroupsApartNext == held' \subseteq Copy => Apart(Offered')
<1>1. (held \subseteq Copy => Apart(Offered))'
  BY GroupsApart, PTL
<1> QED BY <1>1 DEF Apart

\* Places order the copies.
LEMMA PlacesOf ==
    /\ \A c \in Copy : Place(c) \in Nat /\ Place(c) > 0
    /\ \A c, d \in Copy : Place(c) = Place(d) => c = d
<1>1. Copies \in Seq(Copy) /\ \A c \in Copy : \E i \in DOMAIN Copies : Copies[i] = c
  BY DuplicatesAssumption DEF Copy, ToSet
<1>2. \A c \in Copy : Place(c) \in DOMAIN Copies /\ Copies[Place(c)] = c
  BY <1>1 DEF Place
<1>3. \A i \in DOMAIN Copies : i \in Nat /\ i > 0
  BY <1>1
<1> QED BY <1>2, <1>3

\* c is the best of s: none scores more, and of those that score the same none is later.
Outranks(c, d) ==
    \/ KeepScore(About[c]) > KeepScore(About[d])
    \/ KeepScore(About[c]) = KeepScore(About[d]) /\ Place(c) >= Place(d)

\* Some copy is the best.
LEMMA BestExists ==
    ASSUME NEW n \in Nat
    PROVE  \A s \in SUBSET Copy :
               s # {} /\ (\A d \in s : Place(d) <= n) => \E c \in s : \A d \in s : Outranks(c, d)
<1> DEFINE Fine(k) == \A s \in SUBSET Copy :
               s # {} /\ (\A d \in s : Place(d) <= k) => \E c \in s : \A d \in s : Outranks(c, d)
           Bad == {k \in Nat : ~ Fine(k)}
<1> SUFFICES ASSUME Bad # {} PROVE FALSE
  OBVIOUS
<1>1. PICK m \in Bad : \A k \in Bad : m <= k
  BY LeastElement
<1>2. \A c \in Copy : KeepScore(About[c]) \in Int
  BY DuplicatesAssumption
<1>3. \A c \in Copy : Outranks(c, c)
  BY <1>2, PlacesOf DEF Outranks
<1>4. m # 0
  BY <1>1, PlacesOf
<1>5. m \in Nat /\ m - 1 \in Nat /\ Fine(m - 1)
  BY <1>1, <1>4
<1>6. PICK s \in SUBSET Copy : /\ s # {} /\ \A d \in s : Place(d) <= m
                               /\ ~ \E c \in s : \A d \in s : Outranks(c, d)
  BY <1>1
<1> DEFINE t == {d \in s : Place(d) <= m - 1}
<1> HIDE DEF Bad
<1>7. \A d \in s : d \in t \/ Place(d) = m
  <2>1. m \in Nat /\ \A d \in s : Place(d) \in Nat /\ Place(d) <= m
    BY <1>5, <1>6, PlacesOf
  <2> QED BY <2>1
<1>8. CASE t = {}
  <2>1. PICK c \in s : TRUE
    BY <1>6
  <2>2. \A d \in s : d = c
    BY <1>7, <1>8, <2>1, PlacesOf
  <2> QED BY <1>3, <1>6, <2>1, <2>2
<1>9. CASE t # {}
  <2>1. t \in SUBSET Copy /\ \A d \in t : Place(d) <= m - 1
    OBVIOUS
  <2>2. PICK b \in t : \A d \in t : Outranks(b, d)
    BY <1>5, <1>9, <2>1
  <2>3. PICK x \in s : Place(x) = m /\ ~ Outranks(b, x)
    BY <1>6, <1>7, <2>2
  <2>4. \A d \in s : Place(d) = m => d = x
    BY <2>3, PlacesOf
  <2>5. \A d \in t : Outranks(x, d)
    <3> SUFFICES ASSUME NEW d \in t PROVE Outranks(x, d)
      OBVIOUS
    <3>1. Outranks(b, d) /\ ~ Outranks(b, x) /\ Place(x) = m /\ Place(d) <= m
      BY <1>6, <2>2, <2>3
    <3>2. /\ KeepScore(About[b]) \in Int /\ KeepScore(About[d]) \in Int /\ KeepScore(About[x]) \in Int
          /\ Place(b) \in Nat /\ Place(d) \in Nat /\ Place(x) \in Nat
      BY <1>2, PlacesOf
    <3> QED BY <3>1, <3>2 DEF Outranks
  <2>6. \A d \in s : Outranks(x, d)
    BY <1>3, <1>7, <2>4, <2>5
  <2> QED BY <1>6, <2>6
<1> QED BY <1>8, <1>9

\* The copy kept is of the group.
LEMMA BestIsOfGroup ==
    ASSUME NEW g \in SUBSET Copy, g # {}
    PROVE  BestOf(g) \in g
<1>1. Eligible(g) \subseteq g /\ Eligible(g) # {}
  BY DEF Eligible
<1>2. Copies \in Seq(Copy) /\ Len(Copies) \in Nat
  BY DuplicatesAssumption
<1>3. \A d \in Eligible(g) : Place(d) <= Len(Copies)
  <2>1. \A c \in Copy : Place(c) \in DOMAIN Copies
    BY DEF Place, Copy, ToSet
  <2> QED BY <1>1, <1>2, <2>1
<1>4. \E c \in Eligible(g) : \A d \in Eligible(g) : Outranks(c, d)
  BY <1>1, <1>2, <1>3, BestExists
<1>5. BestOf(g) = CHOOSE c \in Eligible(g) : \A d \in Eligible(g) : Outranks(c, d)
  BY DEF BestOf, Outranks
<1>6. BestOf(g) \in Eligible(g)
  BY <1>4, <1>5
<1> QED BY <1>1, <1>6

\* The proposal leaves out the best of each group, and it alone.
LEMMA Spares ==
    ASSUME NEW gs, Apart(gs), NEW g \in gs
    PROVE  AutoSelect(gs) \in SUBSET Copy /\ g \ AutoSelect(gs) = {BestOf(g)}
<1>1. \A h \in gs : h \in SUBSET Copy /\ BestOf(h) \in h
  BY BestIsOfGroup DEF Apart
<1>2. \A x : x \in AutoSelect(gs) <=> \E h \in gs : x \in h /\ x # BestOf(h)
  BY DEF AutoSelect
<1>3. \A h \in gs : h # g => h \cap g = {}
  BY DEF Apart
<1> QED BY <1>1, <1>2, <1>3

-----------------------------------------------------------------------------
(* The invariant.                                                          *)

\* A row goes only with its file, or after it.
RowsOutlive == there \subseteq held /\ held \subseteq Copy

GroupsShown(r) ==
    /\ r = [kind |-> "groups", groups |-> r.groups, checked |-> r.checked]
    /\ Apart(r.groups) /\ r.checked \in SUBSET Copy

\* The overlay shows groups that share no copy, none of them ignored.
Overlays ==
    \/ resolver = NoOverlay
    \/ resolver = [kind |-> "ignored"]
    \/ GroupsShown(resolver) /\ resolver.groups \cap dismissed = {}

\* The proposal is auto-select's, and what the reader is asked about is what is checked.
Proposal ==
    /\ auto \in BOOLEAN
    /\ auto => resolver.kind = "groups" /\ resolver.checked = AutoSelect(resolver.groups)
AskedOf == deleting # {} => resolver.kind = "groups" /\ deleting = resolver.checked

\* The scan's thread reads copies.
ReadingCopies ==
    /\ links \subseteq Copy \X Copy
    /\ \/ toc = NoOverlay
       \/ /\ toc = [kind |-> "reading", todo |-> toc.todo, read |-> toc.read]
          /\ toc.todo \subseteq Copy /\ toc.read \subseteq Copy

DupInv == RowsOutlive /\ Overlays /\ Proposal /\ AskedOf /\ ReadingCopies

\* It holds when the program starts ...
LEMMA DupStart == DupInit => DupInv
<1> SUFFICES ASSUME DupInit PROVE DupInv
  OBVIOUS
<1>1. links \subseteq Copy \X Copy
  BY DuplicatesAssumption DEF DupInit
<1> QED BY <1>1 DEF DupInit, DupInv, RowsOutlive, Overlays, Proposal, AskedOf, ReadingCopies

\* The overlay built over what the library then holds.
LEMMA Builds ==
    ASSUME held' \subseteq Copy, OverlayBuilt, originals' = originals, deleting' = {}
    PROVE  Overlays' /\ Proposal' /\ AskedOf'
<1> DEFINE gs == Offered'
<1>1. Apart(gs) /\ gs \cap dismissed' = {}
  BY GroupsApartNext DEF Offered
<1>2. \A hs : AutoSelect(hs)' = AutoSelect(hs)
  BY DEF AutoSelect, BestOf, Eligible
<1>3. auto' = (gs # {})
  BY DEF OverlayBuilt
<1>4. AskedOf'
  BY DEF AskedOf
<1>5. resolver' = IF gs = {} THEN NoOverlay
                  ELSE [kind |-> "groups", groups |-> gs, checked |-> AutoSelect(gs)]
  BY DEF OverlayBuilt
<1> HIDE DEF gs
<1>6. CASE gs = {}
  BY <1>3, <1>4, <1>5, <1>6 DEF Overlays, Proposal
<1>7. CASE gs # {}
  <2>1. PICK g \in gs : TRUE
    BY <1>7
  <2>2. AutoSelect(gs) \in SUBSET Copy
    BY <1>1, Spares
  <2>3. /\ resolver' = [kind |-> "groups", groups |-> gs, checked |-> AutoSelect(gs)]
        /\ resolver'.kind = "groups" /\ resolver'.groups = gs /\ resolver'.checked = AutoSelect(gs)
    BY <1>5, <1>7
  <2>4. Overlays'
    BY <1>1, <2>2, <2>3 DEF Overlays, GroupsShown
  <2>5. AutoSelect(resolver.groups)' = AutoSelect(gs)
    BY <1>2, <2>3
  <2>6. Proposal'
    BY <1>3, <2>3, <2>5 DEF Proposal
  <2> QED BY <1>4, <2>4, <2>6
<1> QED BY <1>6, <1>7

\* What touches neither the overlay nor what it rests on.
LEMMA OverlayStays ==
    ASSUME DupInv, UNCHANGED <<resolver, dismissed, auto, originals, deleting>>
    PROVE  Overlays' /\ Proposal' /\ AskedOf'
<1>1. \A gs : AutoSelect(gs)' = AutoSelect(gs)
  BY DEF AutoSelect, BestOf, Eligible
<1>2. Overlays' /\ AskedOf'
  BY DEF DupInv, Overlays, AskedOf
<1>3. Proposal'
  BY <1>1 DEF DupInv, Proposal
<1> QED BY <1>2, <1>3

\* A closed overlay.
LEMMA ClosedKeeps ==
    ASSUME DupInv, resolver' = NoOverlay \/ resolver' = [kind |-> "ignored"],
           auto' = FALSE, deleting' = {}
    PROVE  Overlays' /\ Proposal' /\ AskedOf'
BY DEF Overlays, Proposal, AskedOf

\* A box checked or unchecked.
LEMMA ChecksKeep ==
    ASSUME DupInv, NEW s, Checks(s), s \in SUBSET Copy
    PROVE  DupInv'
<1>1. /\ resolver.kind = "groups" /\ deleting = {} /\ resolver' = [resolver EXCEPT !.checked = s]
      /\ auto' = (s = AutoSelect(resolver.groups))
      /\ UNCHANGED <<held, there, links, dismissed, originals, deleting, toc>>
  BY DEF Checks, Idle
<1>2. GroupsShown(resolver) /\ resolver.groups \cap dismissed = {}
  BY <1>1 DEF DupInv, Overlays, NoOverlay
<1>3. resolver' = [kind |-> "groups", groups |-> resolver.groups, checked |-> s]
  BY <1>1, <1>2 DEF GroupsShown
<1>4. Overlays'
  BY <1>1, <1>2, <1>3 DEF Overlays, GroupsShown
<1>5. \A gs : AutoSelect(gs)' = AutoSelect(gs)
  BY <1>1 DEF AutoSelect, BestOf, Eligible
<1>6. resolver'.kind = "groups" /\ resolver'.groups = resolver.groups /\ resolver'.checked = s
  BY <1>3
<1>7. AutoSelect(resolver.groups)' = AutoSelect(resolver.groups)
  BY <1>5, <1>6
<1>8. Proposal'
  BY <1>1, <1>6, <1>7 DEF Proposal
<1>9. AskedOf'
  BY <1>1 DEF AskedOf
<1> QED BY <1>1, <1>4, <1>8, <1>9 DEF DupInv, RowsOutlive, ReadingCopies

\* What the reader does with the overlay open.
LEMMA ResolverKeys ==
    ASSUME DupInv
    PROVE  /\ OpenResolver \/ CloseDups \/ OpenIgnored \/ AskDelete \/ KeepAll \/ PreferOriginals => DupInv'
           /\ \A g \in SUBSET Copy : Ignore(g) \/ Delete(g) => DupInv'
           /\ \A gs : Restore(gs) => DupInv'
<1>1. CASE OpenResolver
  <2>1. UNCHANGED <<held, there, links, dismissed, originals, deleting, toc>> /\ deleting = {} /\ OverlayBuilt
    BY <1>1 DEF OpenResolver, Idle
  <2>2. held' \subseteq Copy
    BY <2>1 DEF DupInv, RowsOutlive
  <2>3. Overlays' /\ Proposal' /\ AskedOf'
    BY <2>1, <2>2, Builds
  <2> QED BY <2>1, <2>3 DEF DupInv, RowsOutlive, ReadingCopies
<1>2. CASE CloseDups \/ OpenIgnored
  <2>1. /\ UNCHANGED <<held, there, links, dismissed, originals, toc>> /\ deleting' = {} /\ auto' = FALSE
        /\ resolver' = NoOverlay \/ resolver' = [kind |-> "ignored"]
    BY <1>2 DEF CloseDups, OpenIgnored, Idle
  <2>2. Overlays' /\ Proposal' /\ AskedOf'
    BY <2>1, ClosedKeeps
  <2> QED BY <2>1, <2>2 DEF DupInv, RowsOutlive, ReadingCopies
<1>3. CASE AskDelete \/ KeepAll
  <2>1. /\ UNCHANGED <<held, there, links, dismissed, originals, resolver, toc, auto>>
        /\ deleting' # {} => resolver.kind = "groups" /\ deleting' = resolver.checked
    BY <1>3 DEF AskDelete, KeepAll
  <2>2. \A gs : AutoSelect(gs)' = AutoSelect(gs)
    BY <2>1 DEF AutoSelect, BestOf, Eligible
  <2>3. Overlays' /\ AskedOf'
    BY <2>1 DEF DupInv, Overlays, AskedOf
  <2>4. Proposal'
    BY <2>1, <2>2 DEF DupInv, Proposal
  <2> QED BY <2>1, <2>3, <2>4 DEF DupInv, RowsOutlive, ReadingCopies
<1>4. CASE PreferOriginals
  <2>1. /\ UNCHANGED <<held, there, links, dismissed, resolver, deleting, toc, auto>>
        /\ resolver = NoOverlay /\ deleting = {}
    BY <1>4 DEF PreferOriginals, Idle
  <2>2. auto = FALSE
    BY <2>1 DEF DupInv, Proposal, NoOverlay
  <2>3. Overlays' /\ Proposal' /\ AskedOf'
    BY <2>1, <2>2, ClosedKeeps
  <2> QED BY <2>1, <2>3 DEF DupInv, RowsOutlive, ReadingCopies
<1>5. ASSUME NEW g \in SUBSET Copy, Ignore(g) PROVE DupInv'
  <2>1. UNCHANGED <<held, there, links, originals, deleting, toc>> /\ deleting = {} /\ OverlayBuilt
    BY <1>5 DEF Ignore, Idle
  <2>2. held' \subseteq Copy
    BY <2>1 DEF DupInv, RowsOutlive
  <2>3. Overlays' /\ Proposal' /\ AskedOf'
    BY <2>1, <2>2, Builds
  <2> QED BY <2>1, <2>3 DEF DupInv, RowsOutlive, ReadingCopies
<1>6. ASSUME NEW moved \in SUBSET Copy, Delete(moved) PROVE DupInv'
  <2>1. /\ UNCHANGED <<links, originals, toc>> /\ deleting' = {} /\ OverlayBuilt
        /\ there' = there \ moved /\ held' = held \ (moved \cup (deleting \ there))
    BY <1>6 DEF Delete
  <2>2. RowsOutlive'
    BY <2>1 DEF DupInv, RowsOutlive
  <2>3. Overlays' /\ Proposal' /\ AskedOf'
    BY <2>1, <2>2, Builds DEF RowsOutlive
  <2> QED BY <2>1, <2>2, <2>3 DEF DupInv, ReadingCopies
<1>7. ASSUME NEW gs, Restore(gs) PROVE DupInv'
  <2>1. /\ UNCHANGED <<held, there, links, originals, deleting, toc, auto>> /\ deleting = {}
        /\ resolver.kind = "ignored" /\ (resolver' = NoOverlay \/ resolver' = resolver)
    BY <1>7 DEF Restore, Idle
  <2>2. resolver = [kind |-> "ignored"]
    BY <2>1 DEF DupInv, Overlays, NoOverlay, GroupsShown
  <2>3. auto = FALSE
    BY <2>1 DEF DupInv, Proposal
  <2>4. Overlays' /\ Proposal' /\ AskedOf'
    BY <2>1, <2>2, <2>3, ClosedKeeps
  <2> QED BY <2>1, <2>4 DEF DupInv, RowsOutlive, ReadingCopies
<1> QED BY <1>1, <1>2, <1>3, <1>4, <1>5, <1>6, <1>7

\* What the scan's thread and the world do.
LEMMA AroundTheResolver ==
    ASSUME DupInv
    PROVE  /\ StartTocScan \/ ReadContents \/ FinishScan => DupInv'
           /\ \A c \in Copy : LoseFile(c) \/ PruneRow(c) => DupInv'
<1>1. CASE StartTocScan
  <2>1. /\ UNCHANGED <<held, there, links, dismissed, originals, resolver, deleting, auto>>
        /\ toc' = [kind |-> "reading", todo |-> held, read |-> {}]
    BY <1>1 DEF StartTocScan
  <2>2. ReadingCopies'
    BY <2>1 DEF DupInv, ReadingCopies, RowsOutlive
  <2> QED BY <2>1, <2>2, OverlayStays DEF DupInv, RowsOutlive
<1>2. CASE ReadContents
  <2> DEFINE c == CHOOSE x \in toc.todo : \A y \in toc.todo : Place(x) <= Place(y)
  <2>1. /\ UNCHANGED <<held, there, links, dismissed, originals, resolver, deleting, auto>>
        /\ toc.kind = "reading"
        /\ toc' = IF c \in Unreadable THEN [toc EXCEPT !.todo = {}]
                  ELSE [toc EXCEPT !.todo = @ \ {c}, !.read = @ \cup ({c} \cap there)]
    BY <1>2 DEF ReadContents
  <2> HIDE DEF c
  <2>2. /\ toc = [kind |-> "reading", todo |-> toc.todo, read |-> toc.read]
        /\ toc.todo \subseteq Copy /\ toc.read \subseteq Copy
    BY <2>1 DEF DupInv, ReadingCopies, NoOverlay
  <2>3. \/ toc' = [kind |-> "reading", todo |-> {}, read |-> toc.read]
        \/ toc' = [kind |-> "reading", todo |-> toc.todo \ {c}, read |-> toc.read \cup ({c} \cap there)]
    BY <2>1, <2>2
  <2>4. there \subseteq Copy
    BY DEF DupInv, RowsOutlive
  <2>5. ReadingCopies'
    BY <2>1, <2>2, <2>3, <2>4 DEF DupInv, ReadingCopies
  <2> QED BY <2>1, <2>5, OverlayStays DEF DupInv, RowsOutlive
<1>3. CASE FinishScan
  <2>1. /\ UNCHANGED <<held, there, dismissed, originals, resolver, deleting, auto>>
        /\ toc.kind = "reading" /\ toc' = NoOverlay /\ links' = Candidates(toc.read)
    BY <1>3 DEF FinishScan
  <2>2. toc.read \subseteq Copy
    BY <2>1 DEF DupInv, ReadingCopies, NoOverlay
  <2>3. Candidates(toc.read) \subseteq toc.read \X toc.read
    BY DEF Candidates
  <2>4. ReadingCopies'
    BY <2>1, <2>2, <2>3 DEF ReadingCopies
  <2> QED BY <2>1, <2>4, OverlayStays DEF DupInv, RowsOutlive
<1>4. ASSUME NEW c \in Copy, LoseFile(c) PROVE DupInv'
  <2>1. /\ UNCHANGED <<held, links, dismissed, originals, resolver, deleting, toc, auto>>
        /\ there' = there \ {c}
    BY <1>4 DEF LoseFile
  <2> QED BY <2>1, OverlayStays DEF DupInv, RowsOutlive, ReadingCopies
<1>5. ASSUME NEW c \in Copy, PruneRow(c) PROVE DupInv'
  <2>1. /\ UNCHANGED <<there, links, dismissed, originals, resolver, deleting, toc, auto>>
        /\ held' = held \ {c} /\ c \notin there
    BY <1>5 DEF PruneRow
  <2> QED BY <2>1, OverlayStays DEF DupInv, RowsOutlive, ReadingCopies
<1> QED BY <1>1, <1>2, <1>3, <1>4, <1>5

\* ... and every step keeps it.
LEMMA DupStep == DupInv /\ [DupNext]_dupVars => DupInv'
<1> SUFFICES ASSUME DupInv, [DupNext]_dupVars PROVE DupInv'
  OBVIOUS
<1>1. CASE Checks({})
  BY <1>1, ChecksKeep
<1>2. CASE Checks(AutoSelect(resolver.groups))
  <2>1. GroupsShown(resolver)
    BY <1>2 DEF Checks, DupInv, Overlays, NoOverlay
  <2>2. AutoSelect(resolver.groups) \in SUBSET Copy
    BY <2>1 DEF GroupsShown, Apart, AutoSelect
  <2> QED BY <1>2, <2>2, ChecksKeep
<1>3. ASSUME NEW c \in Copy, Toggle(c) PROVE DupInv'
  <2>1. GroupsShown(resolver) /\ Checks(SymDiff(resolver.checked, {c}))
    BY <1>3 DEF Toggle, DupInv, Overlays, NoOverlay
  <2>2. SymDiff(resolver.checked, {c}) \in SUBSET Copy
    BY <2>1 DEF GroupsShown, SymDiff
  <2> QED BY <2>1, <2>2, ChecksKeep
<1>4. CASE UNCHANGED dupVars
  BY <1>4, OverlayStays DEF dupVars, DupInv, RowsOutlive, ReadingCopies
<1> QED BY <1>1, <1>2, <1>3, <1>4, ResolverKeys, AroundTheResolver DEF DupNext

(* Through any keys, lost files, pruned rows and rescans the overlay shows *)
(* disjoint groups of held copies, and the boxes are auto-select's for as  *)
(* long as nobody touched them.                                            *)
THEOREM ResolverInvariance == DupSpec => []DupInv
<1> QED BY DupStart, DupStep, PTL DEF DupSpec

(* dedup.rs and dup_resolve.rs: what is offered is always the components of *)
(* the content links among the books held, whole, none of them ignored, and *)
(* the proposal spares exactly one copy of each.                           *)
THEOREM ResolverIsSound == DupSpec => []ResolverSound
<1>1. DupInv => ResolverSound
  <2> SUFFICES ASSUME DupInv PROVE ResolverSound
    OBVIOUS
  <2>1. GroupsAreComponents
    BY UnionFindIsRight DEF DupInv, RowsOutlive, ReadingCopies
  <2>2. resolver.kind = "groups" => GroupsShown(resolver) /\ resolver.groups \cap dismissed = {}
    BY DEF DupInv, Overlays, NoOverlay
  <2>3. OneSpared
    <3> SUFFICES ASSUME auto, NEW g \in resolver.groups PROVE Cardinality(g \ resolver.checked) = 1
      BY DEF OneSpared
    <3>1. resolver.checked = AutoSelect(resolver.groups) /\ Apart(resolver.groups)
      BY <2>2 DEF DupInv, Proposal, GroupsShown
    <3>2. g \ resolver.checked = {BestOf(g)}
      BY <3>1, Spares
    <3> QED BY <3>2, FS_Singleton
  <2>4. IgnoredStayAway
    BY <2>2 DEF IgnoredStayAway
  <2> QED BY <2>1, <2>3, <2>4 DEF ResolverSound
<1> QED BY <1>1, ResolverInvariance, PTL

(* Deleting what was proposed leaves each work whose files were all there a *)
(* copy that keeps its row and its file, whichever of the moves to the     *)
(* trash fail (trash_paths).                                               *)
THEOREM AWorkSurvives == DupSpec => WorkSurvives
<1>1. ASSUME DupInv, [DupNext]_dupVars, auto, deleting # {}, deleting' = {}
      PROVE  \A g \in resolver.groups : g \subseteq there => g \cap held' \cap there' # {}
  <2>1. GroupsShown(resolver) /\ deleting = AutoSelect(resolver.groups) /\ RowsOutlive
    BY <1>1 DEF DupInv, AskedOf, Proposal, Overlays, NoOverlay
  <2> SUFFICES ASSUME NEW g \in resolver.groups, g \subseteq there PROVE g \cap held' \cap there' # {}
    OBVIOUS
  <2>2. g \ deleting = {BestOf(g)}
    BY <2>1, Spares DEF GroupsShown
  <2>3. BestOf(g) \in g /\ BestOf(g) \in there /\ BestOf(g) \in held /\ BestOf(g) \notin deleting
    BY <2>1, <2>2 DEF RowsOutlive
  <2>4. KeepAll \/ \E moved \in SUBSET Copy : Delete(moved)
    BY <1>1 DEF DupNext, dupVars, OpenResolver, CloseDups, AskDelete, OpenIgnored, PreferOriginals, Checks,
                Toggle, LoseFile, PruneRow, Ignore, Restore, StartTocScan, ReadContents, FinishScan, Idle
  <2>5. CASE KeepAll
    BY <2>3, <2>5 DEF KeepAll
  <2>6. ASSUME NEW moved \in SUBSET Copy, Delete(moved) PROVE BestOf(g) \in held' /\ BestOf(g) \in there'
    BY <2>3, <2>6 DEF Delete
  <2> QED BY <2>3, <2>4, <2>5, <2>6 DEF KeepAll
<1>2. DupInv /\ [DupNext]_dupVars =>
        [(auto /\ deleting # {} /\ deleting' = {}) =>
           \A g \in resolver.groups : g \subseteq there => g \cap held' \cap there' # {}]_dupVars
  BY <1>1
<1> QED BY <1>2, ResolverInvariance, PTL DEF DupSpec, WorkSurvives

-----------------------------------------------------------------------------
(* The desk: refresh, cursor, marks, dialogs.                              *)
Views == Names \cup {AllView, FavoritesView}
Desks == [view : Views, sideNew : BOOLEAN, shelves : Seq(Names), list : Seq(Volumes),
          sel : Nat, marked : SUBSET Volumes, base : SUBSET Volumes, anchor : Nat \cup {-1},
          desc : BOOLEAN, filter : BOOLEAN, filtering : BOOLEAN]
Editors == [kind : {"name"}, from : Names \cup {""}]
Pickers == [kind : {"picker"}, targets : (SUBSET Volumes) \ {{}}, shelves : Seq(Names),
            ticks : SUBSET Names, at : Nat]

\* The types of the desk's state.
DeskTyped ==
    /\ rows \subseteq Volumes /\ member \subseteq Volumes \X Names
    /\ collections \subseteq Names
    /\ desk \in Desks /\ popup \in Pickers \cup Editors \cup {NoPopup}
    /\ asked = NoAsk \/ asked.kind = "trash" \/ (asked.kind = "name" /\ asked.name \in Names \cup {""})
\* A question lies over the dialog it is about.
OneDialog ==
    /\ asked.kind = "trash" => popup = NoPopup
    /\ asked.kind = "name" => popup.kind = "name"
\* The picker lists the collections there are.
PickerListsAll == popup.kind = "picker" => ToSet(popup.shelves) = collections
\* Books the scan has still to find: in no list, no picker.
Newcomers == unscanned \cap onDisk
NewToAll ==
    /\ Newcomers \cap rows = {} /\ Newcomers \cap ToSet(desk.list) = {}
    /\ popup.kind = "picker" => Newcomers \cap popup.targets = {}
DeskInv == DeskTyped /\ OneDialog /\ PickerListsAll /\ NewToAll /\ DeskShowsStore

\* A row of a list of n, and the first when it is empty.
LEMMA ClampedIs ==
    ASSUME NEW i \in Int, NEW n \in Nat
    PROVE  /\ Clamp(i, n) \in Nat /\ (Clamp(i, n) = 0 \/ Clamp(i, n) < n)
           /\ n > 0 => Clamp(i, n) < n
BY DEF Clamp

\* A list turned round has the same books.
LEMMA ReversedIs ==
    ASSUME NEW T, NEW s \in Seq(T)
    PROVE  /\ Reverse(s) \in Seq(T) /\ ToSet(Reverse(s)) \subseteq ToSet(s)
           /\ Len(Reverse(s)) = Len(s)
<1>1. Len(s) \in Nat /\ DOMAIN s = 1 .. Len(s) /\ \A i \in 1 .. Len(s) : s[i] \in T
  OBVIOUS
<1>2. \A i \in 1 .. Len(s) : (Len(s) - i) + 1 \in 1 .. Len(s)
  BY <1>1
<1>3. Reverse(s) \in Seq(T)
  <2>1. Reverse(s) \in [1 .. Len(s) -> T]
    BY <1>1, <1>2 DEF Reverse
  <2> QED BY <1>1, <2>1
<1>4. DOMAIN Reverse(s) = 1 .. Len(s) /\ \A i \in 1 .. Len(s) : Reverse(s)[i] = s[(Len(s) - i) + 1]
  BY DEF Reverse
<1>5. ToSet(Reverse(s)) \subseteq ToSet(s)
  BY <1>1, <1>2, <1>4 DEF ToSet
<1> QED BY <1>1, <1>3, <1>4, <1>5

\* What filtering a list leaves.
LEMMA KeptIs ==
    ASSUME NEW T, NEW s \in Seq(T), NEW S
    PROVE  Retained(s, S) \in Seq(T) /\ ToSet(Retained(s, S)) = ToSet(s) \cap S
BY RetainedIs DEF ToSet, Range

\* The views that `[` and `]` go round.
LEMMA RingIs ==
    ASSUME NEW d \in Desks
    PROVE  /\ Ring(d) \in Seq(Views)
           /\ ToSet(Ring(d)) = {AllView, FavoritesView} \cup ToSet(d.shelves)
<1> DEFINE two == <<AllView, FavoritesView>>
<1>1. two \in Seq(Views) /\ Range(two) = {AllView, FavoritesView}
  BY DEF Views, Range
<1>2. d.shelves \in Seq(Names)
  BY DEF Desks
<1>3. d.shelves \in Seq(Views)
  BY <1>2 DEF Views
<1> HIDE DEF two
<1>4. two \o d.shelves \in Seq(Views) /\ Range(two \o d.shelves) = Range(two) \cup Range(d.shelves)
  BY <1>1, <1>3, Joined
<1>5. ToSet(Ring(d)) = Range(two \o d.shelves) /\ ToSet(d.shelves) = Range(d.shelves)
  BY DEF ToSet, Range, Ring, two
<1> QED BY <1>1, <1>4, <1>5 DEF Ring, two

\* refresh_library: the list is of rows, its cursor on it, its view one there is.
LEMMA RefreshedIs ==
    ASSUME NEW db, NEW d \in Desks
    PROVE  /\ Refreshed(db, d) \in Desks
           /\ ToSet(Refreshed(db, d).list) \subseteq db.rows
           /\ Refreshed(db, d).sel = 0 \/ Refreshed(db, d).sel < Len(Refreshed(db, d).list)
           /\ Refreshed(db, d).view \in ToSet(Ring(Refreshed(db, d)))
           /\ Refreshed(db, d).marked = d.marked /\ Refreshed(db, d).base = d.base
           /\ Refreshed(db, d).anchor = d.anchor
<1> DEFINE v == Lands(db, d.view)
           inView == {b \in db.rows : IF d.filter THEN b \in Found ELSE InView(db, v, b)}
           shown == Retained(ByTitle, inView)
           sorted == IF d.desc THEN Reverse(shown) ELSE shown
           s == SelAfter(d.sel, Len(sorted))
           e == Refreshed(db, d)
<1>1. ByTitle \in Seq(Volumes) /\ ByName \in Seq(Names)
  BY DeskAssumption DEF Volumes, Names
<1>2. shown \in Seq(Volumes) /\ ToSet(shown) \subseteq db.rows
  <2>1. shown \in Seq(Volumes) /\ ToSet(shown) \subseteq inView
    <3> HIDE DEF inView
    <3> QED BY <1>1, KeptIs
  <2>2. inView \subseteq db.rows
    OBVIOUS
  <2> HIDE DEF inView
  <2> QED BY <2>1, <2>2
<1> HIDE DEF shown
<1>3. sorted \in Seq(Volumes) /\ ToSet(sorted) \subseteq db.rows
  BY <1>2, ReversedIs
<1> HIDE DEF sorted
<1>4. s \in Nat /\ (s = 0 \/ s < Len(sorted))
  <2>1. Len(sorted) \in Nat /\ d.sel \in Nat
    BY <1>3 DEF Desks
  <2> QED BY <2>1 DEF SelAfter, Clamp
<1> HIDE DEF s
<1>5. Shelves(db) \in Seq(Names) /\ ToSet(Shelves(db)) = Names \cap db.collections
  BY <1>1, KeptIs DEF Shelves, Names
<1>6. d.view \in Views /\ v \in Views /\ v \in {AllView, FavoritesView} \cup (Names \cap db.collections)
  BY DEF Desks, Views, Lands
<1> HIDE DEF v
<1>7. e = [d EXCEPT !.view = v, !.shelves = Shelves(db), !.list = sorted, !.sel = s]
  BY DEF Refreshed, v, sorted, s, shown
<1> HIDE DEF e
<1>8. /\ e \in Desks /\ e.list = sorted /\ e.sel = s /\ e.view = v /\ e.shelves = Shelves(db)
      /\ e.marked = d.marked /\ e.base = d.base /\ e.anchor = d.anchor
  BY <1>3, <1>4, <1>5, <1>6, <1>7 DEF Desks
<1>9. e.view \in ToSet(Ring(e))
  BY <1>5, <1>6, <1>8, RingIs
<1> QED BY <1>3, <1>4, <1>8, <1>9 DEF e

\* What DeskShowsStore asks of the desk alone.
SoundDesk(d) ==
    /\ d \in Desks
    /\ d.sel = 0 \/ d.sel < Len(d.list)
    /\ d.view \in ToSet(Ring(d))
    /\ d.anchor = -1 => d.marked = d.base

\* A refresh makes the desk sound ...
LEMMA RefreshedSound ==
    ASSUME NEW db, NEW d \in Desks, d.anchor = -1 => d.marked = d.base
    PROVE  SoundDesk(Refreshed(db, d)) /\ ToSet(Refreshed(db, d).list) \subseteq db.rows
BY RefreshedIs DEF SoundDesk

\* The range visual mode covers.
LEMMA SweptIn ==
    ASSUME NEW d \in Desks
    PROVE  Swept(d) \in SUBSET Volumes
<1> DEFINE n == Len(d.list)
           a == Clamp(d.anchor, n)
           b == Clamp(d.sel, n)
           ends == {a, b}
           i == CHOOSE x \in ends : \A y \in ends : x <= y
           j == CHOOSE x \in ends : \A y \in ends : y <= x
<1>1. d.list \in Seq(Volumes) /\ n \in Nat /\ d.anchor \in Int /\ d.sel \in Int
  BY DEF Desks
<1>2. CASE n = 0
  BY <1>2 DEF Swept
<1>3. CASE n > 0
  <2>1. a \in 0 .. n - 1 /\ b \in 0 .. n - 1
    <3>1. \A x \in Int : Clamp(x, n) \in Nat /\ Clamp(x, n) < n
      BY <1>1, <1>3, ClampedIs
    <3>2. a \in Nat /\ a < n /\ b \in Nat /\ b < n
      BY <1>1, <3>1
    <3> QED BY <1>1, <3>2
  <2> HIDE DEF a, b
  <2>2. i \in ends /\ j \in ends
    <3>1. \E x \in ends : \A y \in ends : x <= y
      BY <2>1
    <3>2. \E x \in ends : \A y \in ends : y <= x
      BY <2>1
    <3> QED BY <3>1, <3>2
  <2>3. (n - 1) + 1 = n /\ ~ (n - 1 < 0)
    BY <1>1, <1>3
  <2>4. Swept(d) = {d.list[k + 1] : k \in i .. j}
    BY <2>3 DEF Swept, a, b
  <2> HIDE DEF i, j
  <2>5. \A k \in i .. j : k + 1 \in 1 .. n
    BY <1>1, <2>1, <2>2
  <2> QED BY <1>1, <2>4, <2>5
<1> QED BY <1>1, <1>2, <1>3

\* ... and what the keys do to marks and cursor leaves it so: the range,
LEMMA SyncedSound ==
    ASSUME NEW d, SoundDesk(d)
    PROVE  SoundDesk(Synced(d)) /\ Synced(d).list = d.list
<1>1. CASE d.anchor = -1
  BY <1>1 DEF Synced
<1>2. CASE d.anchor # -1
  <2> DEFINE m == d.base \cup Swept(d)
             e == [d EXCEPT !.marked = m]
  <2>1. m \in SUBSET Volumes
    BY SweptIn DEF SoundDesk, Desks
  <2> HIDE DEF m
  <2>2. /\ e \in Desks /\ e.sel = d.sel /\ e.list = d.list /\ e.view = d.view /\ e.shelves = d.shelves
        /\ e.anchor = d.anchor
    BY <2>1 DEF SoundDesk, Desks
  <2>3. Synced(d) = e
    BY <1>2 DEF Synced, m
  <2> QED BY <1>2, <2>2, <2>3 DEF SoundDesk, Ring
<1> QED BY <1>1, <1>2

\* the range kept,
LEMMA CommittedSound ==
    ASSUME NEW d, SoundDesk(d)
    PROVE  SoundDesk(Committed(d)) /\ Committed(d).list = d.list
BY DEF Committed, SoundDesk, Desks, Ring

\* the cursor moved,
LEMMA MovedSound ==
    ASSUME NEW d, SoundDesk(d), NEW n \in Int
    PROVE  SoundDesk(Moved(d, n)) /\ Moved(d, n).list = d.list
<1> DEFINE s == Clamp(d.sel + n, Len(d.list))
<1>1. s \in Nat /\ (s = 0 \/ s < Len(d.list))
  <2>1. d.sel + n \in Int /\ Len(d.list) \in Nat
    BY DEF SoundDesk, Desks
  <2> QED BY <2>1, ClampedIs
<1> HIDE DEF s
<1>2. Moved(d, n) = [d EXCEPT !.sel = s]
  BY DEF Moved, s
<1> QED BY <1>1, <1>2 DEF SoundDesk, Desks, Ring

\* the marks cleared,
LEMMA UnmarkedSound ==
    ASSUME NEW d, SoundDesk(d)
    PROVE  SoundDesk(Unmarked(d)) /\ Unmarked(d).list = d.list /\ Unmarked(d).marked = {} /\ Unmarked(d).base = {}
BY DEF Unmarked, SoundDesk, Desks, Ring

\* some of them toggled.
LEMMA ToggledSound ==
    ASSUME NEW d, SoundDesk(d), NEW bs \in SUBSET Volumes
    PROVE  SoundDesk(Toggled(d, bs)) /\ Toggled(d, bs).list = d.list
<1> DEFINE m == SymDiff(d.base, bs)
<1>1. m \in SUBSET Volumes
  BY DEF SymDiff, SoundDesk, Desks
<1> HIDE DEF m
<1>2. Toggled(d, bs) = [d EXCEPT !.base = m, !.marked = m]
  BY DEF Toggled, m
<1> QED BY <1>1, <1>2 DEF SoundDesk, Desks, Ring

\* The book under the cursor is on the list,
LEMMA CursorIn ==
    ASSUME NEW d, SoundDesk(d)
    PROVE  Cursor(d) \in SUBSET Volumes /\ Cursor(d) \subseteq ToSet(d.list)
<1>1. d.list \in Seq(Volumes) /\ d.sel \in Nat /\ (d.sel = 0 \/ d.sel < Len(d.list))
  BY DEF SoundDesk, Desks
<1>2. d.list # <<>> => d.sel + 1 \in 1 .. Len(d.list)
  BY <1>1
<1> QED BY <1>1, <1>2 DEF Cursor, ToSet

\* and so are the marked ones.
LEMMA MarkedIn ==
    ASSUME NEW d, SoundDesk(d)
    PROVE  ToSet(Marked(d)) \in SUBSET Volumes /\ ToSet(Marked(d)) \subseteq ToSet(d.list)
<1>1. d.list \in Seq(Volumes)
  BY DEF SoundDesk, Desks
<1>2. ToSet(d.list) \subseteq Volumes
  BY <1>1 DEF ToSet
<1> QED BY <1>1, <1>2, KeptIs DEF Marked

\* The invariant with the desk's part in one.
LEMMA DeskInvIs ==
    ASSUME DeskTyped
    PROVE  DeskShowsStore <=> (SoundDesk(desk) /\ TicksTrue)
BY DEF DeskTyped, DeskShowsStore, SoundDesk, CursorInList, ViewInRing, MarksArePicks

\* A step that changes only the desk.
LEMMA DeskStep ==
    ASSUME DeskInv, UNCHANGED <<deskStore, popup, asked>>, Newcomers' \subseteq Newcomers,
           SoundDesk(desk'), ToSet(desk'.list) \subseteq ToSet(desk.list) \cup rows
    PROVE  DeskInv'
<1>1. rows' = rows /\ member' = member /\ collections' = collections /\ fav' = fav /\ popup' = popup /\ asked' = asked
  BY DEF deskStore
<1>2. DeskTyped'
  BY <1>1 DEF DeskInv, DeskTyped, SoundDesk
<1>3. OneDialog' /\ PickerListsAll'
  BY <1>1 DEF DeskInv, OneDialog, PickerListsAll
<1>4. NewToAll'
  BY <1>1 DEF DeskInv, NewToAll
<1>5. TicksTrue'
  <2>1. TicksTrue
    BY DeskInvIs DEF DeskInv
  <2>2. Db' = Db
    BY <1>1 DEF Db
  <2> QED BY <1>1, <2>1, <2>2 DEF TicksTrue
<1>6. DeskShowsStore'
  <2>1. DeskTyped' => (DeskShowsStore' <=> (SoundDesk(desk)' /\ TicksTrue'))
    BY DeskInvIs, PTL
  <2>2. SoundDesk(desk)'
    BY DEF SoundDesk, Desks, Ring, Views, Names, Volumes, ToSet
  <2> QED BY <1>2, <1>5, <2>1, <2>2
<1> QED BY <1>2, <1>3, <1>4, <1>6 DEF DeskInv

\* The invariant holds when the program starts.
LEMMA DeskStarts ==
    DeskInit => DeskInv
<1> SUFFICES ASSUME DeskInit PROVE DeskInv
  OBVIOUS
<1>1. PICK d \in Desks : desk = Refreshed(Db, d) /\ d.anchor = -1 /\ d.marked = {} /\ d.base = {}
  <2> DEFINE d == [view |-> AllView, sideNew |-> FALSE, shelves |-> <<>>, list |-> <<>>,
                   sel |-> 0, marked |-> {}, base |-> {}, anchor |-> -1, desc |-> FALSE,
                   filter |-> FALSE, filtering |-> FALSE]
  <2>1. d \in Desks
    BY DEF Desks, Views
  <2> QED BY <2>1 DEF DeskInit
<1>2. SoundDesk(desk) /\ ToSet(desk.list) \subseteq rows
  BY <1>1, RefreshedSound DEF Db
<1>3. rows \subseteq Volumes /\ collections \subseteq Names /\ member \subseteq Volumes \X Names
  <2>1. rows \subseteq Volumes /\ collections \subseteq Names
    BY DEF DeskInit
  <2>2. CASE member = {}
    BY <2>1, <2>2
  <2>3. CASE \E n \in collections : member = {b \in Volumes : ByTitle[1] = b} \X {n}
    BY <2>1, <2>3
  <2> QED BY <2>2, <2>3 DEF DeskInit
<1>4. popup = NoPopup /\ asked = NoAsk /\ popup.kind = "none" /\ asked.kind = "none"
  BY DEF DeskInit, NoPopup, NoAsk
<1>5. DeskTyped
  BY <1>2, <1>3, <1>4 DEF DeskTyped, SoundDesk
<1>6. OneDialog /\ PickerListsAll /\ TicksTrue
  BY <1>4 DEF OneDialog, PickerListsAll, TicksTrue
<1>7. Newcomers \cap rows = {}
  BY DEF DeskInit, Newcomers, SymDiff
<1>8. NewToAll
  BY <1>2, <1>4, <1>7 DEF NewToAll
<1>9. DeskShowsStore
  BY <1>2, <1>5, <1>6, DeskInvIs
<1> QED BY <1>5, <1>6, <1>8, <1>9 DEF DeskInv

-----------------------------------------------------------------------------
\* The cursor, the marks and the mouse.
LEMMA DeskMoves ==
    ASSUME DeskInv
    PROVE  /\ \A n \in {-2, -1, 1, 2} : Move(n) => DeskInv'
           /\ ToggleVisual => DeskInv'
           /\ ToggleMark => DeskInv'
           /\ MarkAll => DeskInv'
           /\ \A i \in 0 .. Len(ByTitle) : Click(i) => DeskInv'
           /\ StartFilter => DeskInv'
<1>1. SoundDesk(desk) /\ desk \in Desks /\ desk.list \in Seq(Volumes) /\ ToSet(desk.list) \in SUBSET Volumes
  <2>1. SoundDesk(desk)
    BY DeskInvIs DEF DeskInv
  <2> QED BY <2>1 DEF SoundDesk, Desks, ToSet
<1>2. ASSUME NEW d, SoundDesk(d), d.list = desk.list, desk' = d, UNCHANGED <<deskStore, popup, asked, scanner>>
      PROVE  DeskInv'
  <2>1. Newcomers' = Newcomers
    BY <1>2 DEF Newcomers, scanner, deskStore
  <2>2. SoundDesk(desk') /\ ToSet(desk'.list) \subseteq ToSet(desk.list) \cup rows
    BY <1>2
  <2> QED BY <1>2, <2>1, <2>2, DeskStep
<1>3. ASSUME NEW n \in {-2, -1, 1, 2}, Move(n)
      PROVE  DeskInv'
  <2> DEFINE d == Moved(desk, n)
  <2>1. SoundDesk(d) /\ d.list = desk.list
    BY <1>1, MovedSound
  <2>2. desk' = Synced(d) /\ UNCHANGED <<deskStore, popup, asked, scanner>>
    BY <1>3 DEF Move, Keyed, Tap, Only
  <2> HIDE DEF d
  <2>3. SoundDesk(Synced(d)) /\ Synced(d).list = desk.list
    BY <2>1, SyncedSound
  <2> QED BY <1>2, <2>2, <2>3
<1>4. ASSUME ToggleVisual
      PROVE  DeskInv'
  <2> DEFINE v == [desk EXCEPT !.anchor = desk.sel]
             d == IF desk.anchor # -1 THEN Committed(desk) ELSE v
  <2>1. SoundDesk(v) /\ v.list = desk.list
    BY <1>1 DEF SoundDesk, Desks, Ring
  <2>2. SoundDesk(d) /\ d.list = desk.list
    BY <1>1, <2>1, CommittedSound
  <2> HIDE DEF d
  <2>3. SoundDesk(Synced(d)) /\ Synced(d).list = desk.list
    BY <2>2, SyncedSound
  <2>4. desk' = Synced(d) /\ UNCHANGED <<deskStore, popup, asked, scanner>>
    BY <1>4 DEF ToggleVisual, Keyed, Tap, Only, d
  <2> QED BY <1>2, <2>3, <2>4
<1>5. ASSUME ToggleMark
      PROVE  DeskInv'
  <2> DEFINE c == Committed(desk)
             t == Toggled(c, Cursor(desk))
  <2>1. SoundDesk(c) /\ c.list = desk.list
    BY <1>1, CommittedSound
  <2>2. SoundDesk(t) /\ t.list = desk.list
    <3> HIDE DEF c
    <3> QED BY <1>1, <2>1, CursorIn, ToggledSound
  <2>3. desk' = Moved(t, 1) /\ UNCHANGED <<deskStore, popup, asked, scanner>>
    BY <1>5 DEF ToggleMark, Keyed, Tap, Only
  <2> HIDE DEF t
  <2>4. SoundDesk(Moved(t, 1)) /\ Moved(t, 1).list = desk.list
    BY <2>2, MovedSound
  <2> QED BY <1>2, <2>3, <2>4
<1>6. ASSUME MarkAll
      PROVE  DeskInv'
  <2> DEFINE d == [desk EXCEPT !.anchor = -1, !.base = ToSet(desk.list), !.marked = ToSet(desk.list)]
  <2>1. SoundDesk(d) /\ d.list = desk.list
    BY <1>1 DEF SoundDesk, Desks, Ring
  <2> QED BY <1>2, <1>6, <2>1 DEF MarkAll, Keyed, Tap, Only
<1>7. ASSUME NEW i \in 0 .. Len(ByTitle), Click(i)
      PROVE  DeskInv'
  <2> DEFINE at == Clamp(i, Len(desk.list))
             c == Committed(desk)
             t == Toggled(c, {desk.list[at + 1]})
             picks == desk.base \cup Swept([desk EXCEPT !.anchor = at])
             d1 == PlainClick(at)
             d2 == CtrlClick(at)
             d3 == ShiftClick(at)
  <2>1. at \in Nat /\ at < Len(desk.list) /\ desk.list[at + 1] \in Volumes
    <3>1. i \in Int /\ Len(desk.list) \in Nat /\ Len(desk.list) > 0
      BY <1>1, <1>7 DEF Click
    <3>2. at \in Nat /\ at < Len(desk.list)
      BY <3>1, ClampedIs
    <3> HIDE DEF at
    <3>3. at + 1 \in 1 .. Len(desk.list)
      BY <3>1, <3>2
    <3> QED BY <1>1, <3>2, <3>3
  <2>2. UNCHANGED <<deskStore, popup, asked, scanner>> /\ (desk' = d1 \/ desk' = d2 \/ desk' = d3)
    BY <1>7 DEF Click, Tap
  <2> HIDE DEF at
  <2>3. picks \in SUBSET Volumes
    <3>1. [desk EXCEPT !.anchor = at] \in Desks
      BY <1>1, <2>1 DEF Desks
    <3> QED BY <1>1, <3>1, SweptIn DEF Desks
  <2>4. SoundDesk(d1) /\ d1.list = desk.list
    BY <1>1, <2>1 DEF SoundDesk, Desks, Ring, PlainClick
  <2>5. SoundDesk(t) /\ t.list = desk.list
    <3>1. SoundDesk(c) /\ c.list = desk.list
      BY <1>1, CommittedSound
    <3> HIDE DEF c
    <3> QED BY <2>1, <3>1, ToggledSound
  <2>6. SoundDesk(d2) /\ d2.list = desk.list
    <3>1. d2 = [t EXCEPT !.sel = at]
      BY DEF CtrlClick
    <3> HIDE DEF t, d2
    <3> QED BY <2>1, <2>5, <3>1 DEF SoundDesk, Desks, Ring
  <2>7. SoundDesk(d3) /\ d3.list = desk.list
    <3>1. d3 = [desk EXCEPT !.base = picks, !.marked = picks, !.sel = at]
      BY DEF ShiftClick
    <3> HIDE DEF picks, d3
    <3> QED BY <1>1, <2>1, <2>3, <3>1 DEF SoundDesk, Desks, Ring
  <2> HIDE DEF d1, d2, d3
  <2> QED BY <1>2, <2>2, <2>4, <2>6, <2>7
<1>8. ASSUME StartFilter
      PROVE  DeskInv'
  <2> DEFINE u == Unmarked(desk)
             d == [u EXCEPT !.filtering = TRUE]
  <2>1. SoundDesk(u) /\ u.list = desk.list
    BY <1>1, UnmarkedSound
  <2>2. desk' = d /\ UNCHANGED <<deskStore, popup, asked, scanner>>
    BY <1>8 DEF StartFilter, Keyed, Tap, Only
  <2> HIDE DEF u
  <2>3. SoundDesk(d) /\ d.list = desk.list
    BY <2>1 DEF SoundDesk, Desks, Ring
  <2> QED BY <1>2, <2>2, <2>3
<1> QED BY <1>3, <1>4, <1>5, <1>6, <1>7, <1>8

\* What reads the store again.
LEMMA DeskRefreshes ==
    ASSUME DeskInv
    PROVE  /\ EscKey => DeskInv'
           /\ \A i \in 0 .. (Len(ByName) + 2) : SetView(i) => DeskInv'
           /\ SortKeys => DeskInv'
           /\ \A typing \in BOOLEAN : FilterKey(typing) => DeskInv'
           /\ RefreshAfterScan => DeskInv'
<1>1. SoundDesk(desk) /\ desk \in Desks
  BY DeskInvIs DEF DeskInv, SoundDesk
<1> DEFINE Kept == UNCHANGED <<deskStore, popup, asked, unscanned>>
<1>2. ASSUME NEW d \in Desks, d.anchor = -1 => d.marked = d.base, RefreshDesk(d), Kept
      PROVE  DeskInv'
  <2>1. Newcomers' = Newcomers /\ Db'.rows = rows
    BY <1>2 DEF Newcomers, deskStore, Db
  <2>2. desk' = Refreshed(Db', d)
    BY <1>2 DEF RefreshDesk
  <2>3. SoundDesk(Refreshed(Db', d)) /\ ToSet(Refreshed(Db', d).list) \subseteq Db'.rows
    BY <1>2, RefreshedSound
  <2> QED BY <1>2, <2>1, <2>2, <2>3, DeskStep
<1>3. ASSUME NEW d, SoundDesk(d), d.list = desk.list, desk' = d, Kept
      PROVE  DeskInv'
  <2>1. Newcomers' = Newcomers
    BY <1>3 DEF Newcomers, deskStore
  <2> QED BY <1>3, <2>1, DeskStep
<1>4. SoundDesk(Unmarked(desk)) /\ Unmarked(desk) \in Desks /\ Unmarked(desk).list = desk.list
      /\ Unmarked(desk).marked = {} /\ Unmarked(desk).base = {} /\ Unmarked(desk).anchor = -1
      /\ Unmarked(desk).shelves = desk.shelves
  <2>1. Unmarked(desk).anchor = -1 /\ Unmarked(desk).shelves = desk.shelves
    BY <1>1 DEF Unmarked, Desks
  <2> QED BY <1>1, <2>1, UnmarkedSound DEF SoundDesk
<1>5. ASSUME EscKey
      PROVE  DeskInv'
  <2> DEFINE d == [desk EXCEPT !.filter = FALSE]
  <2>1. Kept /\ (desk' = Unmarked(desk) \/ RefreshDesk(d))
    BY <1>5 DEF EscKey, Keyed, Tap, scanner
  <2>2. d \in Desks /\ (d.anchor = -1 => d.marked = d.base)
    BY <1>1 DEF SoundDesk, Desks
  <2> HIDE DEF d, Kept
  <2> QED BY <1>2, <1>3, <1>4, <2>1, <2>2
<1>6. ASSUME NEW i \in 0 .. (Len(ByName) + 2), SetView(i)
      PROVE  DeskInv'
  <2> DEFINE u == Unmarked(desk)
             new == [u EXCEPT !.sideNew = TRUE]
             d == [u EXCEPT !.sideNew = FALSE, !.view = Ring(desk)[i + 1], !.sel = 0]
  <2>1. Kept /\ i \in 0 .. Len(Ring(desk))
        /\ IF i = Len(Ring(desk)) THEN desk' = new ELSE RefreshDesk(d)
    BY <1>6 DEF SetView, Keyed, Tap, scanner
  <2>2. i = Len(Ring(desk)) \/ Ring(desk)[i + 1] \in Views
    <3>1. Ring(desk) \in Seq(Views) /\ Len(Ring(desk)) \in Nat
      BY <1>1, RingIs
    <3>2. i # Len(Ring(desk)) => i + 1 \in 1 .. Len(Ring(desk))
      BY <2>1, <3>1
    <3> QED BY <3>1, <3>2
  <2> HIDE DEF u, Kept
  <2>3. SoundDesk(new) /\ new.list = desk.list
    BY <1>4 DEF SoundDesk, Desks, Ring, u
  <2>4. ASSUME i # Len(Ring(desk)) PROVE d \in Desks /\ (d.anchor = -1 => d.marked = d.base)
    BY <1>4, <2>2, <2>4 DEF Desks, u
  <2> HIDE DEF d, new
  <2> QED BY <1>2, <1>3, <2>1, <2>3, <2>4
<1>7. ASSUME SortKeys
      PROVE  DeskInv'
  <2> DEFINE u == Unmarked(desk)
             d == [u EXCEPT !.desc = ~ @]
  <2>1. Kept /\ RefreshDesk(d)
    BY <1>7 DEF SortKeys, Keyed, Tap, scanner
  <2> HIDE DEF u, Kept
  <2>2. d \in Desks /\ (d.anchor = -1 => d.marked = d.base)
    BY <1>4 DEF Desks, u
  <2> HIDE DEF d
  <2> QED BY <1>2, <2>1, <2>2
<1>8. ASSUME NEW typing \in BOOLEAN, FilterKey(typing)
      PROVE  DeskInv'
  <2> DEFINE typed == [desk EXCEPT !.filter = typing]
             done == [desk EXCEPT !.filtering = FALSE]
             off == [desk EXCEPT !.filter = FALSE, !.filtering = FALSE]
  <2>1. Kept /\ (RefreshDesk(typed) \/ desk' = done \/ RefreshDesk(off))
    BY <1>8 DEF FilterKey, Tap, scanner
  <2>2. typed \in Desks /\ (typed.anchor = -1 => typed.marked = typed.base)
    BY <1>1 DEF SoundDesk, Desks
  <2>3. off \in Desks /\ (off.anchor = -1 => off.marked = off.base)
    BY <1>1 DEF SoundDesk, Desks
  <2>4. SoundDesk(done) /\ done.list = desk.list
    BY <1>1 DEF SoundDesk, Desks, Ring
  <2> HIDE DEF typed, done, off, Kept
  <2> QED BY <1>2, <1>3, <2>1, <2>2, <2>3, <2>4
<1>9. ASSUME RefreshAfterScan
      PROVE  DeskInv'
  <2>1. Kept /\ RefreshDesk(desk)
    BY <1>9 DEF RefreshAfterScan
  <2> HIDE DEF Kept
  <2> QED BY <1>1, <1>2, <2>1 DEF SoundDesk
<1> QED BY <1>5, <1>6, <1>7, <1>8, <1>9

-----------------------------------------------------------------------------
\* A step after which no picker is open.
LEMMA NoPickerStep ==
    ASSUME DeskTyped', OneDialog', popup'.kind # "picker",
           Newcomers' \cap rows' = {}, Newcomers' \cap ToSet(desk'.list) = {}, SoundDesk(desk')
    PROVE  DeskInv'
<1>1. PickerListsAll' /\ NewToAll' /\ TicksTrue'
  BY DEF PickerListsAll, NewToAll, TicksTrue
<1>2. DeskTyped' => (DeskShowsStore' <=> (SoundDesk(desk)' /\ TicksTrue'))
  BY DeskInvIs, PTL
<1>3. SoundDesk(desk)'
  BY DEF SoundDesk, Desks, Ring, Views, Names, Volumes, ToSet
<1> QED BY <1>1, <1>2, <1>3 DEF DeskInv

\* Books to the trash, and favourites.
LEMMA DeskTrash ==
    ASSUME DeskInv
    PROVE  /\ AskTrash => DeskInv'
           /\ \A moved \in SUBSET Volumes : TrashBooks(moved) => DeskInv'
           /\ AnswerNo => DeskInv'
           /\ Favor => DeskInv'
<1>1. SoundDesk(desk) /\ desk \in Desks /\ TicksTrue
  BY DeskInvIs DEF DeskInv, SoundDesk
<1>2. SoundDesk(Unmarked(desk)) /\ Unmarked(desk) \in Desks /\ Unmarked(desk).list = desk.list
      /\ Unmarked(desk).marked = {} /\ Unmarked(desk).base = {} /\ Unmarked(desk).anchor = -1
  <2>1. Unmarked(desk).anchor = -1
    BY <1>1 DEF Unmarked, Desks
  <2> QED BY <1>1, <2>1, UnmarkedSound DEF SoundDesk
<1>3. NoPopup.kind = "none" /\ NoAsk.kind = "none"
  BY DEF NoPopup, NoAsk
<1>4. ASSUME AskTrash
      PROVE  DeskInv'
  <2>1. /\ UNCHANGED <<rows, member, collections, onDisk, unscanned, desk, popup>>
        /\ asked'.kind = "trash" /\ popup = NoPopup
    BY <1>4 DEF AskTrash, Keyed, Tap, scanner, deskStore
  <2>2. DeskTyped' /\ OneDialog'
    BY <2>1 DEF DeskInv, DeskTyped, OneDialog
  <2>3. Newcomers' \cap rows' = {} /\ Newcomers' \cap ToSet(desk'.list) = {}
    BY <2>1 DEF DeskInv, NewToAll, Newcomers
  <2> QED BY <1>1, <1>3, <2>1, <2>2, <2>3, NoPickerStep
<1>5. ASSUME NEW moved \in SUBSET Volumes, TrashBooks(moved)
      PROVE  DeskInv'
  <2> DEFINE d == [Unmarked(desk) EXCEPT !.sel = 0]
  <2>1. /\ asked' = NoAsk /\ popup' = popup /\ popup = NoPopup /\ collections' = collections
        /\ rows' \subseteq rows /\ member' \subseteq member /\ Newcomers' \subseteq Newcomers
    BY <1>5 DEF TrashBooks, Removed, Newcomers, Tap, scanner, DeskInv, OneDialog
  <2>2. desk' = Refreshed(Db', d)
    BY <1>5 DEF TrashBooks, RefreshDesk
  <2>3. d \in Desks /\ d.anchor = -1 /\ d.marked = d.base
    BY <1>2 DEF Desks
  <2> HIDE DEF d
  <2>4. SoundDesk(desk') /\ ToSet(desk'.list) \subseteq rows'
    <3>1. SoundDesk(Refreshed(Db', d)) /\ ToSet(Refreshed(Db', d).list) \subseteq Db'.rows
      BY <2>3, RefreshedSound
    <3> QED BY <2>2, <3>1 DEF Db
  <2>5. DeskTyped' /\ OneDialog'
    BY <1>3, <2>1, <2>4 DEF DeskInv, DeskTyped, OneDialog, SoundDesk
  <2>6. Newcomers' \cap rows' = {} /\ Newcomers' \cap ToSet(desk'.list) = {}
    BY <2>1, <2>4 DEF DeskInv, NewToAll
  <2> QED BY <1>3, <2>1, <2>4, <2>5, <2>6, NoPickerStep
<1>6. ASSUME AnswerNo
      PROVE  DeskInv'
  <2>1. /\ UNCHANGED <<rows, fav, member, collections, onDisk, unscanned, desk, popup>> /\ asked' = NoAsk
    BY <1>6 DEF AnswerNo, Tap, scanner, deskStore
  <2>2. asked.kind \in {"trash", "name"} => popup.kind # "picker"
    BY <1>3 DEF DeskInv, OneDialog
  <2>3. DeskTyped' /\ OneDialog'
    BY <1>3, <2>1 DEF DeskInv, DeskTyped, OneDialog
  <2>4. Newcomers' \cap rows' = {} /\ Newcomers' \cap ToSet(desk'.list) = {}
    BY <2>1 DEF DeskInv, NewToAll, Newcomers
  <2>5. asked.kind \in {"trash", "name"}
    BY <1>6 DEF AnswerNo, DeskInv, DeskTyped
  <2> QED BY <1>1, <2>1, <2>2, <2>3, <2>4, <2>5, NoPickerStep
<1>7. ASSUME Favor
      PROVE  DeskInv'
  <2> DEFINE d == IF desk.marked = {} THEN desk ELSE Unmarked(desk)
  <2>1. /\ UNCHANGED <<rows, member, collections, onDisk, unscanned, popup, asked>> /\ popup = NoPopup
    BY <1>7 DEF Favor, Keyed, Tap, scanner
  <2>2. desk' = Synced(Refreshed(Db', d))
    BY <1>7 DEF Favor
  <2>3. d \in Desks /\ (d.anchor = -1 => d.marked = d.base)
    BY <1>1, <1>2 DEF SoundDesk
  <2> HIDE DEF d
  <2>4. SoundDesk(desk') /\ ToSet(desk'.list) \subseteq rows'
    <3>1. SoundDesk(Refreshed(Db', d)) /\ ToSet(Refreshed(Db', d).list) \subseteq Db'.rows
      BY <2>3, RefreshedSound
    <3> QED BY <2>2, <3>1, SyncedSound DEF Db
  <2>5. DeskTyped' /\ OneDialog'
    BY <2>1, <2>4 DEF DeskInv, DeskTyped, OneDialog, SoundDesk
  <2>6. Newcomers' \cap rows' = {} /\ Newcomers' \cap ToSet(desk'.list) = {}
    BY <2>1, <2>4 DEF DeskInv, NewToAll, Newcomers
  <2> QED BY <1>3, <2>1, <2>4, <2>5, <2>6, NoPickerStep
<1> QED BY <1>4, <1>5, <1>6, <1>7

\* Collections made, renamed, left and dropped.
LEMMA DeskCollections ==
    ASSUME DeskInv
    PROVE  /\ BeginNew => DeskInv'
           /\ BeginRename => DeskInv'
           /\ \A n \in Names \cup {""} : EnterName(n) => DeskInv'
           /\ AnswerName => DeskInv'
           /\ ClosePopup => DeskInv'
           /\ DropFromShelf => DeskInv'
<1>1. SoundDesk(desk) /\ desk \in Desks /\ TicksTrue
  BY DeskInvIs DEF DeskInv, SoundDesk
<1>2. NoPopup.kind = "none" /\ NoAsk.kind = "none"
  BY DEF NoPopup, NoAsk
<1>3. ASSUME NEW w \in Names \cup {""}, popup' = [kind |-> "name", from |-> w],
             UNCHANGED <<deskStore, desk, asked, unscanned>>, asked = NoAsk
      PROVE  DeskInv'
  <2>1. popup' \in Editors /\ popup'.kind = "name"
    BY <1>3 DEF Editors
  <2>2. DeskTyped' /\ OneDialog'
    BY <1>2, <1>3, <2>1 DEF DeskInv, DeskTyped, OneDialog, deskStore
  <2>3. Newcomers' \cap rows' = {} /\ Newcomers' \cap ToSet(desk'.list) = {}
    BY <1>3 DEF DeskInv, NewToAll, Newcomers, deskStore
  <2> QED BY <1>1, <1>3, <2>1, <2>2, <2>3, NoPickerStep
<1>4. ASSUME BeginNew
      PROVE  DeskInv'
  BY <1>3, <1>4 DEF BeginNew, Keyed, Tap, scanner
<1>5. ASSUME BeginRename
      PROVE  DeskInv'
  <2>1. /\ popup' = [kind |-> "name", from |-> desk.view] /\ asked = NoAsk /\ desk.view \in Names
        /\ UNCHANGED <<deskStore, desk, asked, unscanned>>
    BY <1>5 DEF BeginRename, Keyed, Tap, scanner
  <2> QED BY <1>3, <2>1
<1>6. ASSUME NEW old \in Names \cup {""}, NEW new \in Names \cup {""}, Committing(old, new),
             unscanned' = unscanned
      PROVE  DeskInv'
  <2> DEFINE d == IF new = "" THEN desk ELSE [desk EXCEPT !.sideNew = FALSE, !.view = new, !.sel = 0]
  <2>1. /\ popup' = NoPopup /\ asked' = NoAsk /\ UNCHANGED <<rows, fav, onDisk>>
        /\ desk' = Refreshed(Db', d)
    BY <1>6 DEF Committing, RefreshDesk
  <2>2. collections' \subseteq Names
    <3>1. collections \subseteq Names /\ (new # "" => new \in Names)
      BY DEF DeskInv, DeskTyped
    <3> QED BY <1>6, <3>1 DEF Committing
  <2>3. member' \subseteq Volumes \X Names
    <3>1. member \subseteq Volumes \X Names /\ (new # "" => new \in Names)
      BY DEF DeskInv, DeskTyped
    <3> DEFINE kept == {m \in member : m[2] # old}
               renamed == {<<m[1], new>> : m \in member \ kept}
    <3>2. kept \subseteq Volumes \X Names
      BY <3>1
    <3>3. new # "" => renamed \subseteq Volumes \X Names
      <4> SUFFICES ASSUME new # "", NEW r \in renamed PROVE r \in Volumes \X Names
        OBVIOUS
      <4>1. PICK m \in member : r = <<m[1], new>>
        OBVIOUS
      <4>2. m \in Volumes \X Names
        BY <3>1
      <4>3. m[1] \in Volumes
        BY <4>2
      <4>4. <<m[1], new>> \in Volumes \X Names
        BY <3>1, <4>3
      <4> QED BY <4>1, <4>4
    <3>4. member' = IF old = "" \/ new = old THEN member
                    ELSE IF new = "" THEN kept ELSE kept \cup renamed
      BY <1>6 DEF Committing
    <3> HIDE DEF kept, renamed
    <3> QED BY <3>1, <3>2, <3>3, <3>4
  <2>4. d \in Desks /\ (d.anchor = -1 => d.marked = d.base)
    BY <1>1 DEF SoundDesk, Desks, Views
  <2> HIDE DEF d
  <2>5. SoundDesk(desk') /\ ToSet(desk'.list) \subseteq rows'
    <3>1. SoundDesk(Refreshed(Db', d)) /\ ToSet(Refreshed(Db', d).list) \subseteq Db'.rows
      BY <2>4, RefreshedSound
    <3> QED BY <2>1, <3>1 DEF Db
  <2>6. DeskTyped' /\ OneDialog'
    BY <1>2, <2>1, <2>2, <2>3, <2>5 DEF DeskInv, DeskTyped, OneDialog, SoundDesk
  <2>7. Newcomers' \cap rows' = {} /\ Newcomers' \cap ToSet(desk'.list) = {}
    BY <1>6, <2>1, <2>5 DEF DeskInv, NewToAll, Newcomers
  <2> QED BY <1>2, <2>1, <2>5, <2>6, <2>7, NoPickerStep
<1>7. popup.kind = "name" => popup \in Editors /\ popup.from \in Names \cup {""}
  BY <1>2 DEF DeskInv, DeskTyped, Editors, Pickers
<1>8. ASSUME NEW n \in Names \cup {""}, EnterName(n)
      PROVE  DeskInv'
  <2>1. asked = NoAsk /\ popup.kind = "name" /\ unscanned' = unscanned
    BY <1>8 DEF EnterName, Tap, scanner
  <2>2. CASE popup.from = ""
    <3>1. Committing("", n)
      BY <1>8, <2>2 DEF EnterName
    <3> QED BY <1>6, <2>1, <3>1
  <2>3. CASE popup.from # ""
    <3>1. asked' = [kind |-> "name", name |-> n] /\ UNCHANGED <<deskStore, desk, popup>>
      BY <1>8, <2>3 DEF EnterName
    <3>2. DeskTyped' /\ OneDialog'
      BY <2>1, <3>1 DEF DeskInv, DeskTyped, OneDialog, deskStore
    <3>3. Newcomers' \cap rows' = {} /\ Newcomers' \cap ToSet(desk'.list) = {}
      BY <2>1, <3>1 DEF DeskInv, NewToAll, Newcomers, deskStore
    <3> QED BY <1>1, <2>1, <3>1, <3>2, <3>3, NoPickerStep
  <2> QED BY <2>2, <2>3
<1>9. ASSUME AnswerName
      PROVE  DeskInv'
  <2>1. asked.kind = "name" /\ Committing(popup.from, asked.name) /\ unscanned' = unscanned
    BY <1>9 DEF AnswerName, Tap, scanner
  <2>2. popup.from \in Names \cup {""} /\ asked.name \in Names \cup {""}
    BY <1>2, <1>7, <2>1 DEF DeskInv, DeskTyped, OneDialog
  <2> QED BY <1>6, <2>1, <2>2
<1>10. ASSUME ClosePopup
       PROVE  DeskInv'
  <2> DEFINE d == IF Cardinality(popup.targets) > 1 THEN Unmarked(desk) ELSE desk
  <2>1. /\ popup' = NoPopup /\ UNCHANGED <<rows, fav, member, collections, onDisk, asked, unscanned>>
        /\ asked = NoAsk /\ (desk' = desk \/ desk' = Refreshed(Db', d))
    BY <1>10 DEF ClosePopup, Tap, scanner, deskStore, RefreshDesk
  <2>2. SoundDesk(d)
    BY <1>1, UnmarkedSound
  <2> HIDE DEF d
  <2>3. SoundDesk(desk') /\ ToSet(desk'.list) \subseteq ToSet(desk.list) \cup rows'
    <3>1. SoundDesk(Refreshed(Db', d)) /\ ToSet(Refreshed(Db', d).list) \subseteq Db'.rows
      BY <2>2, RefreshedSound DEF SoundDesk
    <3> QED BY <1>1, <2>1, <3>1 DEF Db
  <2>4. DeskTyped' /\ OneDialog'
    BY <1>2, <2>1, <2>3 DEF DeskInv, DeskTyped, OneDialog, SoundDesk
  <2>5. Newcomers' \cap rows' = {} /\ Newcomers' \cap ToSet(desk'.list) = {}
    BY <2>1, <2>3 DEF DeskInv, NewToAll, Newcomers
  <2> QED BY <1>2, <2>1, <2>3, <2>4, <2>5, NoPickerStep
<1>11. ASSUME DropFromShelf
       PROVE  DeskInv'
  <2>1. /\ UNCHANGED <<rows, fav, collections, onDisk, unscanned, popup, asked>> /\ popup = NoPopup
        /\ member' \subseteq member /\ desk' = Synced(Refreshed(Db', desk))
    BY <1>11 DEF DropFromShelf, Keyed, Tap, scanner
  <2>2. SoundDesk(desk') /\ ToSet(desk'.list) \subseteq rows'
    <3>1. SoundDesk(Refreshed(Db', desk)) /\ ToSet(Refreshed(Db', desk).list) \subseteq Db'.rows
      BY <1>1, RefreshedSound DEF SoundDesk
    <3> QED BY <2>1, <3>1, SyncedSound DEF Db
  <2>3. DeskTyped' /\ OneDialog'
    BY <2>1, <2>2 DEF DeskInv, DeskTyped, OneDialog, SoundDesk
  <2>4. Newcomers' \cap rows' = {} /\ Newcomers' \cap ToSet(desk'.list) = {}
    BY <2>1, <2>2 DEF DeskInv, NewToAll, Newcomers
  <2> QED BY <1>2, <2>1, <2>2, <2>3, <2>4, NoPickerStep
<1> QED BY <1>4, <1>5, <1>8, <1>9, <1>10, <1>11

\* A step of an open picker, the desk as it was.
LEMMA PickerStep ==
    ASSUME DeskInv, desk' = desk, asked' = asked, asked = NoAsk, Newcomers' = Newcomers, rows' = rows,
           popup' \in Pickers, popup'.targets \cap Newcomers = {},
           member' \subseteq Volumes \X Names, collections' \subseteq Names,
           ToSet(popup'.shelves) = collections', popup'.ticks = Ticked(Db', popup'.targets)
              \/ ~ (popup'.targets \subseteq rows)
    PROVE  DeskInv'
<1>1. SoundDesk(desk) /\ desk \in Desks
  BY DeskInvIs DEF DeskInv, SoundDesk
<1>2. NoPopup.kind = "none" /\ NoAsk.kind = "none" /\ popup'.kind = "picker"
  BY DEF NoPopup, NoAsk, Pickers
<1>3. DeskTyped'
  BY <1>2 DEF DeskInv, DeskTyped
<1>4. OneDialog' /\ PickerListsAll' /\ NewToAll' /\ TicksTrue'
  BY <1>2 DEF DeskInv, OneDialog, PickerListsAll, NewToAll, TicksTrue
<1>5. DeskTyped' => (DeskShowsStore' <=> (SoundDesk(desk)' /\ TicksTrue'))
  BY DeskInvIs, PTL
<1>6. SoundDesk(desk)'
  BY <1>1 DEF SoundDesk, Desks, Ring, Views, Names, Volumes, ToSet
<1> QED BY <1>3, <1>4, <1>5, <1>6 DEF DeskInv

\* The picker.
LEMMA DeskPicks ==
    ASSUME DeskInv
    PROVE  /\ OpenPicker => DeskInv'
           /\ \A n \in {-1, 1} : PickerMove(n) => DeskInv'
           /\ TogglePicked => DeskInv'
           /\ \A n \in Names : PickNew(n) => DeskInv'
<1>1. SoundDesk(desk) /\ desk \in Desks /\ TicksTrue /\ DeskTyped /\ ByName \in Seq(Names)
  BY DeskInvIs, DeskAssumption DEF DeskInv, SoundDesk, Names
<1>2. popup.kind = "picker" =>
        /\ popup \in Pickers /\ popup.targets \cap Newcomers = {}
        /\ ToSet(popup.shelves) = collections
        /\ popup.shelves \in Seq(Names) /\ Len(popup.shelves) \in Nat /\ popup.at \in Nat
        /\ popup.targets \in SUBSET Volumes /\ popup.targets # {} /\ popup.ticks \in SUBSET Names
  <2>1. popup.kind = "picker" => popup \in Pickers
    <3>1. popup \in Pickers \cup Editors \cup {NoPopup}
      BY <1>1 DEF DeskTyped
    <3>2. NoPopup.kind = "none" /\ \A e \in Editors : e.kind = "name"
      BY DEF NoPopup, Editors
    <3> QED BY <3>1, <3>2
  <2> QED BY <2>1 DEF DeskInv, NewToAll, PickerListsAll, Pickers
<1>3. collections \subseteq Names /\ member \subseteq Volumes \X Names /\ rows \subseteq Volumes
  BY DEF DeskInv, DeskTyped
<1>4. ASSUME NEW bs, NEW c, c \subseteq Names
      PROVE  \A db : db.collections = c => /\ Shelves(db) \in Seq(Names) /\ ToSet(Shelves(db)) = c
                                           /\ Ticked(db, bs) \in SUBSET Names
  <2>1. Retained(ByName, c) \in Seq(Names) /\ ToSet(Retained(ByName, c)) = Names \cap c
    BY <1>1, KeptIs DEF Names
  <2> QED BY <1>4, <2>1 DEF Shelves, Ticked
<1>5. ASSUME OpenPicker
      PROVE  DeskInv'
  <2> DEFINE bs == IF desk.marked = {} THEN Cursor(desk) ELSE ToSet(Marked(desk))
             p == [kind |-> "picker", targets |-> bs, shelves |-> Shelves(Db),
                   ticks |-> Ticked(Db, bs), at |-> 0]
  <2>1. /\ UNCHANGED <<rows, fav, member, collections, onDisk, unscanned, desk, asked>> /\ asked = NoAsk
        /\ bs # {} /\ popup' = p
    BY <1>5 DEF OpenPicker, Keyed, Tap, scanner, deskStore
  <2>2. bs \in SUBSET Volumes /\ bs \subseteq ToSet(desk.list)
    BY <1>1, CursorIn, MarkedIn
  <2> HIDE DEF bs
  <2>3. Shelves(Db) \in Seq(Names) /\ ToSet(Shelves(Db)) = collections /\ Ticked(Db, bs) \in SUBSET Names
    BY <1>3, <1>4 DEF Db
  <2>4. p \in Pickers /\ p.targets = bs /\ p.shelves = Shelves(Db) /\ p.ticks = Ticked(Db, bs)
    BY <2>1, <2>2, <2>3 DEF Pickers
  <2> HIDE DEF p
  <2>5. bs \cap Newcomers = {}
    BY <2>2 DEF DeskInv, NewToAll
  <2>6. Newcomers' = Newcomers /\ Db' = Db
    BY <2>1 DEF Newcomers, Db
  <2> QED BY <1>3, <2>1, <2>3, <2>4, <2>5, <2>6, PickerStep
<1>6. ASSUME NEW n \in {-1, 1}, PickerMove(n)
      PROVE  DeskInv'
  <2> DEFINE i == Clamp(popup.at + n, Len(popup.shelves) + 1)
  <2>1. /\ UNCHANGED <<rows, fav, member, collections, onDisk, unscanned, desk, asked>> /\ asked = NoAsk
        /\ popup.kind = "picker" /\ popup' = [popup EXCEPT !.at = i]
    BY <1>6 DEF PickerMove, Tap, scanner, deskStore
  <2>2. i \in Nat
    <3>1. popup.at + n \in Int /\ Len(popup.shelves) + 1 \in Nat
      BY <1>2, <2>1
    <3> QED BY <3>1, ClampedIs
  <2> HIDE DEF i
  <2>3. popup' \in Pickers /\ popup'.targets = popup.targets /\ popup'.shelves = popup.shelves /\ popup'.ticks = popup.ticks
    BY <1>2, <2>1, <2>2 DEF Pickers
  <2>4. Newcomers' = Newcomers /\ Db' = Db
    BY <2>1 DEF Newcomers, Db
  <2>5. popup.ticks = Ticked(Db, popup.targets) \/ ~ (popup.targets \subseteq rows)
    BY <1>1, <1>2, <2>1 DEF TicksTrue
  <2> QED BY <1>2, <1>3, <2>1, <2>3, <2>4, <2>5, PickerStep
<1>7. ASSUME TogglePicked
      PROVE  DeskInv'
  <2> DEFINE n == popup.shelves[popup.at + 1]
             these == {<<b, n>> : b \in popup.targets}
             t == SymDiff(popup.ticks, {n})
  <2>1. /\ UNCHANGED <<rows, fav, onDisk, unscanned, desk, asked>> /\ asked = NoAsk
        /\ popup.kind = "picker" /\ popup.at < Len(popup.shelves)
        /\ popup' = [popup EXCEPT !.ticks = t]
        /\ member' = (IF n \in popup.ticks THEN member \ these ELSE member \cup these)
        /\ collections' = collections \cup (IF n \in popup.ticks THEN {} ELSE {n})
    BY <1>7 DEF TogglePicked, Tap, scanner, Flipped
  <2>2. n \in Names /\ n \in collections
    <3>1. popup.at + 1 \in 1 .. Len(popup.shelves)
      BY <1>2, <2>1
    <3> QED BY <1>2, <1>3, <2>1, <3>1 DEF ToSet
  <2> HIDE DEF n
  <2>3. t \in SUBSET Names /\ \A m : m \in t <=> (m \in popup.ticks /\ m # n) \/ (m = n /\ m \notin popup.ticks)
    BY <1>2, <2>1, <2>2 DEF SymDiff
  <2> HIDE DEF t
  <2>4. popup' \in Pickers /\ popup'.targets = popup.targets /\ popup'.shelves = popup.shelves /\ popup'.ticks = t
    BY <1>2, <2>1, <2>3 DEF Pickers
  <2>5. these \subseteq Volumes \X Names
    BY <1>2, <2>1, <2>2
  <2>6. \A b \in popup.targets : \A m : <<b, m>> \in these <=> m = n
    OBVIOUS
  <2> HIDE DEF these
  <2>7. collections' = collections /\ member' \subseteq Volumes \X Names
    BY <1>3, <2>1, <2>2, <2>5
  <2>8. ASSUME popup.targets \subseteq rows
        PROVE  t = Ticked(Db', popup.targets)
    <3>1. popup.ticks = Ticked(Db, popup.targets)
      BY <1>1, <1>2, <2>1, <2>8 DEF TicksTrue
    <3>2. \A m : m \in popup.ticks <=> m \in collections /\ \A b \in popup.targets : <<b, m>> \in member
      BY <3>1 DEF Ticked, Db
    <3>3. \A m : m \in Ticked(Db', popup.targets) <=>
                    m \in collections /\ \A b \in popup.targets : <<b, m>> \in member'
      BY <2>7 DEF Ticked, Db
    <3>4. PICK a \in popup.targets : TRUE
      BY <1>2, <2>1
    <3>5. ASSUME NEW m PROVE m \in t <=> m \in Ticked(Db', popup.targets)
      <4>1. CASE m = n /\ n \in popup.ticks
        <5>1. <<a, m>> \notin member'
          BY <2>1, <2>6, <3>4, <4>1
        <5> QED BY <2>3, <3>3, <3>4, <4>1, <5>1
      <4>2. CASE m = n /\ n \notin popup.ticks
        <5>1. \A b \in popup.targets : <<b, m>> \in member'
          BY <2>1, <2>6, <4>2
        <5> QED BY <2>2, <2>3, <3>3, <4>2, <5>1
      <4>3. CASE m # n
        <5>1. \A b \in popup.targets : <<b, m>> \in member' <=> <<b, m>> \in member
          BY <2>1, <2>6, <4>3
        <5> QED BY <2>3, <3>2, <3>3, <4>3, <5>1
      <4> QED BY <4>1, <4>2, <4>3
    <3> QED BY <3>5
  <2>9. Newcomers' = Newcomers
    BY <2>1 DEF Newcomers
  <2> QED BY <1>2, <1>3, <2>1, <2>4, <2>7, <2>8, <2>9, PickerStep
<1>8. ASSUME NEW n \in Names, PickNew(n)
      PROVE  DeskInv'
  <2> DEFINE bs == popup.targets
             i == Clamp(popup.at, Len(Shelves(Db')) + 1)
             p == [popup EXCEPT !.shelves = Shelves(Db'), !.ticks = Ticked(Db', bs), !.at = i]
  <2>1. /\ UNCHANGED <<rows, fav, onDisk, unscanned, desk, asked>> /\ asked = NoAsk
        /\ popup.kind = "picker" /\ popup' = p
        /\ member' = member \cup {<<b, n>> : b \in bs} /\ collections' = collections \cup {n}
    BY <1>8 DEF PickNew, Tap, scanner
  <2>2. collections' \subseteq Names /\ member' \subseteq Volumes \X Names
    BY <1>2, <1>3, <2>1
  <2>3. Db'.collections = collections'
    BY DEF Db
  <2>4. Shelves(Db') \in Seq(Names) /\ ToSet(Shelves(Db')) = collections' /\ Ticked(Db', bs) \in SUBSET Names
    BY <1>4, <2>2, <2>3
  <2>5. i \in Nat
    <3>1. Len(Shelves(Db')) + 1 \in Nat /\ popup.at \in Int
      BY <1>2, <2>1, <2>4
    <3> QED BY <3>1, ClampedIs
  <2> HIDE DEF i
  <2>6. p \in Pickers /\ p.targets = bs /\ p.shelves = Shelves(Db') /\ p.ticks = Ticked(Db', bs)
    BY <1>2, <2>1, <2>4, <2>5 DEF Pickers
  <2> HIDE DEF p
  <2>7. Newcomers' = Newcomers
    BY <2>1 DEF Newcomers
  <2> QED BY <1>2, <2>1, <2>2, <2>4, <2>6, <2>7, PickerStep
<1> QED BY <1>5, <1>6, <1>7, <1>8

\* A scan's new row.
LEMMA DeskScans ==
    ASSUME DeskInv, NEW b \in Volumes, ScanBook(b)
    PROVE  DeskInv'
<1>1. SoundDesk(desk) /\ desk \in Desks /\ TicksTrue
  BY DeskInvIs DEF DeskInv, SoundDesk
<1>2. /\ UNCHANGED <<collections, onDisk, desk, popup, asked>> /\ b \in unscanned
      /\ unscanned' = unscanned \ {b}
      /\ rows' = (IF b \in onDisk THEN rows \cup {b} ELSE rows \ {b})
      /\ member' = (IF b \in onDisk THEN member ELSE {m \in member : m[1] # b})
  BY DEF ScanBook, Removed
<1>3. rows' \subseteq Volumes /\ member' \subseteq member
  BY <1>2 DEF DeskInv, DeskTyped
<1>4. DeskTyped' /\ OneDialog' /\ PickerListsAll'
  BY <1>2, <1>3 DEF DeskInv, DeskTyped, OneDialog, PickerListsAll
<1>5. Newcomers' \subseteq Newcomers /\ b \notin Newcomers' /\ (b \in onDisk => b \in Newcomers)
  BY <1>2 DEF Newcomers
<1>6. NewToAll'
  BY <1>2, <1>5 DEF DeskInv, NewToAll
<1>7. TicksTrue'
  <2> SUFFICES ASSUME popup.kind = "picker", popup.targets \subseteq rows', collections = ToSet(popup.shelves)
               PROVE  popup.ticks = Ticked(Db', popup.targets)
    BY <1>2 DEF TicksTrue
  <2>1. b \notin popup.targets
    BY <1>2, <1>5 DEF DeskInv, NewToAll
  <2>2. popup.ticks = Ticked(Db, popup.targets)
    BY <1>1, <1>2, <2>1 DEF TicksTrue
  <2>3. \A a \in popup.targets : \A n : <<a, n>> \in member' <=> <<a, n>> \in member
    BY <1>2, <2>1
  <2>4. Ticked(Db', popup.targets) = Ticked(Db, popup.targets)
    BY <1>2, <2>3 DEF Ticked, Db
  <2> QED BY <2>2, <2>4
<1>8. DeskTyped' => (DeskShowsStore' <=> (SoundDesk(desk)' /\ TicksTrue'))
  BY DeskInvIs, PTL
<1>9. SoundDesk(desk)'
  BY <1>1, <1>2 DEF SoundDesk, Desks, Ring, Views, Names, Volumes, ToSet
<1> QED BY <1>4, <1>6, <1>7, <1>8, <1>9 DEF DeskInv

(* Whatever the keys, the mouse, the dialogs, the trash and a scan do in   *)
(* whatever order, the desk keeps its invariant.                           *)
THEOREM DeskInvariance == DeskSpec => []DeskInv
<1>1. ASSUME DeskInv, DeskNext PROVE DeskInv'
  <2>1. CASE \E n \in {-2, -1, 1, 2} : Move(n)
    BY <1>1, <2>1, DeskMoves
  <2>2. CASE ToggleVisual \/ ToggleMark \/ MarkAll \/ StartFilter \/ \E i \in 0 .. Len(ByTitle) : Click(i)
    BY <1>1, <2>2, DeskMoves
  <2>3. CASE EscKey \/ SortKeys \/ RefreshAfterScan \/ (\E i \in 0 .. (Len(ByName) + 2) : SetView(i))
             \/ \E typing \in BOOLEAN : FilterKey(typing)
    BY <1>1, <2>3, DeskRefreshes
  <2>4. CASE Favor \/ AskTrash \/ AnswerNo \/ \E moved \in SUBSET Volumes : TrashBooks(moved)
    BY <1>1, <2>4, DeskTrash
  <2>5. CASE BeginNew \/ BeginRename \/ AnswerName \/ ClosePopup \/ DropFromShelf
             \/ \E n \in Names \cup {""} : EnterName(n)
    BY <1>1, <2>5, DeskCollections
  <2>6. CASE OpenPicker \/ TogglePicked \/ (\E n \in {-1, 1} : PickerMove(n)) \/ \E n \in Names : PickNew(n)
    BY <1>1, <2>6, DeskPicks
  <2>7. CASE \E b \in Volumes : ScanBook(b)
    BY <1>1, <2>7, DeskScans
  <2> QED BY <1>1, <2>1, <2>2, <2>3, <2>4, <2>5, <2>6, <2>7, Zenon DEF DeskNext
<1>2. ASSUME DeskInv, UNCHANGED deskVars PROVE DeskInv'
  <2>1. UNCHANGED <<deskStore, popup, asked, desk, unscanned>>
    BY <1>2 DEF deskVars, scanner
  <2>2. Newcomers' \subseteq Newcomers
    BY <2>1 DEF Newcomers, deskStore
  <2>3. SoundDesk(desk') /\ ToSet(desk'.list) \subseteq ToSet(desk.list) \cup rows
    BY <1>2, <2>1, DeskInvIs DEF DeskInv
  <2> QED BY <1>2, <2>1, <2>2, <2>3, DeskStep
<1> QED BY <1>1, <1>2, DeskStarts, PTL DEF DeskSpec

(* app/library: no list, mark, picker or dialog of the desk speaks of a book *)
(* or a collection the store does not have, and the cursor is on the list. *)
THEOREM TheDeskShowsTheStore == DeskSpec => []DeskShowsStore
<1>1. DeskInv => DeskShowsStore
  BY DEF DeskInv
<1> QED BY <1>1, DeskInvariance, PTL

-----------------------------------------------------------------------------
(* Reading on.                                                               *)

\* The assumption of the constants, in parts.
LEMMA Sizes ==
    /\ LastChapter \in Nat /\ PageLines \in Nat \ {0}
    /\ \A w \in Widths, c \in Chapters : Wrapped[w][c] \in Nat \ {0}
    /\ Reserved \subseteq Nat
    /\ Chapters \subseteq Nat /\ 0 \in Chapters /\ LastChapter \in Chapters
BY FlowAssumption DEF Chapters

\* The chapters before and after one.
LEMMA ChapterSteps ==
    ASSUME NEW c \in Chapters
    PROVE  /\ c \in Nat /\ c <= LastChapter
           /\ c < LastChapter => c + 1 \in Chapters
           /\ c # 0 => c - 1 \in Chapters
           /\ LastChapter - c \in 0 .. LastChapter
BY FlowAssumption DEF Chapters

\* What Before's recursion asks of its answers.
CountsLines(f, w) == f = [k \in Chapters |-> IF k = 0 THEN 0 ELSE f[k - 1] + Wrapped[w][k - 1]]
\* The lines before a chapter are counted chapter by chapter.
LEMMA CountsThere ==
    ASSUME NEW w \in Widths
    PROVE  \E f : CountsLines(f, w)
<1> DEFINE Upto(f, k) == \A c \in 0 .. k : f[c] = IF c = 0 THEN 0 ELSE f[c - 1] + Wrapped[w][c - 1]
           Bad == {k \in Nat : ~ \E f : Upto(f, k)}
<1>1. Bad = {}
  <2> SUFFICES ASSUME Bad # {} PROVE FALSE
    OBVIOUS
  <2>1. PICK k \in Bad : \A j \in Bad : k <= j
    <3>1. Bad \in SUBSET Nat
      OBVIOUS
    <3> QED BY <3>1, LeastElement
  <2>2. k # 0
    <3> DEFINE zero == [c \in 0 .. 0 |-> 0]
    <3>1. Upto(zero, 0)
      OBVIOUS
    <3> QED BY <2>1, <3>1
  <2>3. k - 1 \in Nat /\ k - 1 \notin Bad
    <3>1. k \in Nat /\ k - 1 \in Nat
      BY <2>1, <2>2
    <3>2. k - 1 \notin Bad
      <4> HIDE DEF Bad
      <4> QED BY <2>1, <3>1
    <3> QED BY <3>1, <3>2
  <2>4. PICK g : Upto(g, k - 1)
    BY <2>3
  <2> DEFINE h == [c \in 0 .. k |-> IF c = k THEN g[k - 1] + Wrapped[w][k - 1] ELSE g[c]]
  <2>5. Upto(h, k)
    <3> SUFFICES ASSUME NEW c \in 0 .. k
                 PROVE  h[c] = IF c = 0 THEN 0 ELSE h[c - 1] + Wrapped[w][c - 1]
      OBVIOUS
    <3>1. k \in Nat /\ c \in Nat /\ c <= k /\ k # 0
      BY <2>1, <2>2
    <3>2. c # 0 => h[c - 1] = g[c - 1]
      BY <3>1
    <3>3. CASE c = k
      BY <3>1, <3>2, <3>3
    <3>4. CASE c < k
      <4>1. c \in 0 .. (k - 1) /\ h[c] = g[c]
        BY <3>1, <3>4
      <4> QED BY <2>4, <3>2, <4>1
    <3> QED BY <3>1, <3>3, <3>4
  <2> QED BY <2>1, <2>5
<1>2. PICK f : Upto(f, LastChapter)
  <2>1. LastChapter \in Nat
    BY Sizes
  <2>2. LastChapter \notin Bad
    <3> HIDE DEF Bad
    <3> QED BY <1>1
  <2> QED BY <2>1, <2>2
<1> DEFINE s == [c \in Chapters |-> f[c]]
<1>3. \A c \in Chapters : s[c] = IF c = 0 THEN 0 ELSE s[c - 1] + Wrapped[w][c - 1]
  <2> TAKE c \in Chapters
  <2>1. c \in 0 .. LastChapter
    BY DEF Chapters
  <2>2. c # 0 => c - 1 \in Chapters
    BY ChapterSteps
  <2> QED BY <1>2, <2>1, <2>2
<1>4. s = [c \in Chapters |-> s[c]]
  OBVIOUS
<1> HIDE DEF s
<1>5. CountsLines(s, w)
  BY <1>3, <1>4 DEF CountsLines
<1> QED BY <1>5

\* What Before counts.
LEMMA BeforeIs ==
    ASSUME NEW w \in Widths
    PROVE  /\ Before(w, 0) = 0
           /\ \A c \in Chapters : c # 0 => Before(w, c) = Before(w, c - 1) + Wrapped[w][c - 1]
           /\ \A c \in Chapters : Before(w, c) \in Nat
<1> DEFINE f == CHOOSE f : CountsLines(f, w)
<1>1. \A c \in Chapters : Before(w, c) = f[c]
  BY DEF Before, CountsLines
<1>2. CountsLines(f, w)
  <2>1. \E g : CountsLines(g, w)
    BY CountsThere
  <2> QED BY <2>1
<1> HIDE DEF f
<1>3. \A c \in Chapters : f[c] = IF c = 0 THEN 0 ELSE f[c - 1] + Wrapped[w][c - 1]
  BY <1>2 DEF CountsLines
<1>4. \A c \in Chapters : c # 0 => c - 1 \in Chapters
  BY ChapterSteps
<1>5. \A c \in Chapters : f[c] \in Nat
  <2> DEFINE Bad == {c \in Chapters : f[c] \notin Nat}
  <2> SUFFICES ASSUME Bad # {} PROVE FALSE
    OBVIOUS
  <2>1. PICK c \in Bad : \A d \in Bad : c <= d
    <3>1. Bad \in SUBSET Nat
      BY Sizes
    <3> QED BY <3>1, LeastElement
  <2>2. c \in Nat /\ c \in Chapters /\ c # 0
    BY <1>3, <2>1, ChapterSteps
  <2>3. c - 1 \in Chapters /\ c - 1 \notin Bad
    BY <1>4, <2>1, <2>2
  <2>4. Wrapped[w][c - 1] \in Nat
    BY <2>3, Sizes
  <2> QED BY <1>3, <2>1, <2>2, <2>3, <2>4
<1> QED BY <1>1, <1>3, <1>4, <1>5, Sizes

\* A chapter begins after the lines of every earlier one.
LEMMA BeforeGrows ==
    ASSUME NEW w \in Widths, NEW a \in Chapters, NEW b \in Chapters, a < b
    PROVE  Before(w, a) + Wrapped[w][a] <= Before(w, b)
<1> DEFINE Bad == {c \in Chapters : a < c /\ Before(w, c) < Before(w, a) + Wrapped[w][a]}
<1> SUFFICES ASSUME Bad # {} PROVE FALSE
  <2>1. b \notin Bad
    OBVIOUS
  <2>2. Before(w, a) \in Nat /\ Before(w, b) \in Nat /\ Wrapped[w][a] \in Nat
    BY BeforeIs, Sizes
  <2> QED BY <2>1, <2>2
<1>1. PICK c \in Bad : \A d \in Bad : c <= d
  <2>1. Bad \in SUBSET Nat
    BY Sizes
  <2> QED BY <2>1, LeastElement
<1>2. c \in Chapters /\ c \in Nat /\ a \in Nat /\ c # 0 /\ c - 1 \in Chapters /\ a < c
  BY <1>1, ChapterSteps
<1>3. Before(w, c) = Before(w, c - 1) + Wrapped[w][c - 1]
  BY <1>2, BeforeIs
<1>4. /\ Before(w, a) \in Nat /\ Before(w, c) \in Nat /\ Before(w, c - 1) \in Nat
      /\ Wrapped[w][a] \in Nat /\ Wrapped[w][c - 1] \in Nat
  BY <1>2, BeforeIs, Sizes
<1>5. CASE a = c - 1
  <2>1. Before(w, c) = Before(w, a) + Wrapped[w][a]
    BY <1>3, <1>5
  <2> QED BY <1>1, <1>4, <2>1
<1>6. CASE a < c - 1
  <2>1. c - 1 \notin Bad
    BY <1>1, <1>2
  <2> QED BY <1>1, <1>2, <1>3, <1>4, <1>6, <2>1
<1> QED BY <1>2, <1>5, <1>6

\* What a roll down carries: the chapter, the line in it, and its lines; and
\* what the recursion of RollDown asks.
Rolls == [c : Chapters, l : Nat, n : Nat]
RollsDown(f, short) ==
    f = [q \in Rolls |->
            IF q.c < LastChapter /\ q.l >= q.n
            THEN f[[c |-> q.c + 1, l |-> q.l - q.n, n |-> Entered(q.c + 1, short)]] ELSE q]

\* A chapter entered has a line, and its own lines if no figure is unsized.
LEMMA EnteredIs ==
    ASSUME measure \in Widths, NEW c \in Chapters, NEW short \in Nat
    PROVE  Entered(c, short) \in Nat \ {0} /\ (short = 0 => Entered(c, short) = Wrapped[measure][c])
BY Sizes DEF Entered, Greater

\* The recursion of RollDown has a solution, for the chapters run out.
LEMMA DownThere ==
    ASSUME measure \in Widths, NEW short \in Nat
    PROVE  \E f : RollsDown(f, short)
<1> DEFINE moves == {q \in Rolls : q.c < LastChapter /\ q.l >= q.n}
           after(q) == [c |-> q.c + 1, l |-> q.l - q.n, n |-> Entered(q.c + 1, short)]
           rank == [q \in Rolls |-> LastChapter - q.c]
           next == [q \in Rolls |-> after(q)]
           rest == [q \in Rolls |-> q]
<1>1. \A q \in Rolls : q.c \in Chapters /\ q.l \in Nat /\ q.n \in Nat
  BY DEF Rolls
<1>2. rank \in [Rolls -> 0 .. LastChapter]
  <2> SUFFICES ASSUME NEW q \in Rolls PROVE LastChapter - q.c \in 0 .. LastChapter
    OBVIOUS
  <2>1. q.c \in Chapters
    BY <1>1
  <2> QED BY <2>1, ChapterSteps
<1>3. \A q \in moves : after(q) \in Rolls /\ after(q).c = q.c + 1
  <2> TAKE q \in moves
  <2>1. q.c \in Chapters /\ q.c < LastChapter /\ q.l \in Nat /\ q.n \in Nat /\ q.l >= q.n
    BY <1>1
  <2>2. q.c + 1 \in Chapters
    BY <2>1, ChapterSteps
  <2>3. Entered(q.c + 1, short) \in Nat
    BY <2>2, EnteredIs
  <2>4. q.l - q.n \in Nat
    BY <2>1
  <2> QED BY <2>2, <2>3, <2>4 DEF Rolls
<1>4. \A q \in moves : next[q] \in Rolls /\ rank[next[q]] < rank[q]
  <2> TAKE q \in moves
  <2>1. next[q] = after(q) /\ after(q) \in Rolls /\ after(q).c = q.c + 1
    BY <1>3
  <2> HIDE DEF after
  <2>2. rank[after(q)] = LastChapter - (q.c + 1) /\ rank[q] = LastChapter - q.c
    BY <2>1
  <2>3. q.c \in Nat /\ LastChapter \in Nat
    BY <1>1, Sizes
  <2> QED BY <2>1, <2>2, <2>3
<1>5. PICK f : PassesOn(f, Rolls, moves, next, rest)
  <2>1. moves \in SUBSET Rolls /\ LastChapter \in Nat
    BY Sizes
  <2> HIDE DEF moves, after, rank, next, rest
  <2>2. \A q \in moves : next[q] \in Rolls /\ rank[next[q]] < rank[q]
    BY <1>4
  <2> QED BY <1>2, <2>1, <2>2, TailRecursion
<1>6. \A q \in Rolls : f[q] = IF q.c < LastChapter /\ q.l >= q.n THEN f[after(q)] ELSE q
  BY <1>5 DEF PassesOn
<1>7. f = [q \in Rolls |-> f[q]]
  <2> HIDE DEF moves, next, rest
  <2> QED BY <1>5 DEF PassesOn
<1>8. f = [q \in Rolls |-> IF q.c < LastChapter /\ q.l >= q.n THEN f[after(q)] ELSE q]
  BY <1>6, <1>7
<1> QED BY <1>8 DEF RollsDown

\* One step of a roll down.
LEMMA RollDownUnfolds ==
    ASSUME measure \in Widths, NEW short \in Nat, NEW q \in Rolls
    PROVE  RollDown(q, short) =
             IF q.c < LastChapter /\ q.l >= q.n
             THEN RollDown([c |-> q.c + 1, l |-> q.l - q.n, n |-> Entered(q.c + 1, short)], short)
             ELSE q
<1> DEFINE f == CHOOSE f : RollsDown(f, short)
<1>1. \A p : RollDown(p, short) = f[p]
  BY DEF RollDown, RollsDown, Rolls
<1>2. RollsDown(f, short)
  <2>1. \E g : RollsDown(g, short)
    BY DownThere
  <2> QED BY <2>1
<1> HIDE DEF f
<1>3. f[q] = IF q.c < LastChapter /\ q.l >= q.n
             THEN f[[c |-> q.c + 1, l |-> q.l - q.n, n |-> Entered(q.c + 1, short)]] ELSE q
  BY <1>2 DEF RollsDown
<1> QED BY <1>1, <1>3

(* Where a roll down ends: on a line of a chapter it reached, as many book  *)
(* lines on as it was sent.                                                 *)
RolledOn(q, r, short) ==
    /\ r \in Rolls /\ r.c >= q.c /\ r.n # 0
    /\ r.c = LastChapter \/ r.l < r.n
    /\ r.c = q.c => r = q
    /\ (short = 0 /\ q.n = Wrapped[measure][q.c]) =>
          /\ r.n = Wrapped[measure][r.c]
          /\ Before(measure, r.c) + r.l = Before(measure, q.c) + q.l
\* Every roll down ends so: else take one closest to the book's end that does
\* not.
LEMMA RollDownIs ==
    ASSUME measure \in Widths, NEW short \in Nat, NEW q \in Rolls, q.n # 0
    PROVE  RolledOn(q, RollDown(q, short), short)
<1> DEFINE Bad == {LastChapter - p.c : p \in {p \in Rolls : p.n # 0 /\ ~ RolledOn(p, RollDown(p, short), short)}}
<1>a. ASSUME NEW p \in Rolls PROVE p.c \in Chapters /\ p.l \in Nat /\ p.n \in Nat
  BY DEF Rolls
<1> SUFFICES ASSUME Bad # {} PROVE FALSE
  OBVIOUS
<1>1. PICK k \in Bad : \A j \in Bad : k <= j
  <2>1. \A p \in Rolls : LastChapter - p.c \in Nat
    BY <1>a, ChapterSteps
  <2>2. Bad \in SUBSET Nat
    BY <2>1
  <2> HIDE DEF Bad
  <2> QED BY <2>2, LeastElement
<1>2. PICK p \in Rolls : k = LastChapter - p.c /\ p.n # 0 /\ ~ RolledOn(p, RollDown(p, short), short)
  BY <1>1
<1>3. p.c \in Chapters /\ p.l \in Nat /\ p.n \in Nat
  BY <1>a
<1>4. p.c < LastChapter /\ p.l >= p.n
  <2> SUFFICES ASSUME ~ (p.c < LastChapter /\ p.l >= p.n) PROVE FALSE
    OBVIOUS
  <2>1. RollDown(p, short) = p
    BY RollDownUnfolds
  <2>2. p.c = LastChapter \/ p.l < p.n
    <3>1. p.c \in Nat /\ p.c <= LastChapter /\ LastChapter \in Nat
      BY <1>3, Sizes, ChapterSteps
    <3> HIDE DEF Bad
    <3> QED BY <1>3, <3>1
  <2>3. p.c >= p.c
    BY <1>3, ChapterSteps
  <2> QED BY <1>2, <2>1, <2>2, <2>3 DEF RolledOn
<1> DEFINE s == [c |-> p.c + 1, l |-> p.l - p.n, n |-> Entered(p.c + 1, short)]
<1>5. p.c + 1 \in Chapters /\ p.l - p.n \in Nat
  BY <1>3, <1>4, ChapterSteps
<1>6. s \in Rolls /\ s.n # 0 /\ s.c = p.c + 1 /\ s.l = p.l - p.n /\ s.n = Entered(p.c + 1, short)
  <2>1. Entered(p.c + 1, short) \in Nat \ {0}
    BY <1>5, EnteredIs
  <2> QED BY <1>5, <2>1 DEF Rolls
<1>7. RollDown(p, short) = RollDown(s, short)
  BY <1>4, RollDownUnfolds
<1> DEFINE r == RollDown(s, short)
<1> HIDE DEF s
<1>8. RolledOn(s, r, short)
  <2> SUFFICES ASSUME ~ RolledOn(s, r, short) PROVE FALSE
    OBVIOUS
  <2>1. LastChapter - s.c \in Bad
    BY <1>6
  <2> HIDE DEF Bad
  <2>2. k <= LastChapter - (p.c + 1)
    BY <1>1, <1>6, <2>1
  <2>3. k = LastChapter - p.c /\ p.c \in Nat /\ LastChapter \in Nat
    BY <1>2, <1>3, Sizes, ChapterSteps
  <2> QED BY <2>2, <2>3
<1> HIDE DEF r
<1>9. r.c \in Nat /\ r.c > p.c /\ p.c \in Nat
  BY <1>3, <1>6, <1>8, <1>a, ChapterSteps DEF RolledOn
<1>10. ASSUME short = 0, p.n = Wrapped[measure][p.c]
       PROVE  /\ r.n = Wrapped[measure][r.c]
              /\ Before(measure, r.c) + r.l = Before(measure, p.c) + p.l
  <2>1. s.n = Wrapped[measure][s.c]
    BY <1>5, <1>6, <1>10, EnteredIs
  <2>2. r.n = Wrapped[measure][r.c] /\ Before(measure, r.c) + r.l = Before(measure, s.c) + s.l
    BY <1>8, <1>10, <2>1 DEF RolledOn
  <2>3. Before(measure, p.c + 1) = Before(measure, p.c) + p.n
    <3>1. p.c + 1 # 0 /\ (p.c + 1) - 1 = p.c
      BY <1>9
    <3> QED BY <1>5, <1>10, <3>1, BeforeIs
  <2>4. Before(measure, p.c) \in Nat
    BY <1>3, BeforeIs
  <2>5. Before(measure, s.c) + s.l = Before(measure, p.c) + p.l
    BY <1>3, <1>6, <2>3, <2>4
  <2> QED BY <2>2, <2>5
<1>11. RolledOn(p, r, short)
  BY <1>8, <1>9, <1>10 DEF RolledOn
<1> QED BY <1>2, <1>7, <1>11 DEF r

\* What a roll up carries: the lines still to go up, too; a boundary crossed,
\* an end, and what the recursion of RollUp asks.
Climbs == [c : Chapters, l : Nat, n : Nat, up : Nat]
CrossedUp(q, short) ==
    LET m == Entered(q.c - 1, short)
    IN [c |-> q.c - 1, l |-> m - 1, n |-> m, up |-> q.up - q.l - 1]
RestsAt(q) == IF q.l >= q.up THEN [q EXCEPT !.l = @ - q.up, !.up = 0]
              ELSE [q EXCEPT !.l = 0, !.up = 0]
RollsUp(f, short) ==
    f = [q \in Climbs |->
            IF q.l >= q.up THEN [q EXCEPT !.l = @ - q.up, !.up = 0]
            ELSE IF q.c = 0 THEN [q EXCEPT !.l = 0, !.up = 0]
            ELSE LET m == Entered(q.c - 1, short)
                 IN f[[c |-> q.c - 1, l |-> m - 1, n |-> m, up |-> q.up - q.l - 1]]]

\* What a roll up carries, by field.
LEMMA ClimbFields ==
    ASSUME NEW q \in Climbs
    PROVE  q.c \in Chapters /\ q.l \in Nat /\ q.n \in Nat /\ q.up \in Nat
BY DEF Climbs

\* A boundary crossed upwards.
LEMMA CrossedUpIs ==
    ASSUME measure \in Widths, NEW short \in Nat, NEW q \in Climbs, q.l < q.up, q.c # 0
    PROVE  /\ CrossedUp(q, short) \in Climbs
           /\ CrossedUp(q, short).c = q.c - 1
           /\ CrossedUp(q, short).n = Entered(q.c - 1, short)
           /\ CrossedUp(q, short).n # 0
           /\ CrossedUp(q, short).l = Entered(q.c - 1, short) - 1
           /\ CrossedUp(q, short).up = q.up - q.l - 1
<1> DEFINE m == Entered(q.c - 1, short)
<1>1. q.c \in Chapters /\ q.l \in Nat /\ q.up \in Nat /\ q.c - 1 \in Chapters
  BY ClimbFields, ChapterSteps
<1>2. m \in Nat \ {0}
  BY <1>1, EnteredIs
<1> HIDE DEF m
<1>3. m - 1 \in Nat /\ q.up - q.l - 1 \in Nat
  BY <1>1, <1>2
<1>4. CrossedUp(q, short) = [c |-> q.c - 1, l |-> m - 1, n |-> m, up |-> q.up - q.l - 1]
  BY DEF CrossedUp, m
<1> QED BY <1>1, <1>2, <1>3, <1>4 DEF Climbs, m

\* The recursion of RollUp has a solution, for the chapters run out.
LEMMA UpThere ==
    ASSUME measure \in Widths, NEW short \in Nat
    PROVE  \E f : RollsUp(f, short)
<1> DEFINE moves == {q \in Climbs : q.l < q.up /\ q.c # 0}
           rank == [q \in Climbs |-> q.c]
           next == [q \in Climbs |-> CrossedUp(q, short)]
           rest == [q \in Climbs |-> RestsAt(q)]
<1>1. rank \in [Climbs -> 0 .. LastChapter]
  <2> SUFFICES ASSUME NEW q \in Climbs PROVE q.c \in 0 .. LastChapter
    OBVIOUS
  <2> QED BY ClimbFields DEF Chapters
<1>2. \A q \in moves : next[q] \in Climbs /\ rank[next[q]] < rank[q]
  <2> TAKE q \in moves
  <2>1. q.l < q.up /\ q.c # 0 /\ q \in Climbs
    OBVIOUS
  <2>2. next[q] = CrossedUp(q, short) /\ CrossedUp(q, short) \in Climbs /\ CrossedUp(q, short).c = q.c - 1
    BY <2>1, CrossedUpIs
  <2>3. rank[next[q]] = q.c - 1 /\ rank[q] = q.c
    BY <2>1, <2>2
  <2>4. q.c \in Nat
    BY <2>1, ClimbFields, ChapterSteps
  <2> QED BY <2>2, <2>3, <2>4
<1>3. PICK f : PassesOn(f, Climbs, moves, next, rest)
  <2>1. moves \in SUBSET Climbs /\ LastChapter \in Nat
    BY Sizes
  <2> HIDE DEF moves, rank, next, rest
  <2>2. \A q \in moves : next[q] \in Climbs /\ rank[next[q]] < rank[q]
    BY <1>2
  <2> QED BY <1>1, <2>1, <2>2, TailRecursion
<1>4. \A q \in Climbs : f[q] = IF q \in moves THEN f[next[q]] ELSE rest[q]
  <2> HIDE DEF moves, next, rest
  <2> QED BY <1>3 DEF PassesOn
<1>5. \A q \in Climbs : f[q] = IF q.l >= q.up THEN [q EXCEPT !.l = @ - q.up, !.up = 0]
                               ELSE IF q.c = 0 THEN [q EXCEPT !.l = 0, !.up = 0]
                               ELSE f[CrossedUp(q, short)]
  <2> TAKE q \in Climbs
  <2>1. q.l \in Nat /\ q.up \in Nat
    BY ClimbFields
  <2>2. q \in moves <=> ~ (q.l >= q.up) /\ q.c # 0
    BY <2>1
  <2>3. next[q] = CrossedUp(q, short) /\ rest[q] = RestsAt(q)
    OBVIOUS
  <2> HIDE DEF moves, next, rest
  <2>4. f[q] = IF q \in moves THEN f[CrossedUp(q, short)] ELSE RestsAt(q)
    BY <1>4, <2>3
  <2> QED BY <2>2, <2>4 DEF RestsAt
<1>6. f = [q \in Climbs |-> f[q]]
  <2> HIDE DEF moves, next, rest
  <2> QED BY <1>3 DEF PassesOn
<1>7. f = [q \in Climbs |-> IF q.l >= q.up THEN [q EXCEPT !.l = @ - q.up, !.up = 0]
                            ELSE IF q.c = 0 THEN [q EXCEPT !.l = 0, !.up = 0]
                            ELSE f[CrossedUp(q, short)]]
  BY <1>5, <1>6
<1> QED BY <1>7 DEF RollsUp, CrossedUp

\* RollUp as a function of what it carries.
RolledUp(q, short) == (CHOOSE f : RollsUp(f, short))[q]
\* The two forms of a roll up.
LEMMA RollUpIsRolledUp ==
    ASSUME NEW p, NEW n, NEW short
    PROVE  RollUp(p, n, short) = RolledUp([c |-> p.c, l |-> p.l, n |-> p.n, up |-> n], short)
BY DEF RollUp, RolledUp, RollsUp, Climbs

\* One step of a roll up.
LEMMA RollUpUnfolds ==
    ASSUME measure \in Widths, NEW short \in Nat, NEW q \in Climbs
    PROVE  RolledUp(q, short) =
             IF q.l >= q.up THEN [q EXCEPT !.l = @ - q.up, !.up = 0]
             ELSE IF q.c = 0 THEN [q EXCEPT !.l = 0, !.up = 0]
             ELSE RolledUp(CrossedUp(q, short), short)
<1> DEFINE f == CHOOSE f : RollsUp(f, short)
<1>1. \A p : RolledUp(p, short) = f[p]
  BY DEF RolledUp
<1>2. RollsUp(f, short)
  <2>1. \E g : RollsUp(g, short)
    BY UpThere
  <2> QED BY <2>1
<1> HIDE DEF f
<1>3. f[q] = IF q.l >= q.up THEN [q EXCEPT !.l = @ - q.up, !.up = 0]
             ELSE IF q.c = 0 THEN [q EXCEPT !.l = 0, !.up = 0]
             ELSE f[CrossedUp(q, short)]
  BY <1>2 DEF RollsUp, CrossedUp
<1> QED BY <1>1, <1>3

(* Where a roll up ends: as many book lines back, or at the book's start.   *)
RolledBack(q, r, short) ==
    /\ r \in Climbs /\ r.c <= q.c /\ r.n # 0
    /\ r.c = q.c => r.n = q.n /\ r.l <= q.l
    /\ (short = 0 /\ q.n = Wrapped[measure][q.c] /\ q.l < q.n) =>
          /\ r.n = Wrapped[measure][r.c] /\ r.l < r.n
          /\ Before(measure, r.c) + r.l = Greater(Before(measure, q.c) + q.l - q.up, 0)
\* A roll up that ends in its chapter.
LEMMA StaysRolledBack ==
    ASSUME measure \in Widths, NEW short \in Nat, NEW q \in Climbs, q.n # 0, q.l >= q.up \/ q.c = 0
    PROVE  RolledBack(q, RolledUp(q, short), short)
<1>1. q.c \in Chapters /\ q.l \in Nat /\ q.n \in Nat /\ q.up \in Nat /\ q.c \in Nat
  BY ClimbFields, ChapterSteps
<1>2. Before(measure, q.c) \in Nat
  BY <1>1, BeforeIs
<1>3. CASE q.l >= q.up
  <2> DEFINE r == [[q EXCEPT !.l = q.l - q.up] EXCEPT !.up = 0]
  <2>1. RolledUp(q, short) = r
    BY <1>3, RollUpUnfolds
  <2>2. q.l - q.up \in Nat
    BY <1>1, <1>3
  <2>3. r \in Climbs /\ r.c = q.c /\ r.n = q.n /\ r.l = q.l - q.up
    BY <2>2 DEF Climbs
  <2> HIDE DEF r
  <2>4. Greater(Before(measure, q.c) + q.l - q.up, 0) = Before(measure, q.c) + r.l
    BY <1>1, <1>2, <1>3, <2>3 DEF Greater
  <2>5. r.l <= q.l
    BY <1>1, <1>3, <2>3
  <2> QED BY <1>1, <1>2, <2>1, <2>2, <2>3, <2>4, <2>5 DEF RolledBack
<1>4. CASE q.l < q.up /\ q.c = 0
  <2> DEFINE r == [[q EXCEPT !.l = 0] EXCEPT !.up = 0]
  <2>1. RolledUp(q, short) = r
    <3>1. ~ (q.l >= q.up)
      BY <1>1, <1>4
    <3> QED BY <1>4, <3>1, RollUpUnfolds
  <2>2. r \in Climbs /\ r.c = q.c /\ r.n = q.n /\ r.l = 0
    BY DEF Climbs
  <2> HIDE DEF r
  <2>3. Before(measure, q.c) = 0
    BY <1>4, BeforeIs
  <2>4. Greater(Before(measure, q.c) + q.l - q.up, 0) = 0
    BY <1>1, <1>4, <2>3 DEF Greater
  <2>5. r.l <= q.l
    BY <1>1, <2>2
  <2> QED BY <1>1, <2>1, <2>2, <2>3, <2>4, <2>5 DEF RolledBack
<1> QED BY <1>1, <1>3, <1>4
\* Every roll up ends so: else take one in the earliest chapter that does not.
LEMMA RollUpIs ==
    ASSUME measure \in Widths, NEW short \in Nat, NEW q \in Climbs, q.n # 0
    PROVE  RolledBack(q, RolledUp(q, short), short)
<1> DEFINE Bad == {p.c : p \in {p \in Climbs : p.n # 0 /\ ~ RolledBack(p, RolledUp(p, short), short)}}
<1> SUFFICES ASSUME Bad # {} PROVE FALSE
  OBVIOUS
<1>1. PICK k \in Bad : \A j \in Bad : k <= j
  <2>1. \A p \in Climbs : p.c \in Nat
    BY ClimbFields, ChapterSteps
  <2>2. Bad \in SUBSET Nat
    BY <2>1
  <2> HIDE DEF Bad
  <2> QED BY <2>2, LeastElement
<1>2. PICK p \in Climbs : k = p.c /\ p.n # 0 /\ ~ RolledBack(p, RolledUp(p, short), short)
  BY <1>1
<1>3. p.c \in Chapters /\ p.l \in Nat /\ p.n \in Nat /\ p.up \in Nat /\ p.c \in Nat
  BY ClimbFields, ChapterSteps
<1>4. p.l < p.up /\ p.c # 0
  <2>1. ~ (p.l >= p.up) /\ p.c # 0
    BY <1>2, StaysRolledBack
  <2> HIDE DEF Bad
  <2> QED BY <1>3, <2>1
<1> DEFINE s == CrossedUp(p, short)
           r == RolledUp(s, short)
<1>5. /\ s \in Climbs /\ s.c = p.c - 1 /\ s.n = Entered(p.c - 1, short) /\ s.n # 0
      /\ s.l = Entered(p.c - 1, short) - 1 /\ s.up = p.up - p.l - 1
  BY <1>4, CrossedUpIs
<1>6. RolledUp(p, short) = r
  <2>1. ~ (p.l >= p.up)
    BY <1>3, <1>4
  <2> QED BY <1>4, <2>1, RollUpUnfolds
<1> HIDE DEF s
<1>7. RolledBack(s, r, short)
  <2> SUFFICES ASSUME ~ RolledBack(s, r, short) PROVE FALSE
    OBVIOUS
  <2>1. s.c \in Bad
    BY <1>5
  <2> HIDE DEF Bad, r
  <2>2. k <= p.c - 1
    BY <1>1, <1>5, <2>1
  <2> QED BY <1>2, <1>3, <2>2
<1> HIDE DEF r, Bad
<1>8. r \in Climbs /\ r.c \in Nat /\ r.c < p.c /\ r.c \in Chapters /\ r.l \in Nat
  <2>1. r \in Climbs /\ r.c <= s.c
    BY <1>7 DEF RolledBack
  <2>2. r.c \in Chapters /\ r.l \in Nat /\ r.c \in Nat
    BY <2>1, ClimbFields, ChapterSteps
  <2> QED BY <1>3, <1>5, <2>1, <2>2
<1>9. ASSUME short = 0, p.n = Wrapped[measure][p.c], p.l < p.n
      PROVE  /\ r.n = Wrapped[measure][r.c] /\ r.l < r.n
             /\ Before(measure, r.c) + r.l = Greater(Before(measure, p.c) + p.l - p.up, 0)
  <2>1. p.c - 1 \in Chapters
    BY <1>3, <1>4, ChapterSteps
  <2>2. s.n = Wrapped[measure][s.c] /\ s.n \in Nat \ {0}
    BY <1>5, <1>9, <2>1, EnteredIs, Sizes
  <2>3. s.l < s.n /\ s.l = s.n - 1
    BY <1>5, <2>2
  <2>4. /\ r.n = Wrapped[measure][r.c] /\ r.l < r.n
        /\ Before(measure, r.c) + r.l = Greater(Before(measure, s.c) + s.l - s.up, 0)
    BY <1>7, <1>9, <2>2, <2>3 DEF RolledBack
  <2>5. Before(measure, p.c) = Before(measure, s.c) + s.n
    BY <1>3, <1>4, <1>5, <2>2, BeforeIs
  <2>6. Before(measure, s.c) \in Nat
    BY <1>5, <2>1, BeforeIs
  <2>7. Before(measure, s.c) + s.l - s.up = Before(measure, p.c) + p.l - p.up
    BY <1>3, <1>5, <2>2, <2>3, <2>5, <2>6
  <2> QED BY <2>4, <2>7
<1>10. r.n # 0
  BY <1>7 DEF RolledBack
<1>11. RolledBack(p, r, short)
  BY <1>3, <1>8, <1>9, <1>10 DEF RolledBack
<1> QED BY <1>2, <1>6, <1>11

\* A place of the history, and a fraction held over a re-wrap.
FlowPlaces == [section : Chapters, scroll : Nat]
Fractions == {NoFrac} \cup (Nat \X (Nat \ {0}))
\* The types; and what was done twice was done.
FlowTypes ==
    /\ section \in Chapters /\ scroll \in Nat /\ lines \in Nat \ {0} /\ fresh \in BOOLEAN
    /\ width \in Widths /\ measure \in Widths
    /\ pendingFrac \in Fractions /\ pendingBottom \in BOOLEAN /\ scrollPending \in Int
    /\ back \in Seq(FlowPlaces) /\ forth \in Seq(FlowPlaces) /\ frame \in FlowPlaces
    /\ paged \in BOOLEAN /\ flows \in BOOLEAN /\ lock \in BOOLEAN
    /\ wanted \in Int
    /\ did # {"again"}
\* The lines the chapter was drawn with, or would have been.
Lines == Wrapped[measure][section]
\* Nothing was done since the frame: the place is the one drawn.
Undisturbed ==
    /\ Pos = frame /\ fresh /\ lines = Lines /\ ~pendingBottom
    /\ section = LastChapter => scroll <= MaxScrollOf(Lines)
\* Scrolling, where chapters start afresh, has moved once at most, and over an
\* edge the frame showed.
EasedAlone ==
    \/ section = frame.section
    \/ /\ pendingFrac = NoFrac /\ ~pendingBottom /\ scroll = 0 /\ section = frame.section + 1
       /\ frame.scroll + PageLines >= Wrapped[measure][frame.section]
    \/ /\ pendingFrac = NoFrac /\ pendingBottom
       /\ section = frame.section - 1 /\ frame.scroll = 0
\* What the place is, by what was done since the frame.
SinceFrame ==
    /\ did = {} => Undisturbed /\ pendingFrac = NoFrac
    /\ did = {"width"} => Undisturbed /\ pendingFrac = <<scroll, lines>>
    /\ did = {"scroll"} /\ ~Flowing => EasedAlone
\* The place is the line the scrolls should have led to, or its fraction is.
Reached ==
    /\ wanted = BookLine(Pos) /\ fresh /\ scroll < Lines /\ ~pendingBottom
    /\ section = LastChapter => scroll <= MaxScrollOf(Lines)
    /\ pendingFrac \in {NoFrac, <<scroll, Lines>>}
\* While a line is wanted only scrolls were made, and one of them, from a
\* frame on, reaches it.
Scrolls ==
    wanted # -1 => /\ did \subseteq {"scroll", "turn", "again"}
                   /\ (Reserved = {0} /\ Flowing /\ ~paged /\ OneThing) => Reached
\* The invariant of reading on.
FlowInv == FlowTypes /\ SinceFrame /\ Scrolls

\* The last line a pane may start at.
LEMMA MaxScrollIs ==
    ASSUME NEW n \in Nat
    PROVE  /\ MaxScrollOf(n) \in Nat
           /\ n # 0 => MaxScrollOf(n) < n
           /\ MaxScrollOf(n) + PageLines >= n
BY Sizes DEF MaxScrollOf

\* A book is opened as it is drawn.
LEMMA InitFlow == FlowInit => FlowInv
<1> SUFFICES ASSUME FlowInit PROVE FlowInv
  OBVIOUS
<1>1. section = 0 /\ scroll = 0 /\ width \in Widths /\ measure = width /\ lines = Wrapped[measure][0]
      /\ fresh = TRUE /\ pendingFrac = NoFrac /\ pendingBottom = FALSE /\ scrollPending = 0
      /\ back = <<>> /\ forth = <<>> /\ wanted = -1 /\ did = {} /\ frame = Pos
  BY DEF FlowInit
<1>2. paged \in BOOLEAN /\ flows \in BOOLEAN /\ lock \in BOOLEAN
  <2>1. paged = FALSE \/ paged = ("page" \in Features)
    BY DEF FlowInit
  <2>2. flows = FALSE \/ flows = ("flow" \in Features)
    BY DEF FlowInit
  <2>3. lock = FALSE \/ lock = ("lock" \in Features)
    BY DEF FlowInit
  <2>4. \A s : (s \in Features) = TRUE \/ (s \in Features) = FALSE
    OBVIOUS
  <2>5. paged = TRUE \/ paged = FALSE
    BY <2>1, <2>4
  <2>6. flows = TRUE \/ flows = FALSE
    BY <2>2, <2>4
  <2>7. lock = TRUE \/ lock = FALSE
    BY <2>3, <2>4
  <2> QED BY <2>5, <2>6, <2>7
<1>3. section \in Chapters /\ lines \in Nat \ {0} /\ Pos \in FlowPlaces
  BY <1>1, Sizes DEF FlowPlaces, Pos
<1>4. FlowTypes
  <2>1. <<>> \in Seq(FlowPlaces)
    OBVIOUS
  <2>2. did # {"again"} /\ wanted \in Int /\ scrollPending \in Int
    BY <1>1
  <2>3. back \in Seq(FlowPlaces) /\ forth \in Seq(FlowPlaces)
    BY <1>1, <2>1
  <2>4. scroll \in Nat /\ fresh \in BOOLEAN /\ pendingBottom \in BOOLEAN /\ frame \in FlowPlaces
    BY <1>1, <1>3
  <2>5. pendingFrac \in Fractions
    BY <1>1 DEF Fractions
  <2>6. width \in Widths /\ measure \in Widths
    BY <1>1
  <2> QED BY <1>2, <1>3, <2>2, <2>3, <2>4, <2>5, <2>6 DEF FlowTypes
<1>5. SinceFrame
  <2>1. Undisturbed
    <3>1. lines = Lines /\ Lines \in Nat
      BY <1>1, <1>3 DEF Lines
    <3>2. scroll <= MaxScrollOf(Lines)
      BY <1>1, <3>1, MaxScrollIs
    <3> QED BY <1>1, <3>1, <3>2 DEF Undisturbed
  <2>2. did # {"width"} /\ did # {"scroll"}
    BY <1>1
  <2> QED BY <1>1, <2>1, <2>2 DEF SinceFrame
<1> QED BY <1>1, <1>4, <1>5 DEF FlowInv, Scrolls

----------------------------------------------------------------------------
\* A move leads to a place.
MoveTypes(p) ==
    /\ p.section \in Chapters /\ p.scroll \in Nat /\ p.lines \in Nat \ {0} /\ p.fresh \in BOOLEAN
    /\ p.frac \in Fractions /\ p.bottom \in BOOLEAN

\* The fields of a move within the chapter.
LEMMA HereIs ==
    /\ Here.section = section /\ Here.scroll = scroll /\ Here.lines = lines
    /\ Here.fresh = fresh /\ Here.frac = pendingFrac /\ Here.bottom = pendingBottom
    /\ \A l : LET p == [Here EXCEPT !.scroll = l]
              IN /\ p.section = section /\ p.scroll = l /\ p.lines = lines
                 /\ p.fresh = fresh /\ p.frac = pendingFrac /\ p.bottom = pendingBottom
BY DEF Here, At

\* The fields of a move to another chapter.
LEMMA LoadedIs ==
    ASSUME NEW c
    PROVE  /\ Loaded(c).section = c /\ Loaded(c).scroll = 0 /\ Loaded(c).lines = lines
           /\ Loaded(c).fresh = FALSE /\ Loaded(c).frac = pendingFrac /\ Loaded(c).bottom = pendingBottom
           /\ \A l : LET p == [Loaded(c) EXCEPT !.scroll = l]
                     IN /\ p.section = c /\ p.scroll = l /\ p.lines = lines
                        /\ p.fresh = FALSE /\ p.frac = pendingFrac /\ p.bottom = pendingBottom
           /\ LET p == [Loaded(c) EXCEPT !.bottom = TRUE]
              IN /\ p.section = c /\ p.scroll = 0 /\ p.lines = lines
                 /\ p.fresh = FALSE /\ p.frac = pendingFrac /\ p.bottom = TRUE
BY DEF Loaded, Here, At

(* Where a scroll leads if chapters start afresh.                           *)
AfreshTo(p) ==
    \/ p.section = section /\ p.bottom = pendingBottom /\ p.fresh = fresh
    \/ /\ p.section = section + 1 /\ scroll >= MaxScroll /\ p.scroll = 0
       /\ p.bottom = pendingBottom /\ p.fresh = FALSE
    \/ p.section = section - 1 /\ scroll = 0 /\ p.bottom = TRUE /\ p.fresh = FALSE
\* scroll_down and scroll_up where chapters start afresh.
LEMMA Afresh ==
    ASSUME FlowTypes, ~Flowing, NEW n \in Int \ {0}, NEW p \in Scrolled(n)
    PROVE  MoveTypes(p) /\ AfreshTo(p) /\ p.frac = pendingFrac
<1>1. section \in Chapters /\ section \in Nat /\ scroll \in Nat /\ lines \in Nat \ {0} /\ fresh \in BOOLEAN
      /\ pendingFrac \in Fractions /\ pendingBottom \in BOOLEAN
  BY Sizes DEF FlowTypes
<1>2. MaxScroll \in Nat
  <2>1. lines \in Nat
    BY <1>1
  <2> QED BY <2>1, MaxScrollIs DEF MaxScroll
<1>3. p = IF n > 0 THEN DownAlone(n) ELSE UpAlone(-n)
  BY DEF Scrolled
<1>4. /\ section < LastChapter => section + 1 \in Chapters
      /\ section > 0 => section - 1 \in Chapters
  BY <1>1, ChapterSteps
<1>5. MoveTypes(Here) /\ AfreshTo(Here) /\ Here.frac = pendingFrac
  BY <1>1, HereIs DEF MoveTypes, AfreshTo
<1>6. ASSUME NEW l \in Nat, p = [Here EXCEPT !.scroll = l]
      PROVE  MoveTypes(p) /\ AfreshTo(p) /\ p.frac = pendingFrac
  BY <1>1, <1>6, HereIs DEF MoveTypes, AfreshTo
<1>7. CASE n > 0
  <2>1. CASE scroll < MaxScroll
    <3>1. Lesser(scroll + n, MaxScroll) \in Nat
      BY <1>1, <1>2, <1>7 DEF Lesser
    <3>2. p = [Here EXCEPT !.scroll = Lesser(scroll + n, MaxScroll)]
      BY <1>3, <1>7, <2>1 DEF DownAlone
    <3> QED BY <1>6, <3>1, <3>2
  <2>2. CASE scroll >= MaxScroll /\ ~lock /\ section < LastChapter
    <3>1. p = Loaded(section + 1)
      BY <1>1, <1>2, <1>3, <1>7, <2>2 DEF DownAlone
    <3>2. section + 1 \in Chapters
      BY <1>4, <2>2
    <3>3. /\ p.section = section + 1 /\ p.scroll = 0 /\ p.lines = lines
          /\ p.fresh = FALSE /\ p.frac = pendingFrac /\ p.bottom = pendingBottom
      BY <3>1, LoadedIs
    <3>4. MoveTypes(p)
      <4>1. p.fresh \in BOOLEAN
        BY <3>3
      <4>2. p.bottom \in BOOLEAN
        BY <1>1, <3>3
      <4> QED BY <1>1, <3>2, <3>3, <4>1, <4>2 DEF MoveTypes
    <3>5. AfreshTo(p)
      BY <2>2, <3>3 DEF AfreshTo
    <3> QED BY <3>3, <3>4, <3>5
  <2>3. CASE scroll >= MaxScroll /\ ~ (~lock /\ section < LastChapter)
    <3>1. p = Here
      BY <1>1, <1>2, <1>3, <1>7, <2>3 DEF DownAlone
    <3> QED BY <1>5, <3>1
  <2> QED BY <1>1, <1>2, <2>1, <2>2, <2>3
<1>8. CASE n < 0
  <2>1. CASE scroll > 0
    <3>1. Greater(scroll - (-n), 0) \in Nat
      BY <1>1, <1>8 DEF Greater
    <3>2. p = [Here EXCEPT !.scroll = Greater(scroll - (-n), 0)]
      BY <1>3, <1>8, <2>1 DEF UpAlone
    <3> QED BY <1>6, <3>1, <3>2
  <2>2. CASE scroll = 0 /\ ~lock /\ section > 0
    <3>1. p = [Loaded(section - 1) EXCEPT !.bottom = TRUE]
      BY <1>3, <1>8, <2>2 DEF UpAlone
    <3>2. section - 1 \in Chapters
      BY <1>1, <1>4, <2>2
    <3>3. /\ p.section = section - 1 /\ p.scroll = 0 /\ p.lines = lines
          /\ p.fresh = FALSE /\ p.frac = pendingFrac /\ p.bottom = TRUE
      BY <3>1, LoadedIs
    <3>4. MoveTypes(p)
      <4>1. p.fresh \in BOOLEAN
        BY <3>3
      <4>2. p.bottom \in BOOLEAN
        BY <1>1, <3>3
      <4> QED BY <1>1, <3>2, <3>3, <4>1, <4>2 DEF MoveTypes
    <3>5. AfreshTo(p)
      BY <2>2, <3>3 DEF AfreshTo
    <3> QED BY <3>3, <3>4, <3>5
  <2>3. CASE scroll = 0 /\ ~ (~lock /\ section > 0)
    <3>1. p = Here
      BY <1>3, <1>8, <2>3 DEF UpAlone
    <3> QED BY <1>5, <3>1
  <2> QED BY <1>1, <2>1, <2>2, <2>3
<1> QED BY <1>7, <1>8

(* Where a scroll leads if chapters flow: to a line of the chapter, or to   *)
(* one of another whose fraction it keeps.                                  *)
FlowsTo(p) ==
    \/ /\ p.section = section /\ p.lines = lines /\ p.fresh = fresh
       /\ p.frac = pendingFrac /\ p.bottom = pendingBottom
    \/ /\ p.section # section /\ p.fresh = TRUE
       /\ p.frac = <<p.scroll, p.lines>> /\ p.bottom = pendingBottom
\* Where a roll leaves the reader.
LEMMA RolledIs ==
    ASSUME FlowTypes, NEW q, q.c \in Chapters, q.n \in Nat \ {0}, NEW l \in Nat,
           q.c = section => q.n = lines
    PROVE  /\ MoveTypes(Rolled(q, l)) /\ FlowsTo(Rolled(q, l))
           /\ Rolled(q, l).section = q.c /\ Rolled(q, l).scroll = l /\ Rolled(q, l).lines = q.n
<1>1. section \in Chapters /\ lines \in Nat \ {0} /\ fresh \in BOOLEAN
      /\ pendingFrac \in Fractions /\ pendingBottom \in BOOLEAN
  BY DEF FlowTypes
<1> DEFINE p == Rolled(q, l)
<1>2. CASE q.c = section
  <2>1. p = [Here EXCEPT !.scroll = l]
    BY <1>2 DEF Rolled
  <2>2. /\ p.section = section /\ p.scroll = l /\ p.lines = lines
        /\ p.fresh = fresh /\ p.frac = pendingFrac /\ p.bottom = pendingBottom
    BY <2>1, HereIs
  <2> HIDE DEF p
  <2>3. MoveTypes(p) /\ FlowsTo(p)
    BY <1>1, <2>2 DEF MoveTypes, FlowsTo
  <2> QED BY <1>2, <2>2, <2>3 DEF p
<1>3. CASE q.c # section
  <2> DEFINE frac == <<l, q.n>>
  <2>1. p = At(q.c, l, q.n, TRUE, frac, pendingBottom)
    BY <1>3 DEF Rolled
  <2>2. /\ p.section = q.c /\ p.scroll = l /\ p.lines = q.n
        /\ p.fresh = TRUE /\ p.frac = <<l, q.n>> /\ p.bottom = pendingBottom
    <3>1. frac = <<l, q.n>>
      OBVIOUS
    <3> HIDE DEF frac, p
    <3>2. /\ p.section = q.c /\ p.scroll = l /\ p.lines = q.n
          /\ p.fresh = TRUE /\ p.frac = frac /\ p.bottom = pendingBottom
      BY <2>1 DEF At
    <3> QED BY <3>1, <3>2
  <2> HIDE DEF p
  <2>3. p.frac \in Fractions
    BY <2>2 DEF Fractions
  <2>4. p.fresh \in BOOLEAN /\ p.bottom \in BOOLEAN
    BY <1>1, <2>2
  <2>5. MoveTypes(p)
    BY <2>2, <2>3, <2>4 DEF MoveTypes
  <2>6. FlowsTo(p)
    BY <1>3, <2>2 DEF FlowsTo
  <2> QED BY <2>2, <2>5, <2>6 DEF p
<1> QED BY <1>2, <1>3

(* What a scroll down and a scroll up over flowing chapters come to.        *)
LeadsOn(p, short, n) ==
    /\ p.section > section \/ p.section = section
    /\ short = 0 /\ lines = Lines =>
         /\ p.lines = Wrapped[measure][p.section]
         /\ IF p.section = LastChapter
            THEN /\ p.scroll <= MaxScrollOf(p.lines)
                 /\ Before(measure, p.section) + p.scroll
                      = Lesser(Before(measure, section) + scroll + n, Before(measure, p.section) + MaxScrollOf(p.lines))
            ELSE /\ p.scroll < p.lines
                 /\ Before(measure, p.section) + p.scroll = Before(measure, section) + scroll + n
\* continuous_scroll_down.
LEMMA FlowsDown ==
    ASSUME FlowTypes, NEW n \in Nat, NEW short \in Nat
    PROVE  LET p == DownFlowing(n, short)
           IN MoveTypes(p) /\ FlowsTo(p) /\ LeadsOn(p, short, n)
<1> DEFINE q == [c |-> section, l |-> scroll + n, n |-> lines]
           r == RollDown(q, short)
           l == IF r.c = LastChapter THEN Lesser(r.l, MaxScrollOf(r.n)) ELSE r.l
           p == DownFlowing(n, short)
<1>1. section \in Chapters /\ scroll \in Nat /\ lines \in Nat \ {0} /\ measure \in Widths /\ section \in Nat
  BY Sizes DEF FlowTypes
<1>2. q \in Rolls /\ q.c = section /\ q.l = scroll + n /\ q.n = lines /\ q.n # 0
  BY <1>1 DEF Rolls
<1>3. p = Rolled(r, l)
  BY DEF DownFlowing
<1> HIDE DEF q, p
<1>4. RolledOn(q, r, short)
  BY <1>1, <1>2, RollDownIs
<1> HIDE DEF r
<1>5. r.c \in Chapters /\ r.l \in Nat /\ r.n \in Nat \ {0} /\ r.c \in Nat /\ r.c >= section
  BY <1>2, <1>4, ChapterSteps DEF Rolls, RolledOn
<1>6. r.c = section => r.n = lines
  BY <1>2, <1>4 DEF RolledOn
<1>7. MaxScrollOf(r.n) \in Nat
  <2>1. r.n \in Nat
    BY <1>5
  <2> QED BY <2>1, MaxScrollIs
<1>8. l \in Nat
  BY <1>5, <1>7 DEF Lesser
<1>9. /\ MoveTypes(p) /\ FlowsTo(p) /\ p.section = r.c /\ p.scroll = l /\ p.lines = r.n
  <2> HIDE DEF l
  <2> QED BY <1>3, <1>5, <1>6, <1>8, RolledIs
<1>10. ASSUME short = 0, lines = Lines
       PROVE  r.n = Wrapped[measure][r.c] /\ Before(measure, r.c) + r.l = Before(measure, section) + scroll + n
  <2>1. q.n = Wrapped[measure][q.c]
    BY <1>2, <1>10 DEF Lines
  <2>2. Before(measure, section) \in Nat
    BY <1>1, BeforeIs
  <2>3. Before(measure, section) + (scroll + n) = Before(measure, section) + scroll + n
    BY <1>1, <2>2
  <2> QED BY <1>2, <1>4, <1>10, <2>1, <2>3 DEF RolledOn
<1>11. ASSUME short = 0, lines = Lines, r.c = LastChapter
       PROVE  /\ l <= MaxScrollOf(r.n)
              /\ Before(measure, r.c) + l
                   = Lesser(Before(measure, section) + scroll + n, Before(measure, r.c) + MaxScrollOf(r.n))
  <2>1. l = Lesser(r.l, MaxScrollOf(r.n)) /\ Before(measure, r.c) \in Nat
    BY <1>1, <1>5, <1>11, BeforeIs
  <2>2. Before(measure, section) + scroll + n = Before(measure, r.c) + r.l
    BY <1>10, <1>11
  <2> QED BY <1>5, <1>7, <2>1, <2>2 DEF Lesser
<1>12. r.c # LastChapter => l = r.l /\ r.l < r.n
  BY <1>4 DEF RolledOn
<1>13. LeadsOn(p, short, n)
  <2> HIDE DEF l
  <2>1. p.section > section \/ p.section = section
    BY <1>1, <1>5, <1>9
  <2> QED BY <1>9, <1>10, <1>11, <1>12, <2>1 DEF LeadsOn
<1> QED BY <1>9, <1>13 DEF p

LeadsBack(p, short, n) ==
    /\ p.section < section \/ (p.section = section /\ p.scroll <= scroll)
    /\ short = 0 /\ lines = Lines /\ scroll < Lines =>
         /\ p.lines = Wrapped[measure][p.section] /\ p.scroll < p.lines
         /\ Before(measure, p.section) + p.scroll
              = Greater(Before(measure, section) + scroll - n, 0)
\* continuous_scroll_up.
LEMMA FlowsUp ==
    ASSUME FlowTypes, NEW n \in Nat, NEW short \in Nat
    PROVE  LET p == UpFlowing(n, short)
           IN MoveTypes(p) /\ FlowsTo(p) /\ LeadsBack(p, short, n)
<1> DEFINE q == [c |-> section, l |-> scroll, n |-> lines, up |-> n]
           o == [c |-> section, l |-> scroll, n |-> lines]
           r == RolledUp(q, short)
           p == UpFlowing(n, short)
<1>1. section \in Chapters /\ scroll \in Nat /\ lines \in Nat \ {0} /\ measure \in Widths /\ section \in Nat
  BY Sizes DEF FlowTypes
<1>2. q \in Climbs /\ q.c = section /\ q.l = scroll /\ q.n = lines /\ q.n # 0 /\ q.up = n
  BY <1>1 DEF Climbs
<1>3. p = Rolled(r, r.l)
  <2>1. RollUp(o, n, short) = r
    BY RollUpIsRolledUp
  <2> QED BY <2>1 DEF UpFlowing
<1> HIDE DEF q, p
<1>4. RolledBack(q, r, short)
  BY <1>1, <1>2, RollUpIs
<1> HIDE DEF r
<1>5. r.c \in Chapters /\ r.l \in Nat /\ r.n \in Nat \ {0} /\ r.c \in Nat /\ r.c <= section
  BY <1>2, <1>4, ClimbFields, ChapterSteps DEF RolledBack
<1>6. r.c = section => r.n = lines /\ r.l <= scroll
  BY <1>2, <1>4 DEF RolledBack
<1>7. /\ MoveTypes(p) /\ FlowsTo(p) /\ p.section = r.c /\ p.scroll = r.l /\ p.lines = r.n
  BY <1>3, <1>5, <1>6, RolledIs
<1>8. ASSUME short = 0, lines = Lines, scroll < Lines
      PROVE  /\ r.n = Wrapped[measure][r.c] /\ r.l < r.n
             /\ Before(measure, r.c) + r.l = Greater(Before(measure, section) + scroll - n, 0)
  <2>1. q.n = Wrapped[measure][q.c] /\ q.l < q.n
    BY <1>2, <1>8 DEF Lines
  <2> QED BY <1>2, <1>4, <1>8, <2>1 DEF RolledBack
<1>9. LeadsBack(p, short, n)
  <2>1. p.section < section \/ (p.section = section /\ p.scroll <= scroll)
    BY <1>1, <1>5, <1>6, <1>7
  <2> QED BY <1>7, <1>8, <2>1 DEF LeadsBack
<1> QED BY <1>7, <1>9 DEF p

\* A scroll of any size where chapters flow.
LEMMA FlowScrolls ==
    ASSUME FlowTypes, Flowing, NEW n \in Int \ {0}, NEW p \in Scrolled(n)
    PROVE  /\ MoveTypes(p) /\ FlowsTo(p)
           /\ \E short \in Reserved : IF n > 0 THEN LeadsOn(p, short, n) ELSE LeadsBack(p, short, -n)
<1>1. PICK short \in Reserved : p = IF n > 0 THEN DownFlowing(n, short) ELSE UpFlowing(-n, short)
  BY DEF Scrolled
<1>2. short \in Nat
  BY Sizes
<1>3. CASE n > 0
  <2>1. p = DownFlowing(n, short) /\ n \in Nat
    BY <1>1, <1>3
  <2> QED BY <1>2, <1>3, <2>1, FlowsDown
<1>4. CASE ~ (n > 0)
  <2>1. p = UpFlowing(-n, short) /\ -n \in Nat
    BY <1>1, <1>4
  <2> QED BY <1>2, <1>4, <2>1, FlowsUp
<1> QED BY <1>3, <1>4

\* Every scroll leads to a place.
LEMMA ScrollTypes ==
    ASSUME FlowTypes, NEW n \in Int \ {0}, NEW p \in Scrolled(n)
    PROVE  MoveTypes(p)
<1>1. CASE Flowing
  BY <1>1, FlowScrolls
<1>2. CASE ~Flowing
  BY <1>2, Afresh
<1> QED BY <1>1, <1>2

\* The last book line a pane may start at.
LEMMA BookEndIs ==
    ASSUME measure \in Widths
    PROVE  BookEnd \in Nat
<1>1. LastChapter \in Chapters /\ Wrapped[measure][LastChapter] \in Nat
  BY Sizes
<1> QED BY <1>1, BeforeIs, MaxScrollIs DEF BookEnd

\* The wanted line is a number.
LEMMA WantedIs ==
    ASSUME wanted \in Int, measure \in Widths, NEW n \in Int
    PROVE  WantedAfter(n) \in Int
BY BookEndIs DEF WantedAfter, Lesser, Greater

ReachedBy(p) ==
    /\ p.fresh /\ ~p.bottom
    /\ p.scroll < Wrapped[measure][p.section]
    /\ p.section = LastChapter => p.scroll <= MaxScrollOf(Wrapped[measure][p.section])
    /\ p.frac \in {NoFrac, <<p.scroll, Wrapped[measure][p.section]>>}
\* A scroll from a drawn place leads to the wanted line: forwards it stops at
\* the last line of the book a pane may start at, backwards at the first.
LEMMA ScrollLands ==
    ASSUME FlowTypes, Reserved = {0}, Flowing, wanted # -1, Reached, lines = Lines,
           pendingFrac = NoFrac, NEW n \in Int \ {0}, NEW p \in Scrolled(n)
    PROVE  ReachedBy(p) /\ WantedAfter(n) = Before(measure, p.section) + p.scroll
<1>1. MoveTypes(p) /\ FlowsTo(p) /\ IF n > 0 THEN LeadsOn(p, 0, n) ELSE LeadsBack(p, 0, -n)
  BY FlowScrolls
<1>2. /\ section \in Chapters /\ section \in Nat /\ scroll \in Nat /\ measure \in Widths
      /\ Lines \in Nat \ {0}
  BY Sizes DEF FlowTypes, Lines
<1>3. /\ wanted = Before(measure, section) + scroll /\ scroll < Lines
      /\ section = LastChapter => scroll <= MaxScrollOf(Lines)
  BY DEF Reached, BookLine, Pos
<1>4. p.section \in Chapters /\ p.section \in Nat /\ p.scroll \in Nat /\ p.section <= LastChapter
  BY <1>1, ChapterSteps DEF MoveTypes
<1> DEFINE m == Wrapped[measure][p.section]
           b == Before(measure, p.section)
           a == Before(measure, section)
           end == Before(measure, LastChapter)
           last == MaxScrollOf(Wrapped[measure][LastChapter])
<1>5. m \in Nat \ {0} /\ b \in Nat /\ a \in Nat /\ end \in Nat
  BY <1>2, <1>4, BeforeIs, Sizes
<1>6. last \in Nat /\ last < Wrapped[measure][LastChapter] /\ MaxScrollOf(m) \in Nat /\ MaxScrollOf(m) < m
  <2>1. Wrapped[measure][LastChapter] \in Nat \ {0}
    BY <1>2, Sizes
  <2>2. \A k \in Nat \ {0} : MaxScrollOf(k) \in Nat /\ MaxScrollOf(k) < k
    BY MaxScrollIs
  <2> QED BY <1>5, <2>1, <2>2
<1>7. BookEnd = end + last
  BY DEF BookEnd
<1>8. p.section < LastChapter => b + m <= end
  BY <1>2, <1>4, BeforeGrows, Sizes
<1>9. section < LastChapter => a + Lines <= end
  BY <1>2, BeforeGrows, Sizes DEF Lines
<1>10. wanted = a + scroll /\ wanted <= BookEnd
  <2>1. CASE section = LastChapter
    <3>1. a = end /\ MaxScrollOf(Lines) = last
      BY <2>1 DEF Lines
    <3> HIDE DEF a, end, last
    <3> QED BY <1>2, <1>3, <1>5, <1>6, <1>7, <2>1, <3>1 DEF a
  <2>2. CASE section < LastChapter
    <3>1. a + Lines <= end
      BY <1>9, <2>2
    <3>2. wanted = a + scroll
      BY <1>3
    <3> HIDE DEF a, end, last
    <3> QED BY <1>2, <1>3, <1>5, <1>6, <1>7, <3>1, <3>2
  <2>3. section <= LastChapter /\ LastChapter \in Nat
    BY <1>2, ChapterSteps, Sizes
  <2>4. section = LastChapter \/ section < LastChapter
    BY <1>2, <2>3
  <2> QED BY <2>1, <2>2, <2>4
<1>11. WantedAfter(n) = Lesser(Greater(a + scroll + n, 0), end + last)
  <2>1. wanted = a + scroll /\ BookEnd = end + last /\ wanted <= BookEnd
    BY <1>7, <1>10
  <2>2. Greater(BookEnd, wanted) = BookEnd
    <3> HIDE DEF a, end, last
    <3> QED BY <1>2, <1>5, <1>6, <2>1 DEF Greater
  <2> HIDE DEF a, end, last
  <2> QED BY <2>1, <2>2 DEF WantedAfter
<1> DEFINE Kept == p.fresh /\ ~p.bottom /\ p.frac \in {NoFrac, <<p.scroll, m>>}
<1>a. p.lines = m => Kept
  <2>1. fresh /\ ~pendingBottom
    BY DEF Reached
  <2> SUFFICES ASSUME p.lines = m PROVE Kept
    OBVIOUS
  <2> HIDE DEF m
  <2>2. CASE p.fresh = fresh /\ p.frac = pendingFrac /\ p.bottom = pendingBottom
    BY <2>1, <2>2
  <2>3. CASE p.fresh = TRUE /\ p.frac = <<p.scroll, p.lines>> /\ p.bottom = pendingBottom
    BY <2>1, <2>3
  <2> QED BY <1>1, <2>2, <2>3 DEF FlowsTo
<1> DEFINE Fits == p.scroll < m /\ (p.section = LastChapter => p.scroll <= MaxScrollOf(m))
<1>b. Kept /\ Fits => ReachedBy(p)
  BY DEF ReachedBy
<1> HIDE DEF Kept
<1>12. CASE n > 0
  <2>1. LeadsOn(p, 0, n)
    BY <1>1, <1>12
  <2>2. p.lines = m /\ Lines = lines
    BY <2>1 DEF LeadsOn
  <2>3. CASE p.section = LastChapter
    <3>1. p.scroll <= MaxScrollOf(m) /\ b + p.scroll = Lesser(a + scroll + n, b + MaxScrollOf(m))
      BY <2>1, <2>2, <2>3 DEF LeadsOn
    <3>2. b = end /\ MaxScrollOf(m) = last
      BY <2>3
    <3> HIDE DEF a, b, m, end, last
    <3>3. WantedAfter(n) = b + p.scroll
      BY <1>2, <1>5, <1>6, <1>11, <1>12, <3>1, <3>2 DEF Lesser, Greater
    <3>4. p.scroll < m
      BY <1>4, <1>5, <1>6, <3>1
    <3> QED BY <1>a, <1>b, <2>2, <3>1, <3>3, <3>4 DEF b
  <2>4. CASE p.section # LastChapter
    <3>1. p.scroll < m /\ b + p.scroll = a + scroll + n
      BY <2>1, <2>2, <2>4 DEF LeadsOn
    <3>2. b + m <= end
      BY <1>2, <1>4, <1>8, <2>4, Sizes
    <3> HIDE DEF a, b, m, end, last
    <3>3. WantedAfter(n) = b + p.scroll
      BY <1>2, <1>4, <1>5, <1>6, <1>11, <1>12, <3>1, <3>2 DEF Lesser, Greater
    <3> QED BY <1>a, <1>b, <2>2, <2>4, <3>1, <3>3 DEF b
  <2> QED BY <2>3, <2>4
<1>13. CASE n < 0
  <2>1. LeadsBack(p, 0, -n)
    BY <1>1, <1>13
  <2>2. /\ p.lines = m /\ p.scroll < m /\ b + p.scroll = Greater(a + scroll - (-n), 0)
        /\ p.section < section \/ (p.section = section /\ p.scroll <= scroll)
    BY <1>3, <2>1 DEF LeadsBack
  <2>3. WantedAfter(n) = b + p.scroll
    <3>1. a + scroll <= end + last
      BY <1>7, <1>10
    <3>2. b + p.scroll = Greater(a + scroll - (-n), 0)
      BY <2>2
    <3> HIDE DEF a, b, m, end, last
    <3>3. a + scroll - (-n) = a + scroll + n
      BY <1>2, <1>5
    <3>4. Lesser(Greater(a + scroll + n, 0), end + last) = Greater(a + scroll + n, 0)
      BY <1>2, <1>5, <1>6, <1>13, <3>1 DEF Lesser, Greater
    <3> QED BY <1>11, <3>2, <3>3, <3>4
  <2>4. p.section = LastChapter => p.scroll <= MaxScrollOf(m)
    <3> SUFFICES ASSUME p.section = LastChapter PROVE p.scroll <= MaxScrollOf(m)
      OBVIOUS
    <3>1. section <= LastChapter /\ LastChapter \in Nat
      BY <1>2, ChapterSteps, Sizes
    <3>2. p.section = section /\ p.scroll <= scroll
      BY <1>2, <1>4, <2>2, <3>1
    <3>3. MaxScrollOf(Lines) = MaxScrollOf(m) /\ scroll <= MaxScrollOf(Lines)
      BY <1>3, <3>2 DEF Lines
    <3> HIDE DEF m
    <3> QED BY <1>2, <1>4, <1>6, <3>2, <3>3
  <2> HIDE DEF a, m
  <2> QED BY <1>a, <1>b, <2>2, <2>3, <2>4
<1> QED BY <1>12, <1>13

\* What is the one thing done since a frame was done first.
LEMMA DidFirst ==
    ASSUME NEW what, NEW other, what # "again", Did(what), did' = {other}
    PROVE  did = {} /\ other = what
<1>1. did' = did \cup {what} \cup (IF what \in did THEN {"again"} ELSE {})
  BY DEF Did
<1>2. what \in did' /\ did \subseteq did'
  BY <1>1
<1>3. other = what
  BY <1>2
<1>4. what \notin did
  BY <1>1, <1>3
<1> QED BY <1>2, <1>3, <1>4

\* What a scroll by n lines to p does, from a key or from easing.
ScrollStep(what, n, p) ==
    /\ Goes(p) /\ wanted' = WantedAfter(n) /\ Did(what)
    /\ scrollPending' \in Int
    /\ UNCHANGED <<width, measure, history, modes, frame>>
\* A scroll keeps the types.
LEMMA ScrollKeepsTypes ==
    ASSUME FlowTypes, NEW what \in {"scroll", "turn"}, NEW n \in Int \ {0}, NEW p \in Scrolled(n),
           ScrollStep(what, n, p)
    PROVE  FlowTypes'
<1>1. MoveTypes(p)
  BY ScrollTypes
<1>2. /\ section' \in Chapters /\ scroll' \in Nat /\ lines' \in Nat \ {0} /\ fresh' \in BOOLEAN
      /\ pendingFrac' \in Fractions /\ pendingBottom' \in BOOLEAN
  BY <1>1 DEF MoveTypes, ScrollStep, Goes
<1>3. wanted' \in Int
  BY WantedIs DEF FlowTypes, ScrollStep
<1>4. did' # {"again"}
  <2>1. what \in did'
    BY DEF ScrollStep, Did
  <2> QED BY <2>1
<1>5. /\ width' = width /\ measure' = measure /\ back' = back /\ forth' = forth
      /\ paged' = paged /\ flows' = flows /\ lock' = lock /\ frame' = frame /\ scrollPending' \in Int
  BY DEF ScrollStep, history, modes
<1> QED BY <1>2, <1>3, <1>4, <1>5 DEF FlowTypes

\* A scroll where chapters start afresh crosses an edge the frame showed.
LEMMA ScrollKeepsFrame ==
    ASSUME FlowTypes, SinceFrame, NEW what \in {"scroll", "turn"}, NEW n \in Int \ {0},
           NEW p \in Scrolled(n), ScrollStep(what, n, p)
    PROVE  SinceFrame'
<1>1. what \in did'
  BY DEF ScrollStep, Did
<1>2. did' # {} /\ did' # {"width"}
  BY <1>1
<1>3. ASSUME did' = {"scroll"}, ~Flowing'
      PROVE  EasedAlone'
  <2>1. did = {}
    BY <1>3, DidFirst DEF ScrollStep
  <2>2. ~Flowing
    BY <1>3 DEF ScrollStep, modes, Flowing
  <2>3. AfreshTo(p) /\ p.frac = pendingFrac /\ MoveTypes(p)
    BY <2>2, Afresh
  <2>4. Undisturbed /\ pendingFrac = NoFrac
    BY <2>1 DEF SinceFrame
  <2>5. frame.section = section /\ frame.scroll = scroll /\ lines = Wrapped[measure][section] /\ ~pendingBottom
    BY <2>4 DEF Undisturbed, Pos, Lines
  <2>6. /\ section' = p.section /\ scroll' = p.scroll /\ pendingFrac' = p.frac
        /\ pendingBottom' = p.bottom /\ frame' = frame /\ measure' = measure
    BY DEF ScrollStep, Goes
  <2>7. CASE p.section = section
    BY <2>5, <2>6, <2>7 DEF EasedAlone
  <2>8. CASE /\ p.section = section + 1 /\ scroll >= MaxScroll /\ p.scroll = 0
             /\ p.bottom = pendingBottom
    <3>1. scroll \in Nat /\ lines \in Nat /\ PageLines \in Nat
      BY Sizes DEF FlowTypes
    <3>2. MaxScroll \in Nat /\ MaxScroll + PageLines >= lines
      BY <3>1, MaxScrollIs DEF MaxScroll
    <3>3. scroll + PageLines >= lines
      BY <2>8, <3>1, <3>2
    <3> QED BY <2>3, <2>4, <2>5, <2>6, <2>8, <3>3 DEF EasedAlone
  <2>9. CASE p.section = section - 1 /\ scroll = 0 /\ p.bottom = TRUE
    BY <2>3, <2>4, <2>5, <2>6, <2>9 DEF EasedAlone
  <2> QED BY <2>3, <2>7, <2>8, <2>9 DEF AfreshTo
<1> QED BY <1>2, <1>3 DEF SinceFrame

\* A scroll where chapters flow reaches the wanted line.
LEMMA ScrollKeepsLine ==
    ASSUME FlowTypes, SinceFrame, Scrolls, NEW what \in {"scroll", "turn"}, NEW n \in Int \ {0},
           NEW p \in Scrolled(n), ScrollStep(what, n, p)
    PROVE  Scrolls'
<1> SUFFICES ASSUME wanted' # -1 PROVE Scrolls'
  BY DEF Scrolls
<1>1. wanted # -1
  BY DEF ScrollStep, WantedAfter
<1>2. did' \subseteq {"scroll", "turn", "again"}
  BY <1>1 DEF Scrolls, ScrollStep, Did
<1>3. ASSUME Reserved' = {0}, Flowing', ~paged', OneThing'
      PROVE  Reached'
  <2>1. what \in did'
    BY DEF ScrollStep, Did
  <2>2. did' = {what}
    BY <1>3, <2>1 DEF OneThing
  <2>3. did = {}
    BY <2>2, DidFirst DEF ScrollStep
  <2>4. OneThing
    BY <2>3 DEF OneThing
  <2>5. Flowing /\ ~paged /\ Reserved = {0}
    BY <1>3 DEF ScrollStep, modes, Flowing
  <2>6. Reached /\ lines = Lines /\ pendingFrac = NoFrac
    BY <1>1, <2>3, <2>4, <2>5 DEF Scrolls, SinceFrame, Undisturbed
  <2>7. ReachedBy(p) /\ WantedAfter(n) = Before(measure, p.section) + p.scroll
    BY <1>1, <2>5, <2>6, ScrollLands
  <2>8. /\ section' = p.section /\ scroll' = p.scroll /\ pendingFrac' = p.frac /\ fresh' = p.fresh
        /\ pendingBottom' = p.bottom /\ measure' = measure /\ wanted' = WantedAfter(n)
    BY DEF ScrollStep, Goes
  <2>9. BookLine(Pos)' = Before(measure, section') + scroll'
    BY <2>8 DEF BookLine, Pos
  <2>10. wanted' = BookLine(Pos)'
    BY <2>7, <2>8, <2>9
  <2>11. Lines' = Wrapped[measure][p.section]
    BY <2>8 DEF Lines
  <2> QED BY <2>7, <2>8, <2>10, <2>11 DEF Reached, ReachedBy
<1> QED BY <1>2, <1>3 DEF Scrolls

\* A scroll keeps the invariant.
LEMMA ScrollKeeps ==
    ASSUME FlowInv, NEW what \in {"scroll", "turn"}, NEW n \in Int \ {0},
           NEW p \in Scrolled(n), ScrollStep(what, n, p)
    PROVE  FlowInv'
BY ScrollKeepsTypes, ScrollKeepsFrame, ScrollKeepsLine DEF FlowInv

\* What a quotient is.
LEMMA Quotient ==
    ASSUME NEW x \in Nat, NEW y \in Nat \ {0}
    PROVE  x \div y \in Nat /\ y * (x \div y) <= x /\ x < y * (x \div y) + y
BY SMT

\* A fraction times other lines is off by half a line at most, and exact for
\* the lines it was taken of.
LEMMA RoundedIs ==
    ASSUME NEW a \in Nat, NEW b \in Nat \ {0}, NEW n \in Nat
    PROVE  LET q == Rounded(<<a, b>>, n)
           IN /\ q \in Nat
              /\ 2 * (q * b - a * n) \in -b .. b
              /\ n = b => q = a
<1> DEFINE q == Rounded(<<a, b>>, n)
           x == 2 * a * n + b
           y == 2 * b
<1>1. q = x \div y
  BY DEF Rounded
<1>2. a * n \in Nat
  OBVIOUS
<1>3. x \in Nat /\ y \in Nat \ {0} /\ x = 2 * (a * n) + b
  BY <1>2
<1> HIDE DEF x, y
<1>4. q \in Nat /\ y * q <= x /\ x < y * q + y
  <2>1. x \div y \in Nat /\ y * (x \div y) <= x /\ x < y * (x \div y) + y
    BY <1>3, Quotient
  <2> QED BY <1>1, <2>1
<1> HIDE DEF q
<1>5. q * b \in Nat /\ y * q = 2 * (q * b)
  BY <1>4 DEF y
<1> DEFINE s == a * n
           t == q * b
<1>6. s \in Nat /\ t \in Nat /\ 2 * t <= 2 * s + b /\ 2 * s + b < 2 * t + 2 * b
  BY <1>2, <1>3, <1>4, <1>5 DEF y
<1>7. 2 * (t - s) \in -b .. b
  <2> HIDE DEF s, t
  <2> QED BY <1>6
<1>8. ASSUME n = b
      PROVE  q = a
  <2>1. s = a * b /\ t = q * b
    BY <1>8
  <2>2. ASSUME q < a PROVE FALSE
    <3>1. (q + 1) * b <= a * b
      BY <1>4, <2>2
    <3>2. (q + 1) * b = q * b + b
      BY <1>4
    <3> HIDE DEF s, t
    <3> QED BY <1>5, <1>6, <2>1, <3>1, <3>2
  <2>3. ASSUME q > a PROVE FALSE
    <3>1. (a + 1) * b <= q * b
      BY <1>4, <2>3
    <3>2. (a + 1) * b = a * b + b
      OBVIOUS
    <3> HIDE DEF s, t
    <3> QED BY <1>5, <1>6, <2>1, <3>1, <3>2
  <2> QED BY <1>4, <2>2, <2>3
<1> QED BY <1>4, <1>7, <1>8 DEF q

----------------------------------------------------------------------------
\* What moves nothing keeps the invariant.
LEMMA NothingMoves ==
    ASSUME FlowInv, scrollPending' \in Int,
           UNCHANGED <<position, width, measure, pendingFrac, pendingBottom, history, modes, ghosts>>
    PROVE  FlowInv'
<1>1. /\ section' = section /\ scroll' = scroll /\ lines' = lines /\ fresh' = fresh
      /\ width' = width /\ measure' = measure /\ pendingFrac' = pendingFrac
      /\ pendingBottom' = pendingBottom /\ back' = back /\ forth' = forth
      /\ paged' = paged /\ flows' = flows /\ lock' = lock
      /\ frame' = frame /\ wanted' = wanted /\ did' = did
  BY DEF position, history, modes, ghosts
<1>2. FlowTypes'
  BY <1>1 DEF FlowInv, FlowTypes
<1>3. Pos' = Pos /\ Lines' = Lines /\ (Flowing' <=> Flowing) /\ (OneThing' <=> OneThing)
  BY <1>1 DEF Pos, Lines, Flowing, OneThing
<1>4. (Undisturbed <=> Undisturbed') /\ (EasedAlone <=> EasedAlone')
  BY <1>1, <1>3 DEF Undisturbed, EasedAlone
<1>5. BookLine(Pos)' = BookLine(Pos)
  BY <1>1, <1>3 DEF BookLine, Pos
<1>6. Reached' <=> Reached
  BY <1>1, <1>3, <1>5 DEF Reached
<1>7. SinceFrame'
  BY <1>1, <1>3, <1>4 DEF FlowInv, SinceFrame
<1>8. Scrolls'
  BY <1>1, <1>3, <1>6 DEF FlowInv, Scrolls
<1> QED BY <1>2, <1>7, <1>8 DEF FlowInv

\* A queued scroll moves nothing yet.
LEMMA QueueScrollKeeps == ASSUME FlowInv, NEW d \in {-4, -1, 1, 4}, QueueScroll(d) PROVE FlowInv'
<1>1. scrollPending' \in Int
  BY DEF FlowInv, FlowTypes, QueueScroll
<1> QED BY <1>1, NothingMoves DEF QueueScroll
\* Nor does the end of the keys.
LEMMA EndKeysKeeps == ASSUME FlowInv, EndKeys PROVE FlowInv'
<1>1. scrollPending' \in Int
  BY DEF FlowInv, FlowTypes, EndKeys, pending
<1> QED BY <1>1, NothingMoves DEF EndKeys, pending
\* Nor does a frame that is not due.
LEMMA SkipDrawKeeps == ASSUME FlowInv, SkipDraw PROVE FlowInv'
<1>1. scrollPending' \in Int
  BY DEF FlowInv, FlowTypes, SkipDraw, pending
<1> QED BY <1>1, NothingMoves DEF SkipDraw, pending
\* Nor does a step of another part of the program.
LEMMA StutterKeeps == ASSUME FlowInv, UNCHANGED flowVars PROVE FlowInv'
<1>1. scrollPending' \in Int
  BY DEF FlowInv, FlowTypes, flowVars, pending
<1> QED BY <1>1, NothingMoves DEF flowVars, pending

\* The page keys are scrolls.
LEMMA TurnPageKeeps == ASSUME FlowInv, NEW d \in {-1, 1}, TurnPage(d) PROVE FlowInv'
<1>1. d * PageLines \in Int \ {0}
  <2>1. PageLines \in Int /\ PageLines > 0
    BY Sizes
  <2> QED BY <2>1
<1>2. PICK p \in Scrolled(d * PageLines) : Goes(p)
  BY DEF TurnPage
<1>3. ScrollStep("turn", d * PageLines, p)
  BY <1>2 DEF TurnPage, ScrollStep, FlowInv, FlowTypes
<1> HIDE DEF ScrollStep
<1> QED BY <1>1, <1>3, ScrollKeeps

\* Easing is a scroll, or nothing.
LEMMA StepScrollKeeps == ASSUME FlowInv, StepScroll PROVE FlowInv'
<1>1. CASE scrollPending = 0
  <2>1. scrollPending' = scrollPending
    BY <1>1 DEF StepScroll, pending
  <2>2. scrollPending' \in Int
    BY <2>1 DEF FlowInv, FlowTypes
  <2> QED BY <1>1, <2>2, NothingMoves DEF StepScroll, pending, ghosts
<1>2. CASE scrollPending # 0
  <2>1. scrollPending \in Int
    BY DEF FlowInv, FlowTypes
  <2>2. Eased \in Int \ {0}
    BY <1>2, <2>1 DEF Eased, Lesser, Greater
  <2>3. PICK p \in Scrolled(Eased) :
           /\ Goes(p) /\ wanted' = WantedAfter(Eased) /\ Did("scroll")
           /\ scrollPending' = IF [section |-> p.section, scroll |-> p.scroll] = Pos THEN 0
                               ELSE scrollPending - Eased
    BY <1>2 DEF StepScroll
  <2>4. scrollPending' \in Int
    BY <2>1, <2>2, <2>3
  <2>5. ScrollStep("scroll", Eased, p)
    BY <2>3, <2>4 DEF StepScroll, ScrollStep
  <2> QED BY <2>2, <2>5, ScrollKeeps
<1> QED BY <1>1, <1>2

\* After a jump nothing is wanted.
LEMMA JumpKeeps ==
    ASSUME FlowInv, NEW p, MoveTypes(p), Goes(p), Did("jump"), Unscrolled,
           back' \in Seq(FlowPlaces), forth' \in Seq(FlowPlaces),
           UNCHANGED <<width, measure, scrollPending, modes, frame>>
    PROVE  FlowInv'
<1>1. "jump" \in did' /\ wanted' = -1
  BY DEF Did, Unscrolled
<1>2. did' # {} /\ did' # {"width"} /\ did' # {"scroll"} /\ did' # {"again"}
  BY <1>1
<1>3. /\ section' \in Chapters /\ scroll' \in Nat /\ lines' \in Nat \ {0} /\ fresh' \in BOOLEAN
      /\ pendingFrac' \in Fractions /\ pendingBottom' \in BOOLEAN
  BY DEF MoveTypes, Goes
<1>4. FlowTypes'
  BY <1>1, <1>2, <1>3 DEF FlowInv, FlowTypes, modes
<1>5. SinceFrame' /\ Scrolls'
  BY <1>1, <1>2 DEF SinceFrame, Scrolls
<1> QED BY <1>4, <1>5 DEF FlowInv

\* A place of the history is one to go to.
LEMMA GotoTypes ==
    ASSUME FlowTypes, NEW c \in Chapters, NEW l \in Nat
    PROVE  MoveTypes([(IF c = section THEN Here ELSE Loaded(c)) EXCEPT !.scroll = l])
<1>1. /\ section \in Chapters /\ lines \in Nat \ {0} /\ fresh \in BOOLEAN
      /\ pendingFrac \in Fractions /\ pendingBottom \in BOOLEAN
  BY DEF FlowTypes
<1> DEFINE p == [(IF c = section THEN Here ELSE Loaded(c)) EXCEPT !.scroll = l]
<1>2. /\ p.section = c /\ p.scroll = l /\ p.lines = lines /\ p.fresh \in BOOLEAN
      /\ p.frac = pendingFrac /\ p.bottom = pendingBottom
  <2>1. CASE c = section
    <3>1. p = [Here EXCEPT !.scroll = l]
      BY <2>1
    <3> HIDE DEF p
    <3> QED BY <1>1, <2>1, <3>1, HereIs
  <2>2. CASE c # section
    <3>1. p = [Loaded(c) EXCEPT !.scroll = l]
      BY <2>2
    <3> HIDE DEF p
    <3>2. /\ p.section = c /\ p.scroll = l /\ p.lines = lines
          /\ p.fresh = FALSE /\ p.frac = pendingFrac /\ p.bottom = pendingBottom
      BY <3>1 DEF Loaded, Here, At
    <3>3. p.fresh \in BOOLEAN
      BY <3>2
    <3> QED BY <3>2, <3>3
  <2> QED BY <2>1, <2>2
<1> HIDE DEF p
<1>3. MoveTypes(p)
  BY <1>1, <1>2 DEF MoveTypes
<1> QED BY <1>3 DEF p

\* The reader is at a place.
LEMMA PosIsPlace == ASSUME FlowTypes PROVE Pos \in FlowPlaces
BY DEF FlowTypes, Pos, FlowPlaces

\* jump_to.
LEMMA JumpToKeeps == ASSUME FlowInv, NEW c \in Chapters, JumpTo(c) PROVE FlowInv'
<1> DEFINE p == IF c = section THEN [Here EXCEPT !.scroll = 0] ELSE Loaded(c)
<1>1. Goes(p) /\ back' = Append(back, Pos) /\ forth' = <<>>
  BY DEF JumpTo
<1>2. FlowTypes
  BY DEF FlowInv
<1>3. MoveTypes(p)
  <2>1. /\ section \in Chapters /\ lines \in Nat \ {0} /\ fresh \in BOOLEAN
        /\ pendingFrac \in Fractions /\ pendingBottom \in BOOLEAN
    BY <1>2 DEF FlowTypes
  <2>2. CASE c = section
    <3>1. p = [Here EXCEPT !.scroll = 0]
      BY <2>2
    <3> HIDE DEF p
    <3> QED BY <2>1, <3>1, HereIs DEF MoveTypes
  <2>3. CASE c # section
    <3>1. p = Loaded(c)
      BY <2>3
    <3> HIDE DEF p
    <3>2. /\ p.section = c /\ p.scroll = 0 /\ p.lines = lines
          /\ p.fresh = FALSE /\ p.frac = pendingFrac /\ p.bottom = pendingBottom
      BY <3>1, LoadedIs
    <3>3. p.fresh \in BOOLEAN /\ p.bottom \in BOOLEAN
      BY <2>1, <3>2
    <3> QED BY <2>1, <3>2, <3>3 DEF MoveTypes
  <2> QED BY <2>2, <2>3
<1>4. back' \in Seq(FlowPlaces) /\ forth' \in Seq(FlowPlaces)
  <2>1. Pos \in FlowPlaces /\ back \in Seq(FlowPlaces)
    BY <1>2, PosIsPlace DEF FlowTypes
  <2> HIDE DEF p
  <2>2. Append(back, Pos) \in Seq(FlowPlaces) /\ <<>> \in Seq(FlowPlaces)
    BY <2>1
  <2> QED BY <1>1, <2>2
<1> HIDE DEF p
<1> QED BY <1>1, <1>3, <1>4, JumpKeeps DEF JumpTo

\* history_back and history_forward go to the top of a stack.
LEMMA HistoryKeeps ==
    ASSUME FlowInv, HistoryBack \/ HistoryForward
    PROVE  FlowInv'
<1>1. FlowTypes /\ Pos \in FlowPlaces /\ back \in Seq(FlowPlaces) /\ forth \in Seq(FlowPlaces)
  BY PosIsPlace DEF FlowInv, FlowTypes
<1>2. PICK to \in FlowPlaces : Goto(to) /\ back' \in Seq(FlowPlaces) /\ forth' \in Seq(FlowPlaces)
  <2>1. CASE HistoryBack
    <3>1. back # <<>> /\ Goto(Last(back)) /\ back' = Front(back) /\ forth' = Append(forth, Pos)
      BY <2>1 DEF HistoryBack, Popped
    <3>2. Last(back) \in FlowPlaces /\ Front(back) \in Seq(FlowPlaces)
      BY <1>1, <3>1, StackTop
    <3> QED BY <1>1, <3>1, <3>2
  <2>2. CASE HistoryForward
    <3>1. forth # <<>> /\ Goto(Last(forth)) /\ forth' = Front(forth) /\ back' = Append(back, Pos)
      BY <2>2 DEF HistoryForward
    <3>2. Last(forth) \in FlowPlaces /\ Front(forth) \in Seq(FlowPlaces)
      BY <1>1, <3>1, StackTop
    <3> QED BY <1>1, <3>1, <3>2
  <2> QED BY <2>1, <2>2
<1> DEFINE p == [(IF to.section = section THEN Here ELSE Loaded(to.section)) EXCEPT !.scroll = to.scroll]
<1>3. to.section \in Chapters /\ to.scroll \in Nat
  BY DEF FlowPlaces
<1>4. MoveTypes(p) /\ Goes(p)
  BY <1>1, <1>2, <1>3, GotoTypes DEF Goto
<1> HIDE DEF p
<1>5. Did("jump") /\ Unscrolled /\ UNCHANGED <<width, measure, scrollPending, modes, frame>>
  BY DEF HistoryBack, HistoryForward
<1> QED BY <1>2, <1>4, <1>5, JumpKeeps

\* A setting that re-wraps holds the drawn line as a fraction of the drawn
\* lines.
LEMMA ChangeWidthKeeps == ASSUME FlowInv, NEW w \in Widths, ChangeWidth(w) PROVE FlowInv'
<1>1. /\ section' = section /\ scroll' = scroll /\ lines' = lines /\ fresh' = fresh
      /\ width' = w /\ measure' = measure /\ pendingFrac' = <<scroll, lines>>
      /\ pendingBottom' = pendingBottom /\ back' = back /\ forth' = forth
      /\ paged' = paged /\ flows' = flows /\ lock' = lock /\ scrollPending' = scrollPending
      /\ frame' = frame /\ wanted' = -1 /\ Did("width")
  BY DEF ChangeWidth, position, history, modes, Held, Unscrolled
<1>2. "width" \in did'
  BY <1>1 DEF Did
<1>3. did' # {} /\ did' # {"scroll"} /\ did' # {"again"}
  BY <1>2
<1>4. FlowTypes'
  <2>1. <<scroll, lines>> \in Fractions
    BY DEF FlowInv, FlowTypes, Fractions
  <2>2. wanted' \in Int
    BY <1>1
  <2> QED BY <1>1, <1>3, <2>1, <2>2 DEF FlowInv, FlowTypes
<1>5. SinceFrame'
  <2> SUFFICES ASSUME did' = {"width"} PROVE Undisturbed' /\ pendingFrac' = <<scroll', lines'>>
    BY <1>3 DEF SinceFrame
  <2>1. did = {}
    BY <1>1, DidFirst
  <2>2. Undisturbed
    BY <2>1 DEF FlowInv, SinceFrame
  <2>3. Undisturbed'
    BY <1>1, <2>2 DEF Undisturbed, Pos, Lines
  <2> QED BY <1>1, <2>3
<1> QED BY <1>1, <1>4, <1>5 DEF FlowInv, Scrolls

\* A resize holds nothing, and nothing is claimed of it.
LEMMA ResizeKeeps == ASSUME FlowInv, NEW w \in Widths, Resize(w) PROVE FlowInv'
<1>1. /\ section' = section /\ scroll' = scroll /\ lines' = lines /\ fresh' = fresh
      /\ width' = w /\ measure' = measure /\ pendingFrac' = pendingFrac
      /\ pendingBottom' = pendingBottom /\ back' = back /\ forth' = forth
      /\ paged' = paged /\ flows' = flows /\ lock' = lock /\ scrollPending' = scrollPending
      /\ frame' = frame /\ wanted' = -1 /\ Did("resize")
  BY DEF Resize, position, history, modes, pending, Unscrolled
<1>2. "resize" \in did'
  BY <1>1 DEF Did
<1>3. did' # {} /\ did' # {"width"} /\ did' # {"scroll"} /\ did' # {"again"} /\ wanted' \in Int
  BY <1>1, <1>2
<1>4. FlowTypes'
  BY <1>1, <1>3 DEF FlowInv, FlowTypes
<1> QED BY <1>1, <1>3, <1>4 DEF FlowInv, Scrolls, SinceFrame

----------------------------------------------------------------------------
\* resolve_pending: a fraction of the chapter's own lines gives its line back.
LEMMA ResolvedIs ==
    ASSUME FlowTypes, NEW n \in Nat \ {0}
    PROVE  /\ Resolved(n) \in Nat
           /\ pendingFrac = <<scroll, n>> => Resolved(n) = Lesser(scroll, n - 1)
           /\ pendingFrac = NoFrac => Resolved(n) = IF pendingBottom THEN MaxScrollOf(n) ELSE scroll
<1>1. scroll \in Nat /\ pendingFrac \in Fractions /\ MaxScrollOf(n) \in Nat
  BY MaxScrollIs DEF FlowTypes
<1>2. CASE pendingFrac = NoFrac
  <2>1. Resolved(n) = IF pendingBottom THEN MaxScrollOf(n) ELSE scroll
    BY <1>2 DEF Resolved
  <2>2. pendingFrac # <<scroll, n>>
    BY <1>2 DEF NoFrac
  <2> QED BY <1>1, <1>2, <2>1, <2>2
<1>3. CASE pendingFrac # NoFrac
  <2>1. PICK a \in Nat, b \in Nat \ {0} : pendingFrac = <<a, b>>
    BY <1>1, <1>3 DEF Fractions
  <2>2. Rounded(<<a, b>>, n) \in Nat /\ (n = b => Rounded(<<a, b>>, n) = a)
    BY <2>1, RoundedIs
  <2>3. Resolved(n) = Lesser(Rounded(<<a, b>>, n), n - 1)
    BY <1>3, <2>1 DEF Resolved
  <2>4. Resolved(n) \in Nat
    BY <2>2, <2>3 DEF Lesser
  <2>5. pendingFrac = <<scroll, n>> => a = scroll /\ b = n
    BY <2>1
  <2> QED BY <1>3, <2>2, <2>3, <2>4, <2>5
<1> QED BY <1>2, <1>3

\* Snapping leaves a line alone unless pages are turned.
LEMMA SnappedIs ==
    ASSUME FlowTypes, NEW l \in Nat
    PROVE  Snapped(l) \in Nat /\ (~paged => Snapped(l) = l)
<1>1. PageLines \in Nat \ {0}
  BY Sizes
<1>2. (l \div PageLines) \in Nat
  BY <1>1, Quotient
<1>3. \A k \in Nat : k * PageLines \in Nat
  BY <1>1
<1>4. (l \div PageLines) * PageLines \in Nat
  BY <1>2, <1>3
<1> QED BY <1>4 DEF Snapped

(* A frame: what it shows.                                                  *)
DrawnAt(n) ==
    /\ n = Wrapped[width][section] /\ n \in Nat \ {0}
    /\ measure' = width /\ lines' = n /\ fresh' = TRUE /\ section' = section
    /\ scroll' = Clamped(Snapped(Resolved(n)), n) /\ scroll' \in Nat
    /\ frame' = [section |-> section, scroll |-> scroll']
    /\ pendingFrac' = NoFrac /\ pendingBottom' = FALSE /\ scrollPending' \in Int /\ did' = {}
    /\ width' = width /\ back' = back /\ forth' = forth
    /\ paged' = paged /\ flows' = flows /\ lock' = lock
    /\ wanted' = IF wanted = -1 \/ width # measure \/ ~OneThing
                 THEN IF scroll' < n THEN Before(width, section) + scroll' ELSE -1
                 ELSE wanted
    /\ ~ (Flowing /\ section < LastChapter) => scroll' <= MaxScrollOf(n)
\* A frame does this.
LEMMA DrawIs ==
    ASSUME FlowTypes, Draw
    PROVE  \E n \in Nat : DrawnAt(n)
<1> DEFINE n == Wrapped[width][section]
<1>1. n \in Nat \ {0}
  BY Sizes DEF FlowTypes
<1>2. /\ measure' = width /\ lines' = n /\ fresh' = TRUE /\ section' = section
      /\ scroll' = Clamped(Snapped(Resolved(n)), n)
      /\ frame' = [section |-> section, scroll |-> scroll']
      /\ pendingFrac' = NoFrac /\ pendingBottom' = FALSE /\ did' = {}
      /\ scrollPending' = IF paged THEN 0 ELSE scrollPending
      /\ width' = width /\ back' = back /\ forth' = forth
      /\ paged' = paged /\ flows' = flows /\ lock' = lock
      /\ wanted' = IF wanted = -1 \/ width # measure \/ ~OneThing
                   THEN IF scroll' < n THEN Before(width, section) + scroll' ELSE -1
                   ELSE wanted
  BY DEF Draw, history, modes
<1>3. scrollPending' \in Int
  BY <1>2 DEF FlowTypes
<1> HIDE DEF n
<1> DEFINE l == Snapped(Resolved(n))
<1>4. l \in Nat /\ MaxScrollOf(n) \in Nat
  BY <1>1, ResolvedIs, SnappedIs, MaxScrollIs
<1> HIDE DEF l
<1>5. Clamped(l, n) \in Nat /\ (~ (Flowing /\ section < LastChapter) => Clamped(l, n) <= MaxScrollOf(n))
  BY <1>4 DEF Clamped, Lesser
<1>6. scroll' \in Nat /\ (~ (Flowing /\ section < LastChapter) => scroll' <= MaxScrollOf(n))
  BY <1>2, <1>5 DEF l
<1>7. DrawnAt(n)
  BY <1>1, <1>2, <1>3, <1>6 DEF DrawnAt, n
<1> QED BY <1>1, <1>7

(* Where a scroll is to be drawn, it is drawn at the line it reached.       *)
LEMMA DrawsReached ==
    ASSUME FlowTypes, Reached, ~paged, Flowing, width = measure, NEW n \in Nat, DrawnAt(n)
    PROVE  scroll' = scroll /\ n = Lines
<1>1. scroll \in Nat /\ section \in Chapters /\ section \in Nat /\ section <= LastChapter
  BY ChapterSteps DEF FlowTypes
<1>2. n = Lines /\ n \in Nat \ {0}
  BY DEF DrawnAt, Lines
<1>3. /\ scroll < n /\ ~pendingBottom /\ pendingFrac \in {NoFrac, <<scroll, n>>}
      /\ section = LastChapter => scroll <= MaxScrollOf(n)
  BY <1>2 DEF Reached
<1>4. Resolved(n) = scroll
  <2>1. CASE pendingFrac = NoFrac
    BY <1>2, <1>3, <2>1, ResolvedIs
  <2>2. CASE pendingFrac = <<scroll, n>>
    <3>1. Resolved(n) = Lesser(scroll, n - 1)
      BY <1>2, <2>2, ResolvedIs
    <3> QED BY <1>1, <1>2, <1>3, <3>1 DEF Lesser
  <2> QED BY <1>3, <2>1, <2>2
<1>5. Snapped(Resolved(n)) = scroll
  BY <1>1, <1>4, SnappedIs
<1>6. MaxScrollOf(n) \in Nat
  BY MaxScrollIs
<1>7. Clamped(scroll, n) = scroll
  <2>1. CASE section < LastChapter
    BY <2>1 DEF Clamped
  <2>2. CASE section = LastChapter
    <3>1. scroll <= MaxScrollOf(n)
      BY <1>3, <2>2
    <3> QED BY <1>1, <1>6, <2>2, <3>1 DEF Clamped, Lesser
  <2> QED BY <1>1, <2>1, <2>2, Sizes
<1> QED BY <1>2, <1>5, <1>7 DEF DrawnAt

\* A frame settles the place, and draws a reached line where it is.
LEMMA DrawKeeps == ASSUME FlowInv, Draw PROVE FlowInv'
<1>1. FlowTypes
  BY DEF FlowInv
<1>2. PICK n \in Nat : DrawnAt(n)
  BY <1>1, DrawIs
<1>3. /\ n = Wrapped[width][section] /\ n \in Nat \ {0}
      /\ measure' = width /\ lines' = n /\ fresh' = TRUE /\ section' = section
      /\ scroll' \in Nat /\ frame' = [section |-> section, scroll |-> scroll']
      /\ pendingFrac' = NoFrac /\ pendingBottom' = FALSE /\ scrollPending' \in Int /\ did' = {}
      /\ width' = width /\ back' = back /\ forth' = forth
      /\ paged' = paged /\ flows' = flows /\ lock' = lock
      /\ ~ (Flowing /\ section < LastChapter) => scroll' <= MaxScrollOf(n)
  BY <1>2 DEF DrawnAt
<1>4. wanted' = IF wanted = -1 \/ width # measure \/ ~OneThing
                THEN IF scroll' < n THEN Before(width, section) + scroll' ELSE -1
                ELSE wanted
  BY <1>2 DEF DrawnAt
<1>5. section \in Chapters /\ width \in Widths /\ wanted \in Int /\ Before(width, section) \in Nat
  BY <1>1, BeforeIs DEF FlowTypes
<1>6. FlowTypes'
  <2>1. wanted' \in Int
    BY <1>3, <1>4, <1>5
  <2>2. frame' \in FlowPlaces /\ pendingFrac' \in Fractions
    BY <1>3, <1>5 DEF FlowPlaces, Fractions
  <2>3. fresh' \in BOOLEAN /\ pendingBottom' \in BOOLEAN /\ did' # {"again"}
    BY <1>3
  <2> QED BY <1>1, <1>3, <2>1, <2>2, <2>3 DEF FlowTypes
<1>7. Lines' = n
  BY <1>3 DEF Lines
<1>8. section' = LastChapter => scroll' <= MaxScrollOf(Lines')
  <2>1. ~ (LastChapter < LastChapter)
    BY Sizes
  <2> QED BY <1>3, <1>7, <2>1
<1>9. SinceFrame'
  <2>1. Pos' = frame'
    BY <1>3 DEF Pos
  <2>2. Undisturbed'
    BY <1>3, <1>7, <1>8, <2>1 DEF Undisturbed
  <2>3. did' # {"width"} /\ did' # {"scroll"}
    BY <1>3
  <2> QED BY <1>3, <2>2, <2>3 DEF SinceFrame
<1>10. Scrolls'
  <2> SUFFICES ASSUME wanted' # -1, Reserved' = {0}, Flowing', ~paged' PROVE Reached'
    BY <1>3 DEF Scrolls
  <2>1. BookLine(Pos)' = Before(width, section) + scroll'
    BY <1>3 DEF BookLine, Pos
  <2>2. wanted' = Before(width, section) + scroll' /\ scroll' < n
    <3>1. CASE wanted = -1 \/ width # measure \/ ~OneThing
      BY <1>4, <3>1
    <3>2. CASE ~ (wanted = -1 \/ width # measure \/ ~OneThing)
      <4>1. wanted' = wanted /\ wanted # -1 /\ width = measure /\ OneThing
        BY <1>4, <3>2
      <4>2. Flowing /\ ~paged /\ Reserved = {0}
        BY <1>3 DEF Flowing
      <4>3. Reached
        BY <4>1, <4>2 DEF FlowInv, Scrolls
      <4>4. scroll' = scroll /\ n = Lines
        BY <1>1, <1>2, <4>1, <4>2, <4>3, DrawsReached
      <4>5. wanted = Before(measure, section) + scroll /\ scroll < Lines
        BY <4>3 DEF Reached, BookLine, Pos
      <4> QED BY <4>1, <4>4, <4>5
    <3> QED BY <3>1, <3>2
  <2>3. fresh' /\ ~pendingBottom' /\ pendingFrac' \in {NoFrac, <<scroll', Lines'>>}
    BY <1>3
  <2> QED BY <1>7, <1>8, <2>1, <2>2, <2>3 DEF Reached
<1> QED BY <1>6, <1>9, <1>10 DEF FlowInv

\* Every step keeps the invariant.
LEMMA NextFlow == FlowInv /\ [FlowNext]_flowVars => FlowInv'
<1> SUFFICES ASSUME FlowInv, [FlowNext]_flowVars PROVE FlowInv'
  OBVIOUS
<1>1. ASSUME NEW d \in {-4, -1, 1, 4}, QueueScroll(d) PROVE FlowInv'
  BY <1>1, QueueScrollKeeps
<1>2. ASSUME NEW d \in {-1, 1}, TurnPage(d) PROVE FlowInv'
  BY <1>2, TurnPageKeeps
<1>3. ASSUME NEW c \in Chapters, JumpTo(c) PROVE FlowInv'
  BY <1>3, JumpToKeeps
<1>4. CASE HistoryBack \/ HistoryForward
  BY <1>4, HistoryKeeps
<1>5. ASSUME NEW w \in Widths, ChangeWidth(w) \/ Resize(w) PROVE FlowInv'
  BY <1>5, ChangeWidthKeeps, ResizeKeeps
<1>6. CASE EndKeys \/ StepScroll \/ Draw \/ SkipDraw
  BY <1>6, EndKeysKeeps, StepScrollKeeps, DrawKeeps, SkipDrawKeeps
<1>7. CASE UNCHANGED flowVars
  BY <1>7, StutterKeeps
<1> QED BY <1>1, <1>2, <1>3, <1>4, <1>5, <1>6, <1>7 DEF FlowNext

(* Whatever the keys, the wheel, the settings, the window and the frames do *)
(* in whatever order, reading on keeps its invariant.                       *)
THEOREM FlowInvariance == FlowSpec => []FlowInv
BY InitFlow, NextFlow, PTL DEF FlowSpec

----------------------------------------------------------------------------
\* The invariant is stronger than what is checked of the line.
LEMMA InvIsExact == Reserved = {0} /\ FlowInv => FlowExact
<1> SUFFICES ASSUME Reserved = {0}, FlowInv, Flowing /\ ~paged /\ wanted # -1 /\ fresh /\ OneThing
             PROVE  BookLine(Pos) = wanted
  BY DEF FlowExact
<1> QED BY DEF FlowInv, Scrolls, Reached

\* A frame after easing alone shows the adjoining edge.
LEMMA EasesInView ==
    ASSUME FlowInv, Draw, ~paged, did = {"scroll"}, ~Flowing, width = measure
    PROVE  EasedInView
<1>1. FlowTypes /\ EasedAlone
  BY DEF FlowInv, SinceFrame
<1>2. PICK n \in Nat : DrawnAt(n)
  BY <1>1, DrawIs
<1>3. /\ n = Wrapped[measure][section] /\ n \in Nat \ {0}
      /\ scroll' = Clamped(Snapped(Resolved(n)), n)
  BY <1>2 DEF DrawnAt
<1>4. MaxScrollOf(n) \in Nat /\ MaxScrollOf(n) + PageLines >= n
  BY MaxScrollIs
<1>5. CASE section = frame.section
  BY <1>5 DEF EasedInView
<1>6. CASE /\ pendingFrac = NoFrac /\ ~pendingBottom /\ scroll = 0 /\ section = frame.section + 1
           /\ frame.scroll + PageLines >= Wrapped[measure][frame.section]
  <2>1. Resolved(n) = 0
    BY <1>1, <1>3, <1>6, ResolvedIs
  <2>2. Snapped(Resolved(n)) = 0
    BY <1>1, <2>1, SnappedIs
  <2>3. Clamped(0, n) = 0
    BY <1>4 DEF Clamped, Lesser
  <2> QED BY <1>3, <1>6, <2>2, <2>3 DEF EasedInView
<1>7. CASE /\ pendingFrac = NoFrac /\ pendingBottom
           /\ section = frame.section - 1 /\ frame.scroll = 0
  <2>1. Resolved(n) = MaxScrollOf(n)
    BY <1>1, <1>3, <1>7, ResolvedIs
  <2>2. Snapped(Resolved(n)) = MaxScrollOf(n)
    BY <1>1, <1>4, <2>1, SnappedIs
  <2>3. Clamped(MaxScrollOf(n), n) = MaxScrollOf(n)
    BY <1>4 DEF Clamped, Lesser
  <2>4. scroll' = MaxScrollOf(n)
    BY <1>3, <2>2, <2>3
  <2> QED BY <1>3, <1>4, <1>7, <2>4 DEF EasedInView
<1> QED BY <1>1, <1>5, <1>6, <1>7 DEF EasedAlone

\* A frame after a setting is within the rounding of a line.
LEMMA KeepsPlace ==
    ASSUME FlowInv, Draw, ~paged, did = {"width"}
    PROVE  PlaceKept
<1>1. FlowTypes /\ Undisturbed /\ pendingFrac = <<scroll, lines>>
  BY DEF FlowInv, SinceFrame
<1> DEFINE m == Wrapped[measure][section]
           n == Wrapped[width][section]
           q == Rounded(<<scroll, lines>>, n)
<1>2. lines = m /\ frame.scroll = scroll
  BY <1>1 DEF Undisturbed, Lines, Pos
<1>3. scroll \in Nat /\ m \in Nat \ {0} /\ n \in Nat \ {0}
  BY <1>1, Sizes DEF FlowTypes
<1>4. scroll' = Clamped(Snapped(Resolved(n)), n)
  BY DEF Draw
<1> HIDE DEF m, n
<1>5. q \in Nat /\ 2 * (q * m - scroll * n) \in -m .. m
  BY <1>2, <1>3, RoundedIs
<1>6. Resolved(n) = Lesser(q, n - 1) /\ Resolved(n) \in Nat
  <2>1. pendingFrac # NoFrac
    BY <1>1, <1>2, <1>3 DEF NoFrac
  <2>2. Resolved(n) = Lesser(q, n - 1)
    BY <1>1, <2>1 DEF Resolved
  <2> QED BY <1>1, <1>3, <2>2, ResolvedIs
<1>7. Snapped(Resolved(n)) = Resolved(n)
  BY <1>1, <1>6, SnappedIs
<1> HIDE DEF q
<1>8. scroll' = q \/ scroll' \in {n - 1, MaxScrollOf(n)}
  <2>1. Resolved(n) = q \/ Resolved(n) = n - 1
    BY <1>6 DEF Lesser
  <2>2. scroll' = Resolved(n) \/ scroll' = MaxScrollOf(n)
    BY <1>4, <1>7 DEF Clamped, Lesser
  <2> QED BY <2>1, <2>2
<1>9. scroll' = q => 2 * (scroll' * m - frame.scroll * n) \in -m .. m
  BY <1>2, <1>5
<1> QED BY <1>8, <1>9 DEF PlaceKept, m, n

\* Going to a place of the history is being there.
LEMMA GoesThere ==
    ASSUME NEW to \in FlowPlaces, Goto(to)
    PROVE  Pos' = to
<1>1. to = [section |-> to.section, scroll |-> to.scroll]
  BY DEF FlowPlaces
<1>2. section' = to.section /\ scroll' = to.scroll
  <2> DEFINE p == [(IF to.section = section THEN Here ELSE Loaded(to.section)) EXCEPT !.scroll = to.scroll]
  <2>1. p.section = to.section /\ p.scroll = to.scroll
    BY DEF Here, Loaded, At
  <2>2. section' = p.section /\ scroll' = p.scroll
    BY DEF Goto, Goes
  <2> HIDE DEF p
  <2> QED BY <2>1, <2>2
<1> QED BY <1>1, <1>2 DEF Pos

\* The history's two stacks and the place between them are one trail.
LEMMA TrailKept ==
    ASSUME FlowInv, HistoryBack \/ HistoryForward
    PROVE  Trail' = Trail
<1> DEFINE P == FlowPlaces
<1>1. Pos \in P /\ back \in Seq(P) /\ forth \in Seq(P)
  BY PosIsPlace DEF FlowInv, FlowTypes
<1>2. <<Pos>> \in Seq(P) /\ Reverse(forth) \in Seq(P)
  BY <1>1, ReverseIsSeq
<1>3. CASE HistoryBack
  <2> DEFINE f == Front(back)
             l == Last(back)
  <2>1. back # <<>> /\ Goto(l) /\ back' = f /\ forth' = Append(forth, Pos)
    BY <1>3 DEF HistoryBack, Popped
  <2>2. l \in P /\ f \in Seq(P) /\ back = f \o <<l>>
    BY <1>1, <2>1, StackTop, LastThenFront
  <2>3. Pos' = l
    BY <2>1, <2>2, GoesThere
  <2>4. Reverse(forth') = <<Pos>> \o Reverse(forth)
    BY <1>1, <2>1, ReverseAppended
  <2> DEFINE here == <<Pos>>
             rest == Reverse(forth)
  <2>5. Trail' = (f \o <<l>>) \o (here \o rest)
    BY <2>1, <2>3, <2>4 DEF Trail
  <2>6. Trail = (back \o here) \o rest
    BY DEF Trail
  <2>7. (back \o here) \o rest = back \o (here \o rest)
    <3> HIDE DEF here, rest, P
    <3> QED BY <1>1, <1>2, ConcatAssociative DEF here, rest
  <2> HIDE DEF here, rest
  <2> QED BY <2>2, <2>5, <2>6, <2>7
<1>4. CASE HistoryForward
  <2> DEFINE f == Front(forth)
             l == Last(forth)
  <2>1. forth # <<>> /\ Goto(l) /\ forth' = f /\ back' = Append(back, Pos)
    BY <1>4 DEF HistoryForward
  <2>2. l \in P /\ f \in Seq(P) /\ forth = f \o <<l>>
    BY <1>1, <2>1, StackTop, LastThenFront
  <2>3. Pos' = l
    BY <2>1, <2>2, GoesThere
  <2> HIDE DEF f, l, P
  <2>4. f \o <<l>> = Append(f, l)
    BY <2>2
  <2>5. Reverse(forth) = <<l>> \o Reverse(f)
    BY <2>2, <2>4, ReverseAppended
  <2>6. Append(back, Pos) = back \o <<Pos>>
    BY <1>1
  <2> DEFINE far == back \o <<Pos>>
             rest == Reverse(f)
             top == <<l>>
  <2>7. Trail' = (far \o top) \o rest
    BY <2>1, <2>3, <2>6 DEF Trail
  <2>8. Trail = far \o (top \o rest)
    BY <2>5 DEF Trail
  <2>9. far \in Seq(P) /\ top \in Seq(P) /\ rest \in Seq(P)
    BY <1>1, <1>2, <2>2, ReverseIsSeq
  <2> HIDE DEF far, rest, top
  <2> QED BY <2>7, <2>8, <2>9, ConcatAssociative
<1> QED BY <1>3, <1>4

(* app/reader: easing passes no line unseen where chapters start afresh, a  *)
(* setting keeps the place, and going back and forward moves along one trail. *)
THEOREM FramesFollowOneAnother == FlowSpec => FramesFollow /\ HistoryKept
<1>1. FlowInv /\ [FlowNext]_flowVars =>
        [(Draw /\ ~paged) =>
           /\ (did = {"scroll"} /\ ~Flowing /\ width = measure) => EasedInView
           /\ did = {"width"} => PlaceKept]_flowVars
  BY EasesInView, KeepsPlace
<1>2. FlowInv /\ [FlowNext]_flowVars => [(HistoryBack \/ HistoryForward) => Trail' = Trail]_flowVars
  BY TrailKept
<1> QED BY <1>1, <1>2, FlowInvariance, PTL DEF FlowSpec, FramesFollow, HistoryKept

(* app/reader/continuous.rs: besides, where chapters flow a scroll leads to *)
(* exactly the book line it should, over any number of chapters of any      *)
(* lengths, at any widths.  The assumption: no figure is unsized when its   *)
(* chapter is first wrapped (else the first wrap is provisional and the     *)
(* fraction it keeps is of other lines).                                    *)
THEOREM ThePlaceFollows ==
    ASSUME Reserved = {0}
    PROVE  FlowSpec => PlaceFollows
<1>1. FlowInv => FlowExact
  BY InvIsExact
<1>2. FlowSpec => FramesFollow /\ HistoryKept
  BY FramesFollowOneAnother
<1> QED BY <1>1, <1>2, FlowInvariance, PTL DEF FlowSpec, PlaceFollows
=============================================================================
