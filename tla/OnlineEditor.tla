---------------------------- MODULE OnlineEditor ----------------------------
(***************************************************************************)
(* The metadata editor's online side (app/editor/lookup.rs and the shell   *)
(* in app/editor/mod.rs): a search for metadata, a search for covers, the  *)
(* download of a chosen candidate's cover and the preview of a highlighted *)
(* one all answer through ONE receiver, App.online_rx, which outlives the  *)
(* editor and is replaced by the next request.                             *)
(***************************************************************************)
EXTENDS Integers, Sequences

CONSTANTS
    Edited,      \* books of the library's list, a sequence
    HitCount,    \* hits of a cover search that finds any
    Presses      \* bound: key presses of one behaviour

NoBook == "none"
EBooks == {Edited[i] : i \in 1..Len(Edited)}
Pics == EBooks \X (0..HitCount)    \* <<b, 0>> is a candidate's own cover
NoPic == <<NoBook, 0>>
Tabs == {"Details", "Cover", "Online"}
Versions == 0..2                   \* of the Details' title and author
Blank == 2                         \* the one there is nothing to search for by

ASSUME EditorAssumption ==
    Len(Edited) > 0 /\ NoBook \notin EBooks /\ HitCount \in Nat \ {0} /\ Presses \in Nat

VARIABLES
    editing,       \* MetaEdit.path, or NoBook when the overlay is closed
    queue,         \* App.edit_queue
    listed,        \* books the library's list still holds
    tab, details, seedFrom,
    nth,           \* ghost: which opening of an editor this is
    results,       \* online.results: [of, nth, ver] of their search, or NoHits
    hits,          \* cover_hits: likewise
    row,           \* cover_search.row
    fetching, coverFetching, coverPending,
    diff,          \* the candidate under review is of this book's search, or NoBook
    staged,        \* MetaEdit.cover
    previewCover,  \* MetaEdit.preview_cover
    shown, shownUrl, aimedAt, rested, \* edit_cover, _url, _target, debounce over
    slot,          \* online_rx with its worker: a request, or NoJob
    asking,        \* pending_confirm: save these changes?
    filed,         \* covers in the books' files
    presses        \* bound

book == <<editing, nth, queue, tab, details, seedFrom, diff, staged, asking>>
searches == <<results, hits, row, fetching, coverFetching, coverPending>>
preview == <<previewCover, shown, shownUrl, aimedAt, rested>>
world == <<listed, filed>>
editorVars == <<book, searches, preview, slot, world, presses>>

NoHits == [of |-> NoBook, nth |-> 0, ver |-> 0]
NoJob == [kind |-> "none", of |-> NoBook, nth |-> 0, ver |-> 0, pic |-> NoPic, done |-> FALSE]
Job(kind, pic) ==
    [kind |-> kind, of |-> editing, nth |-> nth, ver |-> seedFrom', pic |-> pic,
     done |-> FALSE]

EditorInit ==
    /\ editing = NoBook /\ nth = 0 /\ queue = <<>> /\ listed = EBooks
    /\ tab = "Details" /\ details = 0 /\ seedFrom = 0
    /\ results = NoHits /\ hits = NoHits /\ row = 1
    /\ fetching = FALSE /\ coverFetching = FALSE /\ coverPending = FALSE
    /\ diff = NoBook /\ staged = NoPic /\ previewCover = NoPic
    /\ shown = NoPic /\ shownUrl = NoPic /\ aimedAt = NoPic /\ rested = FALSE
    /\ slot = NoJob /\ asking = FALSE
    /\ filed = [b \in EBooks |-> NoPic] /\ presses = 0

----------------------------------------------------------------------------
(* Keys.  An open confirmation takes them all.                             *)
Press == presses < Presses /\ presses' = presses + 1
Nav == Press /\ editing # NoBook /\ ~asking /\ diff = NoBook

(* open_meta_edit_path: a fresh editor; the receiver is left as it is.  A  *)
(* book the list no longer holds opens nothing.                            *)
Fresh(b) ==
    /\ editing' = b /\ nth' = nth + 1 /\ tab' = "Details" /\ details' = 0 /\ seedFrom' = 0
    /\ results' = NoHits /\ hits' = NoHits /\ row' = 1
    /\ fetching' = FALSE /\ coverFetching' = FALSE /\ coverPending' = FALSE
    /\ diff' = NoBook /\ staged' = NoPic /\ previewCover' = NoPic
Closed ==
    /\ editing' = NoBook
    /\ UNCHANGED <<nth, tab, details, seedFrom, searches, diff, staged, previewCover>>

(* advance_edit_queue, or the editor as `rest` leaves it.                  *)
Advance(rest) ==
    IF queue = <<>> THEN queue' = queue /\ rest
    ELSE /\ queue' = Tail(queue)
         /\ IF Head(queue) \in listed THEN Fresh(Head(queue)) ELSE rest

OpenMetaEdit(b) ==
    /\ Press /\ editing = NoBook /\ b \in listed
    /\ Fresh(b)
    /\ UNCHANGED <<queue, asking, shown, shownUrl, aimedAt, rested, slot, world>>

(* start_bulk_edit on every listed book.                                   *)
StartBulkEdit ==
    /\ Press /\ editing = NoBook
    /\ LET marked == SelectSeq(Edited, LAMBDA b : b \in listed)
       IN /\ marked # <<>> /\ Fresh(Head(marked)) /\ queue' = Tail(marked)
    /\ UNCHANGED <<asking, shown, shownUrl, aimedAt, rested, slot, world>>

(* Esc: with a queue whose next book is gone, nothing opens or closes.     *)
Skip ==
    /\ Nav
    /\ Advance(IF queue = <<>> THEN Closed
               ELSE UNCHANGED <<editing, nth, tab, details, seedFrom, searches, diff,
                                staged, previewCover>>)
    /\ UNCHANGED <<asking, shown, shownUrl, aimedAt, rested, slot, world>>

(* Editing the Details' title or author, or extracting them.               *)
ChangeDetails ==
    /\ Nav /\ tab = "Details"
    /\ details' \in Versions \ {details}
    /\ UNCHANGED <<editing, nth, queue, tab, seedFrom, diff, staged, asking, searches,
                   preview, slot, world>>

(* Whether the query of tab `t` is blank.  The Cover tab searches even so, *)
(* by ISBN; the Lookup tab's, composed from its fields, is that of the     *)
(* Details it is seeded from, unless the fields were typed into since.     *)
Queries(t, reseeded) ==
    IF t = "Cover" THEN {FALSE} ELSE IF reseeded THEN {details = Blank} ELSE BOOLEAN

(* online_search from tab `t`: a blank query returns at once.  Otherwise   *)
(* both flags are dropped, one is raised, and the receiver is replaced.    *)
Search(t, kept) ==
    /\ fetching' = (t = "Online") /\ coverFetching' = (t = "Cover")
    /\ results' = IF t = "Online" THEN NoHits ELSE kept.results
    /\ hits' = IF t = "Cover" THEN NoHits ELSE kept.hits
    /\ row' = IF t = "Cover" THEN 1 ELSE row
    /\ slot' = Job(t, NoPic)
    /\ UNCHANGED coverPending

SearchAgain ==
    /\ Nav /\ tab \in {"Cover", "Online"}
    /\ UNCHANGED <<book, preview, world>>
    /\ \E blank \in Queries(tab, FALSE) :
           IF blank THEN UNCHANGED <<searches, slot>>
           ELSE Search(tab, [results |-> results, hits |-> hits])

(* meta_edit_goto_tab: a search tab is seeded again if the Details changed *)
(* (reseed_search_from_details), which leaves the receiver as it is, and,  *)
(* if it has nothing, searched.                                            *)
(* (mutant: a changed seed keeps the results it had)                       *)
ReseedKept == [results |-> results, hits |-> hits]
Reseed ==
    IF seedFrom = details THEN [results |-> results, hits |-> hits]
    ELSE [results |-> NoHits, hits |-> NoHits]
GotoTab(t) ==
    /\ Nav /\ tab' = t
    /\ UNCHANGED <<editing, nth, queue, details, diff, staged, asking, preview, world>>
    /\ IF t = "Details" THEN UNCHANGED <<seedFrom, searches, slot>>
       ELSE LET same == seedFrom = details
                idle == IF t = "Cover" THEN Reseed.hits = NoHits /\ ~(same /\ coverFetching)
                        ELSE Reseed.results = NoHits /\ ~(same /\ fetching)
            IN /\ seedFrom' = details
               /\ \E blank \in Queries(t, ~same) :
                  IF idle /\ ~blank THEN Search(t, Reseed)
                  ELSE /\ results' = Reseed.results /\ hits' = Reseed.hits
                       /\ fetching' = (same /\ fetching)
                       /\ coverFetching' = (same /\ coverFetching)
                       /\ UNCHANGED <<row, coverPending, slot>>

OpenDiff ==
    /\ Nav /\ tab = "Online" /\ results # NoHits
    /\ diff' = results.of
    /\ UNCHANGED <<editing, nth, queue, tab, details, seedFrom, staged, asking, searches,
                   preview, slot, world>>

CancelDiff ==
    /\ Press /\ editing # NoBook /\ ~asking /\ diff # NoBook /\ diff' = NoBook
    /\ UNCHANGED <<editing, nth, queue, tab, details, seedFrom, staged, asking, searches,
                   preview, slot, world>>

(* apply_diff: the ticked values go to the Details; the candidate's cover, *)
(* if it has one, is asked for.                                            *)
ApplyDiff(hasCover) ==
    /\ Press /\ editing # NoBook /\ ~asking /\ diff # NoBook
    /\ diff' = NoBook /\ tab' = "Details" /\ details' \in Versions
    /\ UNCHANGED <<editing, nth, queue, seedFrom, staged, asking, results, hits, row, fetching,
                   coverFetching, preview, world>>
    /\ coverPending' = hasCover
    /\ slot' = IF hasCover THEN Job("Chosen", <<diff, 0>>) ELSE slot

NextRows == {row - 1, row + 1} \cap 1..HitCount
MoveRow ==
    /\ Nav /\ tab = "Cover" /\ hits # NoHits
    /\ row' \in NextRows
    /\ UNCHANGED <<book, results, hits, fetching, coverFetching, coverPending, preview,
                   slot, world>>

(* stage_preview_cover: what is previewed, not what is highlighted.        *)
StagePreview ==
    /\ Nav /\ tab = "Cover" /\ hits # NoHits /\ previewCover # NoPic
    /\ staged' = previewCover
    /\ UNCHANGED <<editing, nth, queue, tab, details, seedFrom, diff, asking, searches,
                   preview, slot, world>>

AskSave ==
    /\ Nav /\ asking' = TRUE
    /\ UNCHANGED <<editing, nth, queue, tab, details, seedFrom, diff, staged, searches,
                   preview, slot, world>>

AnswerNo ==
    /\ Press /\ asking /\ asking' = FALSE
    /\ UNCHANGED <<editing, nth, queue, tab, details, seedFrom, diff, staged, searches,
                   preview, slot, world>>

(* save_meta_edit: a staged cover is embedded; the next book of a bulk     *)
(* edit opens.                                                             *)
SaveMetaEdit ==
    /\ Press /\ asking /\ asking' = FALSE
    /\ filed' = IF staged = NoPic THEN filed ELSE [filed EXCEPT ![editing] = staged]
    /\ Advance(Closed)
    /\ UNCHANGED <<listed, shown, shownUrl, aimedAt, rested, slot>>

(* A scan's result: the list no longer holds a book.                       *)
Unlist(b) ==
    /\ Press /\ b \in listed /\ listed' = listed \ {b}
    /\ UNCHANGED <<book, searches, preview, slot, filed>>

----------------------------------------------------------------------------
(* The worker, and the loop's turn.                                        *)

Answer ==
    /\ slot # NoJob /\ ~slot.done /\ slot' = [slot EXCEPT !.done = TRUE]
    /\ UNCHANGED <<book, searches, preview, world, presses>>

(* poll_online: an answer without an editor is dropped; `found` is whether *)
(* it holds anything.                                                      *)
PollOnline(found) ==
    /\ slot.done /\ slot' = NoJob
    /\ IF editing = NoBook
       THEN UNCHANGED <<searches, preview, staged>>
       ELSE LET list == IF found THEN [of |-> slot.of, nth |-> slot.nth, ver |-> slot.ver] ELSE NoHits
                pic == IF found THEN slot.pic ELSE NoPic
            IN \/ /\ slot.kind = "Online" /\ results' = list /\ fetching' = FALSE
                  /\ UNCHANGED <<hits, row, coverFetching, coverPending, preview, staged>>
               \/ /\ slot.kind = "Cover" /\ hits' = list /\ row' = 1 /\ coverFetching' = FALSE
                  /\ UNCHANGED <<results, fetching, coverPending, preview, staged>>
               \/ /\ slot.kind = "Chosen" /\ coverPending' = FALSE
                  /\ staged' = IF found THEN pic ELSE staged
                  /\ UNCHANGED <<results, hits, row, fetching, coverFetching, preview>>
               \/ /\ slot.kind = "Preview"
                  /\ shownUrl' = slot.pic /\ previewCover' = pic /\ shown' = pic
                  /\ UNCHANGED <<searches, aimedAt, rested, staged>>
    /\ UNCHANGED <<editing, nth, queue, tab, details, seedFrom, diff, asking, world, presses>>

(* preview_target_url.                                                     *)
Target ==
    IF editing = NoBook \/ tab # "Cover" THEN shownUrl
    ELSE IF hits = NoHits THEN NoPic ELSE <<hits.of, row>>
PreviewPending == Target # shownUrl

(* tick_preview, in its three cases.                                       *)
Aim ==
    /\ PreviewPending /\ Target # aimedAt
    /\ aimedAt' = Target /\ rested' = FALSE
    /\ UNCHANGED <<book, searches, previewCover, shown, shownUrl, slot, world, presses>>

Clear == shown' = NoPic /\ previewCover' = NoPic
(* (mutant: the request is not marked as handled)                          *)
Unhandled == UNCHANGED shownUrl
Handled == shownUrl' = Target
Preview ==
    /\ PreviewPending /\ Target = aimedAt /\ rested
    /\ UNCHANGED <<book, searches, aimedAt, rested, world, presses>>
    /\ Handled
    /\ IF Target = NoPic
       THEN Clear /\ UNCHANGED slot
       ELSE slot' = Job("Preview", Target) /\ UNCHANGED <<previewCover, shown>>

(* COVER_DEBOUNCE elapses.                                                 *)
Rest ==
    /\ ~rested /\ rested' = TRUE
    /\ UNCHANGED <<book, searches, previewCover, shown, shownUrl, aimedAt, slot, world, presses>>

Key ==
    \/ \E b \in EBooks : OpenMetaEdit(b) \/ Unlist(b)
    \/ StartBulkEdit \/ Skip \/ ChangeDetails \/ SearchAgain
    \/ \E t \in Tabs : GotoTab(t)
    \/ OpenDiff \/ CancelDiff \/ MoveRow \/ StagePreview \/ AskSave \/ AnswerNo
    \/ SaveMetaEdit
    \/ \E c \in BOOLEAN : ApplyDiff(c)
EditorTurn == (\E f \in BOOLEAN : PollOnline(f)) \/ Aim \/ Preview
EditorNext == Key \/ Answer \/ EditorTurn \/ Rest

(* A request's worker ends, by answer or by the agent's timeout; the loop  *)
(* turns; time passes.                                                     *)
EditorFairness ==
    /\ WF_editorVars(Answer) /\ WF_editorVars(Rest)
    /\ WF_editorVars(\E f \in BOOLEAN : PollOnline(f))
    /\ WF_editorVars(Aim \/ Preview)
EditorSpec == EditorInit /\ [][EditorNext]_editorVars /\ EditorFairness

----------------------------------------------------------------------------
EditorTypeOK ==
    /\ editing \in EBooks \cup {NoBook} /\ queue \in Seq(EBooks) /\ listed \subseteq EBooks
    /\ tab \in Tabs /\ {details, seedFrom} \subseteq Versions
    /\ nth \in Nat
    /\ {results, hits} \subseteq [of : EBooks \cup {NoBook}, nth : 0..nth, ver : Versions]
    /\ row \in 1..HitCount
    /\ {fetching, coverFetching, coverPending, rested, asking} \subseteq BOOLEAN
    /\ {staged, previewCover, shown, shownUrl, aimedAt} \subseteq Pics \cup {NoPic}
    /\ slot \in [kind : Tabs \cup {"Chosen", "Preview", "none"}, of : EBooks \cup {NoBook},
                 nth : 0..nth, ver : Versions, pic : Pics \cup {NoPic}, done : BOOLEAN]

(* In one editor, what a search tab lists was asked for under the seed the *)
(* tab shows: reseeding leaves the running search's receiver in place, and *)
(* only the search that follows it keeps the old answer out.  A seed with  *)
(* nothing to search for is excepted: no search follows, and the answer of *)
(* the seed before it is listed.                                           *)
ListedOfThisSeed ==
    seedFrom # Blank => \A l \in {results, hits} : (l # NoHits /\ l.nth = nth) => l.ver = seedFrom

(* Enter on the Cover tab stages the cover the reader sees: the bytes, of  *)
(* the editor, and the picture, of the app, are replaced together.         *)
StagesWhatIsShown ==
    (editing # NoBook /\ previewCover # NoPic) => shown = previewCover

(* Together: what the editor shows was asked for by what it shows.         *)
AnswersBelong == ListedOfThisSeed /\ StagesWhatIsShown

(* Once no key is pressed the preview comes to rest: answers, which move   *)
(* the previewed address back, do not make it ask for ever.                *)
PreviewQuiets == <>[]~PreviewPending

(* A search ends while its tab is kept: nothing else takes its receiver.   *)
Busy(t) == IF t = "Cover" THEN coverFetching ELSE fetching
SearchEnds ==
    \A t \in {"Online", "Cover"} :
        (slot.kind = t /\ tab = t /\ slot.nth = nth /\ editing # NoBook)
            ~> (tab # t \/ editing = NoBook \/ ~Busy(t))

(* Together: with no key pressed the editor comes to rest.                 *)
EditorSettles == PreviewQuiets /\ SearchEnds

(* editor/mod.rs: "Cover bytes to persist on save (the chosen / previewed  *)
(* cover)": a cover in a book's file was chosen or previewed for that book.*)
FiledIsChosen == \A b \in EBooks : filed[b] \in {NoPic} \cup ({b} \X (0..HitCount))

(* editor/mod.rs, of `fetching`: "A search is in flight".                  *)
FetchingInFlight ==
    editing # NoBook =>
        /\ fetching => slot.kind = "Online"
        /\ coverFetching => slot.kind = "Cover"

(* app/mod.rs, of edit_queue: "Remaining book paths to edit after the      *)
(* current one": no queue without a current one.                           *)
QueueAttended == queue # <<>> => editing # NoBook
=============================================================================
