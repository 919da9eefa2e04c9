--------------------------- MODULE MCReadingRoom ---------------------------
(***************************************************************************)
(* Several components that share no state, checked in one run: `suite`     *)
(* names the one a behaviour is of, and the others stand still, each in a  *)
(* state where nothing has been asked of it.                               *)
(***************************************************************************)
EXTENDS MCBookRecords, ReadingSession, MCReadingFlow, MCLibraryDesk, MCDuplicates
VARIABLE suite
roomVars == <<suite, recordVars, sessionVars, flowVars, deskVars, dupVars>>

RecordsRest == RecordInit /\ file = [path \in Paths |-> NoBook]
SessionRests == SessionInit /\ saved = [b \in Titles |-> NoPlace]
FlowRests == FlowInit /\ width = "narrow" /\ {paged, flows, lock} = {FALSE}
DeskRests == DeskInit /\ rows = Volumes /\ onDisk = Volumes /\ collections = {}
DupsRest ==
    /\ held = {} /\ there = {} /\ dismissed = {} /\ links = {} /\ originals = FALSE
    /\ resolver = NoOverlay /\ deleting = {} /\ toc = NoOverlay /\ auto = FALSE /\ dupKeys = 0

RoomInit ==
    \/ suite = "records" /\ RecordInit /\ SessionRests /\ FlowRests /\ DeskRests /\ DupsRest
    \/ suite = "session" /\ RecordsRest /\ SessionInit /\ FlowRests /\ DeskRests /\ DupsRest
    \/ suite = "flow" /\ RecordsRest /\ SessionRests /\ FlowInit /\ DeskRests /\ DupsRest
    \/ suite = "desk" /\ RecordsRest /\ SessionRests /\ FlowRests /\ DeskInit /\ DupsRest
    \/ suite = "dups" /\ RecordsRest /\ SessionRests /\ FlowRests /\ DeskRests /\ DupInit
RoomNext ==
    \/ /\ suite = "records" /\ RecordNext
       /\ UNCHANGED <<suite, sessionVars, flowVars, deskVars, dupVars>>
    \/ /\ suite = "session" /\ SessionNext
       /\ UNCHANGED <<suite, recordVars, flowVars, deskVars, dupVars>>
    \/ /\ suite = "flow" /\ FlowNext
       /\ UNCHANGED <<suite, recordVars, sessionVars, deskVars, dupVars>>
    \/ /\ suite = "desk" /\ DeskNext
       /\ UNCHANGED <<suite, recordVars, sessionVars, flowVars, dupVars>>
    \/ /\ suite = "dups" /\ DupNext
       /\ UNCHANGED <<suite, recordVars, sessionVars, flowVars, deskVars>>
(* The type invariants of the five.                                        *)
RoomTypeOK == RecordTypeOK /\ SessionTypeOK /\ FlowTypeOK /\ DeskTypeOK /\ DupTypeOK

RoomSpec == RoomInit /\ [][RoomNext]_roomVars
=============================================================================
