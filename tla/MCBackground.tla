---------------------------- MODULE MCBackground ----------------------------
(***************************************************************************)
(* Three places where worker threads serve the event loop, checked in one  *)
(* run under the fairness of each: `suite` names the one a behaviour is    *)
(* of, and the others stand still.                                         *)
(***************************************************************************)
EXTENDS MCImageBuilder, CoverLoader, MCOnlineEditor
VARIABLE suite
backVars == <<suite, vars, coverVars, editorVars>>

(* The program left, the covers' workers with it.                          *)
CoverRests ==
    /\ wanted = <<>> /\ decoding = {} /\ shut = TRUE /\ decoded = <<>>
    /\ cw = [w \in CWorkers |-> [at |-> "done", book |-> Nothing]]
    /\ covers = <<>> /\ imageOf = [c \in Covers |-> NoId]
    /\ doomed = {} /\ inTerminal = {} /\ gridPending = FALSE
    /\ top = 1 /\ navDown = TRUE /\ isGrid = TRUE /\ moves = 0
    /\ cdirty = FALSE /\ mainAt = "drain" /\ landed = FALSE
    /\ painted = {}

BackInit ==
    /\ Init /\ EditorInit
    /\ \/ suite = "covers" /\ CoverInit
       \/ suite \in {"pool", "editor"} /\ CoverRests
BackNext ==
    \/ suite = "pool" /\ Next /\ UNCHANGED <<suite, coverVars, editorVars>>
    \/ suite = "covers" /\ CoverNext /\ UNCHANGED <<suite, vars, editorVars>>
    \/ suite = "editor" /\ EditorNext /\ UNCHANGED <<suite, vars, coverVars>>

PoolStep(A) == suite = "pool" /\ A /\ UNCHANGED <<suite, coverVars, editorVars>>
CoverStep(A) == suite = "covers" /\ A /\ UNCHANGED <<suite, vars, editorVars>>
EditorStep(A) == suite = "editor" /\ A /\ UNCHANGED <<suite, vars, coverVars>>
(* The components' own fairness.  A behaviour is of one suite, so weak     *)
(* fairness of a disjunction over the suites is that of its own disjunct.  *)
Fair(k) ==
    \/ PoolStep(IF k \in Workers THEN Work(k) ELSE Notify)
    \/ CoverStep(IF k \in CWorkers THEN CoverWorker(k) ELSE k = 3 /\ CoverTurn)
    \/ EditorStep(CASE k = 0 -> Answer
                     [] k = 1 -> \E f \in BOOLEAN : PollOnline(f)
                     [] k = 2 -> Aim \/ Preview
                     [] OTHER -> Rest)
(* What is asked of a thread comes to an end without a key: the pool builds  *)
(* what it is sent and its workers end, a wall of covers is shown whole and  *)
(* then rests, and the editor's searches end and its preview is quiet.       *)
WorkSettles == PoolServes /\ WallSettles /\ EditorSettles

BackSpec == BackInit /\ [][BackNext]_backVars /\ \A k \in 0..3 : WF_backVars(Fair(k))
=============================================================================
