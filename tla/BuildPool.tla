------------------------------ MODULE BuildPool ------------------------------
(***************************************************************************)
(* What the pool of image workers promises its client, with no queue, no   *)
(* lock and no thread: every request is answered exactly once, with a      *)
(* picture, with a failure, or with "skipped as far away", and the last    *)
(* only when the reader was farther than KEEP_RADIUS from the section when *)
(* a worker looked.  Nothing is promised about the order.                  *)
(***************************************************************************)
EXTENDS Integers

CONSTANTS
    Requests,     \* the build requests a client can make
    SectionOf,    \* the section a request is for
    Sections,
    KeepRadius    \* KEEP_RADIUS

VARIABLES
    queued,       \* requests no worker has judged yet
    building,     \* [req, stale]: judged and not answered yet
    answers,      \* [req, result]: answered and not collected yet
    current,      \* the section the client says it is on
    open          \* the client still holds the pool

poolVars == <<queued, building, answers, current, open>>

Far(a, b) == IF a > b THEN a - b > KeepRadius ELSE b - a > KeepRadius

Jobs == [req : Requests, stale : BOOLEAN]
Results == {"built", "failed", "stale"}
Answers == [req : Requests, result : Results]

Outstanding == queued \cup {j.req : j \in building} \cup {a.req : a \in answers}

PoolTypeOK ==
    /\ queued \subseteq Requests
    /\ building \subseteq Jobs
    /\ answers \subseteq Answers
    /\ current \in Sections
    /\ open \in BOOLEAN

PoolInit(s) ==
    /\ queued = {} /\ building = {} /\ answers = {}
    /\ current = s
    /\ open = TRUE

Ask(r) ==
    /\ open
    /\ r \notin Outstanding
    /\ queued' = queued \cup {r}
    /\ UNCHANGED <<building, answers, current, open>>

Steer(s) ==
    /\ open
    /\ current' = s
    /\ UNCHANGED <<queued, building, answers, open>>

Collect ==
    /\ open
    /\ answers' = {}
    /\ UNCHANGED <<queued, building, current, open>>

Drop ==
    /\ open
    /\ open' = FALSE
    /\ UNCHANGED <<queued, building, answers, current>>

\* A worker takes a request up and decides, once, whether it is still wanted.
Judge(r) ==
    /\ r \in queued
    /\ queued' = queued \ {r}
    /\ building' = building \cup {[req |-> r, stale |-> Far(SectionOf[r], current)]}
    /\ UNCHANGED <<answers, current, open>>

\* The outcome of a judged request; nobody listens once the pool is dropped.
Outcomes(j) == IF j.stale THEN {"stale"} ELSE {"built", "failed"}

Answer(j) ==
    /\ j \in building
    /\ building' = building \ {j}
    /\ \/ \E result \in Outcomes(j) : answers' = answers \cup {[req |-> j.req, result |-> result]}
       \/ ~open /\ answers' = answers
    /\ UNCHANGED <<queued, current, open>>

Serve == \E r \in Requests : Judge(r)
Deliver == \E j \in building : Answer(j)

PoolNext ==
    \/ \E r \in Requests : Ask(r)
    \/ \E s \in Sections : Steer(s)
    \/ Collect \/ Drop
    \/ Serve \/ Deliver

\* A client may start anywhere.
PoolSpec == (\E s \in Sections : PoolInit(s)) /\ [][PoolNext]_poolVars
=============================================================================
