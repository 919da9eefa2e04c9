----------------------------- MODULE ImageBuilder -----------------------------
(***************************************************************************)
(* The pool of threads that decode and encode a book's pictures            *)
(* (delryn-media/src/builder.rs): two lanes behind one mutex, a condition  *)
(* variable, a few workers that each favour one lane and steal from the    *)
(* other, an atomic that says where the reader is, and a result channel.   *)
(*                                                                         *)
(* What happens while the mutex is held is one step, for nothing else that *)
(* takes it can happen in between.  The client is one thread (the event    *)
(* loop), so between a push and its notify_one only workers run.           *)
(***************************************************************************)
EXTENDS Integers, Sequences, FiniteSets, Functions

CONSTANTS
    Requests,     \* BuildReq values; each is in the pool once at a time
    InlineMath,   \* those whose key.kind is ImgSlot::InlineMath
    SectionOf,    \* key.section
    Sections,
    KeepRadius,   \* KEEP_RADIUS
    NumWorkers,   \* worker_count()
    NoRequest     \* what a worker holds between requests

Workers == 0 .. NumWorkers - 1

ASSUME ImageBuilderAssumption ==
    /\ IsFiniteSet(Requests)
    /\ InlineMath \subseteq Requests
    /\ SectionOf \in [Requests -> Sections]
    /\ 0 \in Sections /\ Sections \subseteq Nat
    /\ KeepRadius \in Nat
    /\ NumWorkers \in Nat
    /\ NoRequest \notin Requests

\* available_parallelism - 1, clamped to 2 .. 6, or 3 when it is not known.
ASSUME WorkerCount == NumWorkers \in 2 .. 6

VARIABLES
    inline, block,   \* Lanes: the two queues
    closed,          \* Lanes.closed
    owesNotify,      \* the client has pushed and not yet called notify_one
    worker,          \* each thread: [pc, req, stale]
    current,         \* the atomic the workers read
    answers          \* the result channel, in an order nobody relies on

lanes == <<inline, block, closed>>
vars == <<lanes, owesNotify, worker, current, answers>>

\* pc: "lock" about to take the mutex, "wait" asleep on the condition
\* variable, "judge" holding a request, "build" holding a judged one, "done".
Idle == [pc |-> "lock", req |-> NoRequest, stale |-> FALSE]

At(pc) == {w \in Workers : worker[w].pc = pc}
Held == {worker[w].req : w \in At("judge") \cup At("build")}
Queued == Range(inline) \cup Range(block)
Outstanding == Queued \cup Held \cup {a.req : a \in answers}

Far(a, b) == IF a > b THEN a - b > KeepRadius ELSE b - a > KeepRadius

Init ==
    /\ inline = <<>> /\ block = <<>> /\ closed = FALSE
    /\ owesNotify = FALSE
    /\ worker = [w \in Workers |-> Idle]
    /\ current = 0
    /\ answers = {}

-----------------------------------------------------------------------------
(* The client: request, request_priority, set_current, poll, drop.         *)

\* (mutant: only a push onto empty lanes wakes anybody)
PushOntoEmptyNotifies(r, priority) ==
    /\ ~closed /\ ~owesNotify
    /\ r \notin Outstanding
    /\ LET Into(lane) == IF priority THEN <<r>> \o lane ELSE Append(lane, r)
       IN  \/ r \in InlineMath /\ inline' = Into(inline) /\ block' = block
           \/ r \notin InlineMath /\ block' = Into(block) /\ inline' = inline
    /\ owesNotify' = (inline = <<>> /\ block = <<>>)
    /\ UNCHANGED <<closed, worker, current, answers>>

Push(r, priority) ==
    /\ ~closed /\ ~owesNotify
    /\ r \notin Outstanding
    /\ LET Into(lane) == IF priority THEN <<r>> \o lane ELSE Append(lane, r)
       IN  \/ r \in InlineMath /\ inline' = Into(inline) /\ block' = block
           \/ r \notin InlineMath /\ block' = Into(block) /\ inline' = inline
    /\ owesNotify' = TRUE
    /\ UNCHANGED <<closed, worker, current, answers>>

\* notify_one after the lock is released: one sleeper wakes, if there is one.
Notify ==
    /\ owesNotify
    /\ owesNotify' = FALSE
    /\ \/ \E w \in At("wait") : worker' = [worker EXCEPT ![w].pc = "lock"]
       \/ At("wait") = {} /\ worker' = worker
    /\ UNCHANGED <<lanes, current, answers>>

SetCurrent(s) ==
    /\ ~closed /\ ~owesNotify
    /\ current' = s
    /\ UNCHANGED <<lanes, owesNotify, worker, answers>>

Poll ==
    /\ ~closed /\ ~owesNotify
    /\ answers # {}
    /\ answers' = {}
    /\ UNCHANGED <<lanes, owesNotify, worker, current>>

\* Drop: closed is set and everybody is woken, under the lock; the receiving
\* end of the channel goes right after.

Drop ==
    /\ ~closed /\ ~owesNotify
    /\ closed' = TRUE
    /\ worker' = [w \in Workers |->
                     IF w \in At("wait") THEN [worker[w] EXCEPT !.pc = "lock"] ELSE worker[w]]
    /\ UNCHANGED <<inline, block, owesNotify, current, answers>>

-----------------------------------------------------------------------------
(* The workers: build_loop.                                                *)

\* Alternate workers favour the inline lane.
\* (mutant: all of them do)
AllPreferInline(w) == TRUE

PrefersInline(w) == w % 2 = 0

\* Lanes::take: the worker's own lane first, the other when that is empty.

Take(w, r) ==
    \/ /\ inline # <<>> /\ (PrefersInline(w) \/ block = <<>>)
       /\ r = Head(inline) /\ inline' = Tail(inline) /\ block' = block
    \/ /\ block # <<>> /\ (~PrefersInline(w) \/ inline = <<>>)
       /\ r = Head(block) /\ block' = Tail(block) /\ inline' = inline

\* Under the lock: leave if the pool is closed, take a request if there is
\* one, fall asleep (which releases the lock) if there is none.
Enter(w) ==
    /\ worker[w].pc = "lock"
    /\ \/ /\ closed
          /\ worker' = [worker EXCEPT ![w] = [Idle EXCEPT !.pc = "done"]]
          /\ UNCHANGED <<inline, block>>
       \/ /\ ~closed
          /\ \E r \in Queued :
               /\ Take(w, r)
               /\ worker' = [worker EXCEPT ![w] = [Idle EXCEPT !.pc = "judge", !.req = r]]
       \/ /\ ~closed
          /\ inline = <<>> /\ block = <<>>
          /\ worker' = [worker EXCEPT ![w].pc = "wait"]
          /\ UNCHANGED <<inline, block>>
    /\ UNCHANGED <<closed, owesNotify, current, answers>>

\* A condition variable may wake a sleeper for no reason.
WakeSpuriously(w) ==
    /\ worker[w].pc = "wait"
    /\ worker' = [worker EXCEPT ![w].pc = "lock"]
    /\ UNCHANGED <<lanes, owesNotify, current, answers>>

\* The reader's section is read once, after the lock is released.
Judge(w) ==
    /\ worker[w].pc = "judge"
    /\ worker' = [worker EXCEPT ![w].pc = "build",
                                ![w].stale = Far(SectionOf[worker[w].req], current)]
    /\ UNCHANGED <<lanes, owesNotify, current, answers>>

\* Built, found not to decode, or skipped; the send fails, and ends the
\* thread, once the receiving end is gone.
Outcomes(stale) == IF stale THEN {"stale"} ELSE {"built", "failed"}

\* (mutant: a skipped request is not answered)
SendBuiltOnly(w) ==
    /\ worker[w].pc = "build"
    /\ worker' = [worker EXCEPT ![w] = Idle]
    /\ \E result \in Outcomes(worker[w].stale) :
         answers' = IF result = "stale" THEN answers
                    ELSE answers \cup {[req |-> worker[w].req, result |-> result]}
    /\ UNCHANGED <<lanes, owesNotify, current>>

Send(w) ==
    /\ worker[w].pc = "build"
    /\ \/ /\ \E result \in Outcomes(worker[w].stale) :
               answers' = answers \cup {[req |-> worker[w].req, result |-> result]}
          /\ worker' = [worker EXCEPT ![w] = Idle]
       \/ /\ closed
          /\ answers' = answers
          /\ worker' = [worker EXCEPT ![w] = [Idle EXCEPT !.pc = "done"]]
    /\ UNCHANGED <<lanes, owesNotify, current>>

Work(w) == Enter(w) \/ Judge(w) \/ Send(w)

Next ==
    \/ \E r \in Requests, priority \in BOOLEAN : Push(r, priority)
    \/ Notify
    \/ \E s \in Sections : SetCurrent(s)
    \/ Poll \/ Drop
    \/ \E w \in Workers : Work(w) \/ WakeSpuriously(w)

Spec == Init /\ [][Next]_vars

\* The workers are running threads and the client runs on between a push and
\* its notify_one.  Nothing is assumed of the client otherwise.
Fairness == WF_vars(Notify) /\ \A w \in Workers : WF_vars(Work(w))
FairSpec == Spec /\ Fairness

-----------------------------------------------------------------------------
(* Properties.                                                             *)

\* Types of the lanes, the threads and the channel.
TypeOK ==
    /\ inline \in Seq(InlineMath) /\ block \in Seq(Requests \ InlineMath)
    /\ closed \in BOOLEAN /\ owesNotify \in BOOLEAN
    /\ worker \in [Workers -> [pc : {"lock", "wait", "judge", "build", "done"},
                               req : Requests \cup {NoRequest}, stale : BOOLEAN]]
    /\ current \in Sections
    /\ answers \subseteq [req : Requests, result : {"built", "failed", "stale"}]

\* No wakeup is lost and no core idles for want of one: while anyone sleeps,
\* there are at least as many workers awake and about to look, or about to be
\* woken, as there are requests in the lanes.
Owed == IF owesNotify THEN 1 ELSE 0
SleepersNotNeeded ==
    At("wait") # {} => Cardinality(At("lock")) + Owed >= Len(inline) + Len(block)

\* After the pool is closed nobody sleeps: notify_all reaches every sleeper
\* and nobody falls asleep after it.
NobodySleepsOnClosed == closed => At("wait") = {}

\* A request is in one place only: two workers never hold the same one, nor
\* is one both queued and held, nor one held whose answer is in the channel.
OnePlace ==
    /\ \A v, w \in At("judge") \cup At("build") : worker[v].req = worker[w].req => v = w
    /\ \A i, j \in DOMAIN inline : inline[i] = inline[j] => i = j
    /\ \A i, j \in DOMAIN block : block[i] = block[j] => i = j
    /\ Queued \cap Held = {}
    /\ (Queued \cup Held) \cap {a.req : a \in answers} = {}

\* "neither starves while the other drains" (builder.rs): however much the
\* client keeps putting into one lane, every request of the other lane is
\* taken, as long as that lane itself gets no endless priority requests.
PriorityIn(lane, R) == \E r \in R : lane' = <<r>> \o lane
LanesDrain ==
    /\ (<>[][~PriorityIn(inline, InlineMath)]_vars)
         => \A r \in InlineMath : r \in Range(inline) ~> (r \notin Range(inline) \/ closed)
    /\ (<>[][~PriorityIn(block, Requests \ InlineMath)]_vars)
         => \A r \in Requests \ InlineMath : r \in Range(block) ~> (r \notin Range(block) \/ closed)

\* Dropping the pool ends every worker.
WorkersEnd == closed ~> \A w \in Workers : worker[w].pc = "done"

\* Together: the pool serves both lanes while it lasts, and then ends.
PoolServes == LanesDrain /\ WorkersEnd

\* The lanes, the lock and the threads together do what BuildPool promises.
Pool == INSTANCE BuildPool WITH
    queued <- Queued \cup {worker[w].req : w \in At("judge")},
    building <- {[req |-> worker[w].req, stale |-> worker[w].stale] : w \in At("build")},
    open <- ~closed

PoolRefined == Pool!PoolSpec
=============================================================================
