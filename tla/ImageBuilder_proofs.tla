-------------------------- MODULE ImageBuilder_proofs --------------------------
(***************************************************************************)
(* The pool of image workers keeps every request in one place, loses no    *)
(* wakeup, and implements BuildPool, for every number of workers and every   *)
(* set of requests.                                                        *)
(*                                                                         *)
(* The invariant adds to the properties that a worker past the lock holds  *)
(* a request (`Holding`).  OnePlace is what makes the refinement work: a   *)
(* request taken out of its lane must not be left behind in it, or the     *)
(* abstract pool would keep it queued after it was judged.                 *)
(*                                                                         *)
(* Then the figure viewer, which shares no state with the pool.  FigInv    *)
(* adds to FiguresAccounted which sections the viewer shows and that the   *)
(* scan brings each other one once.                                        *)
(***************************************************************************)
EXTENDS ImageBuilder, FigureViewer, FiniteSetTheorems, DataLemmas, TLAPS

Holding == \A w \in At("judge") \cup At("build") : worker[w].req \in Requests

Inv ==
    /\ TypeOK
    /\ Holding
    /\ OnePlace
    /\ NobodySleepsOnClosed
    /\ SleepersNotNeeded

-----------------------------------------------------------------------------
(* Lanes.                                                                  *)

Once(q) == \A i, j \in DOMAIN q : q[i] = q[j] => i = j
Put(q, r, priority) == IF priority THEN <<r>> \o q ELSE Append(q, r)

\* A lane gains the request pushed, at either end, and nothing else.
LEMMA LaneGrows ==
    ASSUME NEW S, NEW q \in Seq(S), NEW r \in S, NEW priority \in BOOLEAN
    PROVE  /\ Put(q, r, priority) \in Seq(S)
           /\ Len(Put(q, r, priority)) = Len(q) + 1
           /\ Range(Put(q, r, priority)) = Range(q) \cup {r}
           /\ Once(q) /\ r \notin Range(q) => Once(Put(q, r, priority))
<1>1. CASE priority
  <2> DEFINE p == <<r>> \o q
  <2>1. /\ p \in Seq(S) /\ Len(p) = Len(q) + 1
        /\ DOMAIN p = 1 .. Len(q) + 1 /\ DOMAIN q = 1 .. Len(q) /\ Len(q) \in Nat
    OBVIOUS
  <2>2. p[1] = r
    OBVIOUS
  <2>3. \A i \in 1 .. Len(q) : p[i + 1] = q[i]
    OBVIOUS
  <2>4. \A i \in DOMAIN p : i = 1 \/ (i - 1 \in 1 .. Len(q) /\ p[i] = q[i - 1])
    BY <2>1, <2>3
  <2>5. Range(p) = Range(q) \cup {r}
    <3>1. Range(p) \subseteq Range(q) \cup {r}
      BY <2>1, <2>2, <2>4 DEF Range
    <3>2. Range(q) \subseteq Range(p)
      <4> SUFFICES ASSUME NEW i \in 1 .. Len(q) PROVE q[i] \in Range(p)
        BY <2>1 DEF Range
      <4>1. i + 1 \in DOMAIN p
        BY <2>1
      <4> QED BY <2>3, <4>1 DEF Range
    <3>3. r \in Range(p)
      BY <2>1, <2>2 DEF Range
    <3> QED BY <3>1, <3>2, <3>3
  <2>6. ASSUME Once(q), r \notin Range(q) PROVE Once(p)
    <3> SUFFICES ASSUME NEW i \in DOMAIN p, NEW j \in DOMAIN p, p[i] = p[j] PROVE i = j
      BY DEF Once
    <3>1. \A k \in 1 .. Len(q) : q[k] # r
      BY <2>1, <2>6 DEF Range
    <3> QED BY <2>1, <2>2, <2>4, <2>6, <3>1 DEF Once
  <2> HIDE DEF p
  <2>7. Put(q, r, priority) = p
    BY <1>1 DEF Put, p
  <2> QED BY <2>1, <2>5, <2>6, <2>7
<1>2. CASE ~priority
  <2> DEFINE p == Append(q, r)
  <2>1. /\ p \in Seq(S) /\ Len(p) = Len(q) + 1
        /\ DOMAIN p = 1 .. Len(q) + 1 /\ DOMAIN q = 1 .. Len(q) /\ Len(q) \in Nat
    OBVIOUS
  <2>2. p[Len(q) + 1] = r
    OBVIOUS
  <2>3. \A i \in 1 .. Len(q) : p[i] = q[i]
    OBVIOUS
  <2>5. Range(p) = Range(q) \cup {r}
    <3>1. Range(p) \subseteq Range(q) \cup {r}
      BY <2>1, <2>2, <2>3 DEF Range
    <3>2. Range(q) \subseteq Range(p)
      BY <2>1, <2>3 DEF Range
    <3>3. r \in Range(p)
      BY <2>1, <2>2 DEF Range
    <3> QED BY <3>1, <3>2, <3>3
  <2>6. ASSUME Once(q), r \notin Range(q) PROVE Once(p)
    <3> SUFFICES ASSUME NEW i \in DOMAIN p, NEW j \in DOMAIN p, p[i] = p[j] PROVE i = j
      BY DEF Once
    <3>1. \A k \in 1 .. Len(q) : q[k] # r
      BY <2>1, <2>6 DEF Range
    <3> QED BY <2>1, <2>2, <2>3, <2>6, <3>1 DEF Once
  <2> HIDE DEF p
  <2>7. Put(q, r, priority) = p
    BY <1>2 DEF Put, p
  <2> QED BY <2>1, <2>5, <2>6, <2>7
<1> QED BY <1>1, <1>2

\* A lane that holds nothing twice loses exactly its head.
LEMMA LaneShrinks ==
    ASSUME NEW S, NEW q \in Seq(S), q # <<>>
    PROVE  /\ Tail(q) \in Seq(S)
           /\ Len(Tail(q)) = Len(q) - 1
           /\ Head(q) \in S /\ Head(q) \in Range(q)
           /\ Once(q) => Range(Tail(q)) = Range(q) \ {Head(q)} /\ Once(Tail(q))
<1>1. /\ Tail(q) \in Seq(S) /\ Len(Tail(q)) = Len(q) - 1 /\ Head(q) = q[1]
      /\ DOMAIN q = 1 .. Len(q) /\ Len(q) \in Nat \ {0} /\ DOMAIN Tail(q) = 1 .. Len(q) - 1
  OBVIOUS
<1>2. \A i \in 1 .. Len(q) - 1 : Tail(q)[i] = q[i + 1]
  OBVIOUS
<1>3. Head(q) \in S /\ Head(q) \in Range(q)
  BY <1>1 DEF Range
<1>4. ASSUME Once(q) PROVE Range(Tail(q)) = Range(q) \ {Head(q)} /\ Once(Tail(q))
  <2>1. Range(Tail(q)) \subseteq Range(q) \ {Head(q)}
    <3> SUFFICES ASSUME NEW i \in 1 .. Len(q) - 1 PROVE Tail(q)[i] \in Range(q) /\ Tail(q)[i] # Head(q)
      BY <1>1 DEF Range
    <3>1. i + 1 \in DOMAIN q /\ 1 \in DOMAIN q /\ i + 1 # 1
      BY <1>1
    <3> QED BY <1>1, <1>2, <1>4, <3>1 DEF Range, Once
  <2>2. Range(q) \ {Head(q)} \subseteq Range(Tail(q))
    <3> SUFFICES ASSUME NEW k \in 1 .. Len(q), q[k] # q[1] PROVE q[k] \in Range(Tail(q))
      BY <1>1 DEF Range
    <3>1. k - 1 \in 1 .. Len(q) - 1 /\ (k - 1) + 1 = k
      BY <1>1
    <3>2. Tail(q)[k - 1] = q[k]
      BY <1>2, <3>1
    <3> QED BY <1>1, <3>1, <3>2 DEF Range
  <2>3. Once(Tail(q))
    <3> SUFFICES ASSUME NEW i \in 1 .. Len(q) - 1, NEW j \in 1 .. Len(q) - 1, Tail(q)[i] = Tail(q)[j]
                 PROVE  i = j
      BY <1>1 DEF Once
    <3>1. i + 1 \in DOMAIN q /\ j + 1 \in DOMAIN q /\ q[i + 1] = q[j + 1]
      BY <1>1, <1>2
    <3> QED BY <1>4, <3>1 DEF Once
  <2> QED BY <2>1, <2>2, <2>3
<1> QED BY <1>1, <1>3, <1>4

\* What a push does to both lanes together.
LEMMA PushEffect ==
    ASSUME TypeOK, NEW r \in Requests, NEW priority \in BOOLEAN, Push(r, priority)
    PROVE  /\ inline' \in Seq(InlineMath) /\ block' \in Seq(Requests \ InlineMath)
           /\ Len(inline') + Len(block') = Len(inline) + Len(block) + 1
           /\ Range(inline') \cup Range(block') = Queued \cup {r}
           /\ Once(inline) => Once(inline')
           /\ Once(block) => Once(block')
<1>1. r \notin Range(inline) /\ r \notin Range(block)
  BY DEF Push, Outstanding, Queued
<1>2. /\ inline \in Seq(InlineMath) /\ block \in Seq(Requests \ InlineMath)
      /\ Len(inline) \in Nat /\ Len(block) \in Nat
  BY DEF TypeOK
<1>3. CASE r \in InlineMath
  <2>1. inline' = Put(inline, r, priority) /\ block' = block
    BY <1>3 DEF Push, Put
  <2>2. /\ inline' \in Seq(InlineMath) /\ Len(inline') = Len(inline) + 1
        /\ Range(inline') = Range(inline) \cup {r}
        /\ Once(inline) => Once(inline')
    BY <1>1, <1>2, <1>3, <2>1, LaneGrows
  <2> QED BY <1>2, <2>1, <2>2 DEF Queued
<1>4. CASE r \notin InlineMath
  <2>1. block' = Put(block, r, priority) /\ inline' = inline
    BY <1>4 DEF Push, Put
  <2> DEFINE Figures == Requests \ InlineMath
  <2>2. r \in Figures /\ block \in Seq(Figures)
    BY <1>2, <1>4
  <2> HIDE DEF Figures
  <2>3. /\ block' \in Seq(Figures) /\ Len(block') = Len(block) + 1
        /\ Range(block') = Range(block) \cup {r}
        /\ Once(block) => Once(block')
    BY <1>1, <2>1, <2>2, LaneGrows
  <2> USE DEF Figures
  <2> QED BY <1>2, <2>1, <2>3 DEF Queued
<1> QED BY <1>3, <1>4

\* What a worker takes leaves its lane, and is a request nobody holds.
LEMMA TakeEffect ==
    ASSUME TypeOK, OnePlace, NEW w, NEW r, Take(w, r)
    PROVE  /\ inline' \in Seq(InlineMath) /\ block' \in Seq(Requests \ InlineMath)
           /\ Len(inline') + Len(block') = Len(inline) + Len(block) - 1
           /\ r \in Queued /\ r \in Requests
           /\ Range(inline') \cup Range(block') = Queued \ {r}
           /\ Once(inline') /\ Once(block')
<1>1. /\ inline \in Seq(InlineMath) /\ block \in Seq(Requests \ InlineMath)
      /\ Len(inline) \in Nat /\ Len(block) \in Nat
      /\ Once(inline) /\ Once(block)
  BY DEF TypeOK, OnePlace, Once
<1>2. /\ Range(inline) \subseteq InlineMath /\ Range(block) \subseteq Requests \ InlineMath
      /\ InlineMath \subseteq Requests
  BY <1>1, ImageBuilderAssumption DEF Range
<1>3. CASE inline # <<>> /\ r = Head(inline) /\ inline' = Tail(inline) /\ block' = block
  <2>1. /\ inline' \in Seq(InlineMath) /\ Len(inline') = Len(inline) - 1
        /\ r \in InlineMath /\ r \in Range(inline)
        /\ Range(inline') = Range(inline) \ {r} /\ Once(inline')
    BY <1>1, <1>3, LaneShrinks
  <2> QED BY <1>1, <1>2, <1>3, <2>1 DEF Queued
<1>4. CASE block # <<>> /\ r = Head(block) /\ block' = Tail(block) /\ inline' = inline
  <2>1. /\ block' \in Seq(Requests \ InlineMath) /\ Len(block') = Len(block) - 1
        /\ r \in Requests \ InlineMath /\ r \in Range(block)
        /\ Range(block') = Range(block) \ {r} /\ Once(block')
    BY <1>1, <1>4, LaneShrinks
  <2> QED BY <1>1, <1>2, <1>4, <2>1 DEF Queued
<1> QED BY <1>3, <1>4 DEF Take

-----------------------------------------------------------------------------
(* The workers by program counter.                                         *)

\* There are finitely many workers, wherever they are.
LEMMA WorkersFinite == \A pc : IsFiniteSet(At(pc)) /\ Cardinality(At(pc)) \in Nat
<1>1. IsFiniteSet(Workers)
  BY ImageBuilderAssumption, FS_Interval DEF Workers
<1> SUFFICES ASSUME NEW pc PROVE IsFiniteSet(At(pc)) /\ Cardinality(At(pc)) \in Nat
  OBVIOUS
<1>2. At(pc) \in SUBSET Workers
  BY DEF At
<1> QED BY <1>1, <1>2, FS_Subset, FS_CardinalityType

\* A worker that moves leaves one counter for another; nobody else moves.
LEMMA OneMoves ==
    ASSUME NEW w \in Workers, NEW from, NEW to, to # from,
           worker[w].pc = from, worker'[w].pc = to,
           \A v \in Workers \ {w} : worker'[v] = worker[v]
    PROVE  /\ At(to)' = At(to) \cup {w} /\ w \notin At(to)
           /\ At(from)' = At(from) \ {w} /\ w \in At(from)
           /\ \A pc : pc # to /\ pc # from => At(pc)' = At(pc)
<1>1. At(to)' = At(to) \cup {w} /\ w \notin At(to)
  BY DEF At
<1>2. At(from)' = At(from) \ {w} /\ w \in At(from)
  BY DEF At
<1>3. \A pc : pc # to /\ pc # from => At(pc)' = At(pc)
  BY DEF At
<1> QED BY <1>1, <1>2, <1>3

-----------------------------------------------------------------------------
(* The invariant.                                                          *)

\* Each action, from the initial states on, keeps the invariant.
LEMMA InitInv == Init => Inv
<1> SUFFICES ASSUME Init PROVE Inv
  OBVIOUS
<1> USE DEF Init
<1>1. TypeOK
  <2>1. inline \in Seq(InlineMath) /\ block \in Seq(Requests \ InlineMath) /\ answers = {}
    OBVIOUS
  <2>2. worker \in [Workers -> [pc : {"lock", "wait", "judge", "build", "done"},
                                req : Requests \cup {NoRequest}, stale : BOOLEAN]]
    BY DEF Idle
  <2> QED BY <2>1, <2>2, ImageBuilderAssumption DEF TypeOK
<1>2. \A pc : pc # "lock" => At(pc) = {}
  BY DEF At, Idle
<1>3. Holding
  BY <1>2 DEF Holding
<1>4. OnePlace
  BY <1>2 DEF OnePlace, Queued, Held, Range
<1>5. NobodySleepsOnClosed /\ SleepersNotNeeded
  BY <1>2 DEF NobodySleepsOnClosed, SleepersNotNeeded
<1> QED BY <1>1, <1>3, <1>4, <1>5 DEF Inv

\* A push adds a request that is nowhere yet, and owes one notify for it.
LEMMA PushInv == ASSUME Inv, NEW r \in Requests, NEW priority \in BOOLEAN, Push(r, priority)
                 PROVE  Inv'
<1> USE DEF Inv
<1>1. UNCHANGED <<closed, worker, current, answers>> /\ ~closed /\ ~owesNotify /\ owesNotify'
  BY DEF Push
<1>2. /\ inline' \in Seq(InlineMath) /\ block' \in Seq(Requests \ InlineMath)
      /\ Len(inline') + Len(block') = Len(inline) + Len(block) + 1
      /\ Range(inline') \cup Range(block') = Queued \cup {r}
      /\ Once(inline) => Once(inline')
      /\ Once(block) => Once(block')
  BY PushEffect
<1>3. /\ \A pc : At(pc)' = At(pc)
      /\ Held' = Held
  BY <1>1 DEF At, Held
<1>4. TypeOK'
  BY <1>1, <1>2 DEF TypeOK, Push
<1>5. Holding'
  BY <1>1, <1>3 DEF Holding
<1>6. OnePlace'
  <2>1. r \notin Held /\ r \notin {a.req : a \in answers}
    BY DEF Push, Outstanding
  <2>2. Queued' = Queued \cup {r}
    BY <1>2 DEF Queued
  <2> QED BY <1>1, <1>2, <1>3, <2>1, <2>2 DEF OnePlace, Once
<1>7. NobodySleepsOnClosed'
  BY <1>1, <1>3 DEF NobodySleepsOnClosed
<1>8. SleepersNotNeeded'
  <2>1. Cardinality(At("lock")) \in Nat /\ Len(inline) \in Nat /\ Len(block) \in Nat
    BY WorkersFinite DEF TypeOK
  <2> QED BY <1>1, <1>2, <1>3, <2>1 DEF SleepersNotNeeded, Owed
<1> QED BY <1>4, <1>5, <1>6, <1>7, <1>8

States == [pc : {"lock", "wait", "judge", "build", "done"},
           req : Requests \cup {NoRequest}, stale : BOOLEAN]
Busy == At("judge") \cup At("build")

\* Helpers on the records of the threads, and on Far.
\* A worker that takes a request up, and one that has judged its request.
Taken(r) == [Idle EXCEPT !.pc = "judge", !.req = r]
Judged(e, stale) == [e EXCEPT !.pc = "build", !.stale = stale]

\* The first is a worker with a request.
LEMMA StateTaken ==
    ASSUME NEW r \in Requests
    PROVE  Taken(r) \in States /\ Taken(r).pc = "judge" /\ Taken(r).req = r
<1> DEFINE idle == [Idle EXCEPT !.pc = "judge"]
<1>1. idle \in States /\ idle.pc = "judge"
  BY DEF Idle, States
<1>2. Taken(r) = [idle EXCEPT !.req = r]
  BY DEF Taken
<1> HIDE DEF idle
<1> QED BY <1>1, <1>2 DEF States

\* The second is that worker with its verdict.
LEMMA StateJudged ==
    ASSUME NEW e \in States, NEW stale \in BOOLEAN
    PROVE  /\ Judged(e, stale) \in States /\ Judged(e, stale).pc = "build"
           /\ Judged(e, stale).req = e.req /\ Judged(e, stale).stale = stale
<1> DEFINE mid == [e EXCEPT !.pc = "build"]
<1>1. mid \in States /\ mid.pc = "build" /\ mid.req = e.req
  BY DEF States
<1>2. Judged(e, stale) = [mid EXCEPT !.stale = stale]
  BY DEF Judged
<1> HIDE DEF mid
<1> QED BY <1>1, <1>2 DEF States

\* The worker between two requests.
LEMMA IdleState == Idle \in States /\ Idle.pc = "lock"
  BY DEF Idle, States

\* Whether a section is far is a plain question.
LEMMA FarBoolean == ASSUME NEW a \in Nat, NEW b \in Nat PROVE Far(a, b) \in BOOLEAN
<1>1. CASE a > b
  <2>1. Far(a, b) = (a - b > KeepRadius)
    BY <1>1 DEF Far
  <2>2. (a - b > KeepRadius) \in BOOLEAN
    BY ImageBuilderAssumption
  <2> QED BY <2>1, <2>2, Zenon
<1>2. CASE ~(a > b)
  <2>1. Far(a, b) = (b - a > KeepRadius)
    BY <1>2 DEF Far
  <2>2. (b - a > KeepRadius) \in BOOLEAN
    BY ImageBuilderAssumption
  <2> QED BY <2>1, <2>2, Zenon
<1> QED BY <1>1, <1>2

\* A worker that goes to sleep or wakes disturbs nobody who holds a request.
LEMMA PcMoves ==
    ASSUME TypeOK, NEW w \in Workers, NEW from \in {"lock", "wait"}, NEW to \in {"lock", "wait"},
           from # to, worker[w].pc = from, worker' = [worker EXCEPT ![w].pc = to]
    PROVE  /\ worker' \in [Workers -> States]
           /\ At(to)' = At(to) \cup {w} /\ w \notin At(to)
           /\ At(from)' = At(from) \ {w} /\ w \in At(from)
           /\ \A pc : pc # to /\ pc # from => At(pc)' = At(pc)
           /\ Held' = Held
           /\ \A v \in Workers : worker'[v].req = worker[v].req
           /\ \A v \in Busy : worker'[v] = worker[v]
<1>1. worker \in [Workers -> States] /\ worker[w] \in States
  BY DEF TypeOK, States
<1>2. PICK state \in States : /\ state = [worker[w] EXCEPT !.pc = to]
                              /\ state.pc = to /\ state.req = worker[w].req
  BY <1>1 DEF States
<1>3. worker' = [worker EXCEPT ![w] = state]
  BY <1>2
<1>4. /\ At(to)' = At(to) \cup {w} /\ w \notin At(to)
      /\ At(from)' = At(from) \ {w} /\ w \in At(from)
      /\ \A pc : pc # to /\ pc # from => At(pc)' = At(pc)
      /\ worker'[w] = state
      /\ \A v \in Workers \ {w} : worker'[v] = worker[v]
  <2>1. worker'[w] = state /\ \A v \in Workers \ {w} : worker'[v] = worker[v]
    BY <1>1, <1>3
  <2>2. worker'[w].pc = to
    BY <1>2, <2>1
  <2> QED BY <2>1, <2>2, OneMoves
<1>5. worker' \in [Workers -> States]
  BY <1>1, <1>2, <1>3
<1>6. \A v \in Workers : worker'[v].req = worker[v].req
  BY <1>2, <1>4
<1>7. Busy' = Busy /\ Busy \subseteq Workers \ {w}
  BY <1>2, <1>4 DEF Busy, At
<1>8. Held' = Held
  BY <1>6, <1>7 DEF Held, Busy
<1> QED BY <1>2, <1>4, <1>5, <1>6, <1>7, <1>8

\* One sleeper wakes, notified or for no reason.
LEMMA WakeInv ==
    ASSUME Inv, NEW w \in Workers, worker[w].pc = "wait",
           worker' = [worker EXCEPT ![w].pc = "lock"],
           UNCHANGED <<inline, block, closed, current, answers>>,
           owesNotify' = owesNotify \/ owesNotify' = FALSE
    PROVE  Inv'
<1> USE DEF Inv
<1>1. /\ worker' \in [Workers -> States]
      /\ At("lock")' = At("lock") \cup {w} /\ w \notin At("lock")
      /\ At("wait")' = At("wait") \ {w}
      /\ \A pc : pc # "lock" /\ pc # "wait" => At(pc)' = At(pc)
      /\ Held' = Held
      /\ \A v \in Workers : worker'[v].req = worker[v].req
  BY PcMoves
<1>2. At("judge")' = At("judge") /\ At("build")' = At("build") /\ Queued' = Queued
  BY <1>1 DEF Queued
<1>3. TypeOK' /\ Holding'
  BY <1>1, <1>2 DEF TypeOK, Holding, States, At
<1>4. OnePlace'
  BY <1>1, <1>2 DEF OnePlace, At
<1>5. NobodySleepsOnClosed'
  BY <1>1 DEF NobodySleepsOnClosed
<1>6. SleepersNotNeeded'
  <2>1. /\ IsFiniteSet(At("lock")) /\ Cardinality(At("lock")) \in Nat
        /\ Len(inline) \in Nat /\ Len(block) \in Nat
    BY WorkersFinite DEF TypeOK
  <2>2. Cardinality(At("lock")') = Cardinality(At("lock")) + 1
    BY <1>1, <2>1, FS_AddElement
  <2>3. At("wait") # {} /\ Owed' >= Owed - 1 /\ Owed \in Nat /\ Owed' \in Nat
    BY DEF At, Owed
  <2> QED BY <1>1, <2>1, <2>2, <2>3 DEF SleepersNotNeeded
<1> QED BY <1>3, <1>4, <1>5, <1>6

\* A notify wakes somebody, or nobody slept.
LEMMA NotifyInv == ASSUME Inv, Notify PROVE Inv'
<1>1. UNCHANGED <<inline, block, closed, current, answers>> /\ owesNotify /\ owesNotify' = FALSE
  BY DEF Notify, lanes
<1>2. CASE At("wait") = {} /\ worker' = worker
  <2> USE DEF Inv
  <2>1. \A pc : At(pc)' = At(pc)
    BY <1>2 DEF At
  <2>2. Held' = Held /\ Queued' = Queued
    BY <1>1, <1>2, <2>1 DEF Held, Queued
  <2>3. TypeOK' /\ Holding'
    BY <1>1, <1>2, <2>1 DEF TypeOK, Holding
  <2>4. OnePlace'
    BY <1>1, <1>2, <2>1, <2>2 DEF OnePlace
  <2> QED BY <1>2, <2>1, <2>3, <2>4 DEF NobodySleepsOnClosed, SleepersNotNeeded
<1>3. ASSUME NEW w \in At("wait"), worker' = [worker EXCEPT ![w].pc = "lock"] PROVE Inv'
  <2>1. w \in Workers /\ worker[w].pc = "wait"
    BY DEF At
  <2> QED BY <1>1, <1>3, <2>1, WakeInv
<1> QED BY <1>2, <1>3 DEF Notify

\* A wakeup for no reason only adds a worker that looks.
LEMMA WakeSpuriouslyInv == ASSUME Inv, NEW w \in Workers, WakeSpuriously(w) PROVE Inv'
BY WakeInv DEF WakeSpuriously, lanes

\* Where the reader is concerns no lane and no worker.
LEMMA SetCurrentInv == ASSUME Inv, NEW s \in Sections, SetCurrent(s) PROVE Inv'
<1> USE DEF Inv
<1>1. UNCHANGED <<inline, block, closed, owesNotify, worker, answers>> /\ current' = s
  BY DEF SetCurrent, lanes
<1>2. \A pc : At(pc)' = At(pc)
  BY <1>1 DEF At
<1>3. Held' = Held /\ Queued' = Queued
  BY <1>1, <1>2 DEF Held, Queued
<1>4. TypeOK' /\ Holding'
  BY <1>1, <1>2 DEF TypeOK, Holding
<1>5. OnePlace'
  BY <1>1, <1>2, <1>3 DEF OnePlace
<1> QED BY <1>1, <1>2, <1>4, <1>5 DEF NobodySleepsOnClosed, SleepersNotNeeded, Owed

\* Collecting empties the channel.
LEMMA PollInv == ASSUME Inv, Poll PROVE Inv'
<1> USE DEF Inv
<1>1. UNCHANGED <<inline, block, closed, owesNotify, worker, current>> /\ answers' = {}
  BY DEF Poll, lanes
<1>2. \A pc : At(pc)' = At(pc)
  BY <1>1 DEF At
<1>3. Held' = Held /\ Queued' = Queued
  BY <1>1, <1>2 DEF Held, Queued
<1>4. TypeOK' /\ Holding'
  BY <1>1, <1>2 DEF TypeOK, Holding
<1>5. OnePlace'
  BY <1>1, <1>2, <1>3 DEF OnePlace
<1> QED BY <1>1, <1>2, <1>4, <1>5 DEF NobodySleepsOnClosed, SleepersNotNeeded, Owed

\* Dropping the pool wakes every sleeper.
LEMMA DropInv == ASSUME Inv, Drop PROVE Inv'
<1> USE DEF Inv
<1>1. UNCHANGED <<inline, block, owesNotify, current, answers>> /\ closed'
  BY DEF Drop
<1>2. /\ worker \in [Workers -> States]
      /\ \A w \in Workers : worker'[w] = IF worker[w].pc = "wait"
                                         THEN [worker[w] EXCEPT !.pc = "lock"] ELSE worker[w]
      /\ DOMAIN worker' = Workers
  BY DEF Drop, TypeOK, States, At
<1>3. /\ worker' \in [Workers -> States]
      /\ \A w \in Workers : worker'[w].req = worker[w].req
      /\ \A w \in Workers : worker'[w].pc = IF worker[w].pc = "wait" THEN "lock" ELSE worker[w].pc
  <2>1. \A w \in Workers : worker[w] \in States
    BY <1>2
  <2>2. \A w \in Workers : /\ [worker[w] EXCEPT !.pc = "lock"] \in States
                           /\ [worker[w] EXCEPT !.pc = "lock"].req = worker[w].req
                           /\ [worker[w] EXCEPT !.pc = "lock"].pc = "lock"
    BY <2>1 DEF States
  <2>3. worker' = [w \in Workers |-> IF worker[w].pc = "wait"
                                     THEN [worker[w] EXCEPT !.pc = "lock"] ELSE worker[w]]
    BY DEF Drop, At
  <2> QED BY <1>2, <2>1, <2>2, <2>3
<1>4. At("judge")' = At("judge") /\ At("build")' = At("build") /\ At("wait")' = {}
  BY <1>3 DEF At
<1>5. Held' = Held /\ Queued' = Queued
  BY <1>1, <1>3, <1>4 DEF Held, Queued, At
<1>6. TypeOK' /\ Holding'
  BY <1>1, <1>3, <1>4 DEF TypeOK, Holding, States, At
<1>7. OnePlace'
  BY <1>1, <1>3, <1>4, <1>5 DEF OnePlace, At
<1> QED BY <1>4, <1>6, <1>7 DEF NobodySleepsOnClosed, SleepersNotNeeded

\* A worker that finds the pool closed leaves, and nobody sleeps by then.
LEMMA LeaveInv ==
    ASSUME Inv, NEW w \in Workers, worker[w].pc = "lock", closed,
           worker' = [worker EXCEPT ![w] = [Idle EXCEPT !.pc = "done"]],
           UNCHANGED <<lanes, owesNotify, current, answers>>
    PROVE  Inv'
<1> USE DEF Inv, lanes
<1>1. worker \in [Workers -> States]
  BY DEF TypeOK, States
<1>2. [Idle EXCEPT !.pc = "done"] \in States /\ [Idle EXCEPT !.pc = "done"].pc = "done"
  BY DEF Idle, States
<1>3. /\ worker' \in [Workers -> States]
      /\ worker'[w].pc = "done"
      /\ \A v \in Workers \ {w} : worker'[v] = worker[v]
  BY <1>1, <1>2
<1>4. /\ At("judge")' = At("judge") /\ At("build")' = At("build")
      /\ At("wait")' = At("wait")
      /\ w \notin At("judge") \cup At("build")
  <2>1. \A pc : pc # "done" /\ pc # "lock" => At(pc)' = At(pc)
    BY <1>3, OneMoves
  <2> QED BY <2>1 DEF At
<1>5. \A v \in At("judge") \cup At("build") : worker'[v] = worker[v]
  BY <1>3, <1>4 DEF At
<1>6. Held' = Held /\ Queued' = Queued
  BY <1>4, <1>5 DEF Held, Queued
<1>7. TypeOK' /\ Holding'
  BY <1>3, <1>4, <1>5 DEF TypeOK, Holding, States
<1>8. OnePlace'
  BY <1>4, <1>5, <1>6 DEF OnePlace
<1>9. At("wait")' = {}
  BY <1>4 DEF NobodySleepsOnClosed
<1> QED BY <1>7, <1>8, <1>9 DEF NobodySleepsOnClosed, SleepersNotNeeded

\* A worker with the lock takes a request: one worker and one request fewer.
LEMMA TakeInv ==
    ASSUME Inv, NEW w \in Workers, worker[w].pc = "lock", ~closed, NEW r, Take(w, r),
           worker' = [worker EXCEPT ![w] = Taken(r)],
           UNCHANGED <<closed, owesNotify, current, answers>>
    PROVE  Inv'
<1> USE DEF Inv
<1>1. worker \in [Workers -> States]
  BY DEF TypeOK, States
<1>2. /\ inline' \in Seq(InlineMath) /\ block' \in Seq(Requests \ InlineMath)
      /\ Len(inline') + Len(block') = Len(inline) + Len(block) - 1
      /\ r \in Queued /\ r \in Requests
      /\ Range(inline') \cup Range(block') = Queued \ {r}
      /\ Once(inline') /\ Once(block')
  BY TakeEffect
<1>3. PICK state \in States : /\ state = Taken(r)
                              /\ state.pc = "judge" /\ state.req = r
  <2>1. Taken(r) \in States /\ Taken(r).pc = "judge" /\ Taken(r).req = r
    BY <1>2, StateTaken
  <2> QED BY <2>1
<1>4. /\ worker' \in [Workers -> States]
      /\ worker'[w].pc = "judge" /\ worker'[w].req = r
      /\ \A v \in Workers \ {w} : worker'[v] = worker[v]
  <2>1. worker' = [worker EXCEPT ![w] = state]
    BY <1>3
  <2> QED BY <1>1, <1>3, <2>1
<1>5. /\ At("judge")' = At("judge") \cup {w} /\ w \notin At("judge")
      /\ At("lock")' = At("lock") \ {w} /\ w \in At("lock")
      /\ At("build")' = At("build") /\ At("wait")' = At("wait")
      /\ w \notin At("build")
  <2>1. /\ At("judge")' = At("judge") \cup {w} /\ w \notin At("judge")
        /\ At("lock")' = At("lock") \ {w} /\ w \in At("lock")
        /\ \A pc : pc # "judge" /\ pc # "lock" => At(pc)' = At(pc)
    BY <1>4, OneMoves
  <2> QED BY <2>1 DEF At
<1>6. \A v \in At("judge") \cup At("build") : worker'[v] = worker[v] /\ v # w
  BY <1>4, <1>5 DEF At
<1>7. Held' = Held \cup {r} /\ Queued' = Queued \ {r}
  <2>1. Held' = {worker'[v].req : v \in At("judge") \cup At("build") \cup {w}}
    BY <1>5 DEF Held
  <2>2. Held' = Held \cup {r}
    BY <1>4, <1>6, <2>1 DEF Held
  <2> QED BY <1>2, <2>2 DEF Queued
<1>8. TypeOK'
  BY <1>2, <1>4 DEF TypeOK, States
<1>9. Holding'
  BY <1>2, <1>4, <1>5, <1>6 DEF Holding
<1>10. OnePlace'
  <2>1. r \notin Held /\ r \notin {a.req : a \in answers}
    BY <1>2 DEF OnePlace
  <2>2. \A u, v \in (At("judge") \cup At("build"))' : worker'[u].req = worker'[v].req => u = v
    <3>1. \A v \in At("judge") \cup At("build") : worker[v].req # r
      BY <2>1 DEF Held
    <3> QED BY <1>4, <1>5, <1>6, <3>1 DEF OnePlace
  <2>3. Queued' \cap Held' = {} /\ (Queued' \cup Held') \cap {a.req : a \in answers} = {}
    BY <1>2, <1>7, <2>1 DEF OnePlace
  <2> QED BY <1>2, <2>2, <2>3 DEF OnePlace, Once
<1>11. NobodySleepsOnClosed'
  BY <1>5 DEF NobodySleepsOnClosed
<1>12. SleepersNotNeeded'
  <2>1. /\ IsFiniteSet(At("lock")) /\ Cardinality(At("lock")) \in Nat
        /\ Len(inline) \in Nat /\ Len(block) \in Nat
    BY WorkersFinite DEF TypeOK
  <2>2. Cardinality(At("lock")') = Cardinality(At("lock")) - 1
    BY <1>5, <2>1, FS_RemoveElement
  <2> QED BY <1>2, <1>5, <2>1, <2>2 DEF SleepersNotNeeded, Owed
<1> QED BY <1>8, <1>9, <1>10, <1>11, <1>12

\* A worker falls asleep on empty lanes only.
LEMMA SleepInv ==
    ASSUME Inv, NEW w \in Workers, worker[w].pc = "lock", ~closed, inline = <<>>, block = <<>>,
           worker' = [worker EXCEPT ![w].pc = "wait"],
           UNCHANGED <<lanes, owesNotify, current, answers>>
    PROVE  Inv'
<1> USE DEF Inv, lanes
<1>1. /\ worker' \in [Workers -> States]
      /\ At("lock")' = At("lock") \ {w} /\ w \in At("lock")
      /\ \A pc : pc # "wait" /\ pc # "lock" => At(pc)' = At(pc)
      /\ Held' = Held
      /\ \A v \in Workers : worker'[v].req = worker[v].req
  <2>1. "lock" \in {"lock", "wait"} /\ "wait" \in {"lock", "wait"} /\ "lock" # "wait"
    OBVIOUS
  <2>2. TypeOK
    OBVIOUS
  <2> HIDE DEF Inv, lanes
  <2> QED BY <2>1, <2>2, PcMoves
<1>2. At("judge")' = At("judge") /\ At("build")' = At("build") /\ Queued' = Queued
  BY <1>1 DEF Queued
<1>3. TypeOK' /\ Holding'
  BY <1>1, <1>2 DEF TypeOK, Holding, States, At
<1>4. OnePlace'
  BY <1>1, <1>2 DEF OnePlace, At
<1>5. SleepersNotNeeded'
  <2>1. IsFiniteSet(At("lock")) /\ Cardinality(At("lock")) \in Nat
    BY WorkersFinite
  <2>2. Cardinality(At("lock")') = Cardinality(At("lock")) - 1 /\ Cardinality(At("lock")) >= 1
    <3>1. Cardinality(At("lock")') = Cardinality(At("lock")) - 1
      BY <1>1, <2>1, FS_RemoveElement
    <3>2. Cardinality(At("lock")') \in Nat
      BY <1>1, <2>1, FS_RemoveElement, FS_CardinalityType
    <3> QED BY <2>1, <3>1, <3>2
  <2>3. Len(inline') = 0 /\ Len(block') = 0
    OBVIOUS
  <2> QED BY <2>1, <2>2, <2>3 DEF SleepersNotNeeded, Owed
<1> QED BY <1>3, <1>4, <1>5 DEF NobodySleepsOnClosed

\* The three things a worker does with the lock.
LEMMA EnterInv == ASSUME Inv, NEW w \in Workers, Enter(w) PROVE Inv'
<1>1. worker[w].pc = "lock" /\ UNCHANGED <<closed, owesNotify, current, answers>>
  BY DEF Enter
<1>2. CASE /\ closed /\ UNCHANGED <<inline, block>>
           /\ worker' = [worker EXCEPT ![w] = [Idle EXCEPT !.pc = "done"]]
  BY <1>1, <1>2, LeaveInv DEF lanes
<1>3. CASE /\ ~closed /\ inline = <<>> /\ block = <<>> /\ UNCHANGED <<inline, block>>
           /\ worker' = [worker EXCEPT ![w].pc = "wait"]
  BY <1>1, <1>3, SleepInv DEF lanes
<1>4. ASSUME ~closed, NEW r, Take(w, r),
             worker' = [worker EXCEPT ![w] = Taken(r)]
      PROVE  Inv'
  BY <1>1, <1>4, TakeInv
<1> QED BY <1>2, <1>3, <1>4 DEF Enter, Taken

\* Judging changes a worker's verdict, not what it holds.
LEMMA JudgeInv == ASSUME Inv, NEW w \in Workers, Judge(w) PROVE Inv'
<1> USE DEF Inv
<1>1. /\ UNCHANGED <<inline, block, closed, owesNotify, current, answers>>
      /\ worker \in [Workers -> States] /\ worker[w] \in States
      /\ worker[w].pc = "judge" /\ worker[w].req \in Requests
  BY DEF Judge, lanes, TypeOK, States, Holding, At
<1> DEFINE stale == Far(SectionOf[worker[w].req], current)
<1>2. stale \in BOOLEAN
  <2>1. SectionOf[worker[w].req] \in Nat /\ current \in Nat
    BY <1>1, ImageBuilderAssumption DEF TypeOK
  <2> QED BY <2>1, FarBoolean
<1>3. PICK state \in States : /\ state = Judged(worker[w], stale)
                              /\ state.pc = "build" /\ state.req = worker[w].req
  <2> HIDE DEF stale
  <2>1. /\ Judged(worker[w], stale) \in States
        /\ Judged(worker[w], stale).pc = "build"
        /\ Judged(worker[w], stale).req = worker[w].req
    BY <1>1, <1>2, StateJudged
  <2> QED BY <2>1
<1>4. worker' = [worker EXCEPT ![w] = state]
  BY <1>1, <1>3 DEF Judge, Judged
<1>5. /\ worker' \in [Workers -> States]
      /\ worker'[w].pc = "build"
      /\ \A v \in Workers \ {w} : worker'[v] = worker[v]
      /\ \A v \in Workers : worker'[v].req = worker[v].req
  BY <1>1, <1>3, <1>4
<1>6. /\ (At("judge") \cup At("build"))' = At("judge") \cup At("build")
      /\ At("lock")' = At("lock") /\ At("wait")' = At("wait")
  <2>1. /\ At("build")' = At("build") \cup {w}
        /\ At("judge")' = At("judge") \ {w} /\ w \in At("judge")
        /\ \A pc : pc # "judge" /\ pc # "build" => At(pc)' = At(pc)
    BY <1>1, <1>5, OneMoves
  <2> QED BY <2>1
<1>7. Held' = Held /\ Queued' = Queued
  <2>1. At("judge") \cup At("build") \subseteq Workers
    BY DEF At
  <2> QED BY <1>1, <1>5, <1>6, <2>1 DEF Held, Queued
<1>8. TypeOK'
  BY <1>1, <1>5 DEF TypeOK, States
<1>9. Holding'
  BY <1>5, <1>6 DEF Holding, At
<1>10. OnePlace'
  BY <1>1, <1>5, <1>6, <1>7 DEF OnePlace, At
<1> QED BY <1>1, <1>6, <1>8, <1>9, <1>10 DEF NobodySleepsOnClosed, SleepersNotNeeded, Owed

\* An answer leaves the worker's hands empty, and goes into the channel or,
\* on a closed pool, nowhere.
LEMMA SendInv == ASSUME Inv, NEW w \in Workers, Send(w) PROVE Inv'
<1> USE DEF Inv
<1>1. /\ UNCHANGED <<inline, block, closed, owesNotify, current>>
      /\ worker \in [Workers -> States] /\ worker[w] \in States
      /\ worker[w].pc = "build" /\ worker[w].req \in Requests
  BY DEF Send, lanes, TypeOK, States, Holding, At
<1> DEFINE req == worker[w].req
<1>2. /\ \A a \in answers' : a \in answers \/ a.req = req
      /\ answers' \subseteq [req : Requests, result : {"built", "failed", "stale"}]
  BY <1>1 DEF Send, Outcomes, TypeOK
<1>3. PICK state \in States : /\ worker' = [worker EXCEPT ![w] = state]
                              /\ state.pc \in {"lock", "done"}
                              /\ state.pc = "done" => closed
  <2>1. Idle \in States /\ Idle.pc = "lock"
    BY DEF Idle, States
  <2>2. [Idle EXCEPT !.pc = "done"] \in States /\ [Idle EXCEPT !.pc = "done"].pc = "done"
    BY DEF Idle, States
  <2> QED BY <2>1, <2>2, Zenon DEF Send
<1>4. PICK to \in {"lock", "done"} : state.pc = to /\ (to = "done" => closed)
  BY <1>3
<1>5. /\ worker' \in [Workers -> States]
      /\ worker'[w].pc = to
      /\ \A v \in Workers \ {w} : worker'[v] = worker[v]
  <2>1. worker' = [worker EXCEPT ![w] = state] /\ worker \in [Workers -> States]
    BY <1>1, <1>3
  <2> QED BY <1>4, <2>1
<1>6. /\ At(to)' = At(to) \cup {w} /\ w \notin At(to)
      /\ At("build")' = At("build") \ {w} /\ w \in At("build")
      /\ \A pc : pc # to /\ pc # "build" => At(pc)' = At(pc)
  BY <1>1, <1>5, OneMoves
<1>7. /\ At("judge")' = At("judge") /\ At("wait")' = At("wait")
      /\ w \notin At("judge")
      /\ (At("judge") \cup At("build"))' = (At("judge") \cup At("build")) \ {w}
  BY <1>1, <1>6 DEF At
<1>8. \A v \in (At("judge") \cup At("build")) \ {w} : worker'[v] = worker[v]
  BY <1>5 DEF At
<1>9. Held' = Held \ {req} /\ Queued' = Queued /\ req \in Held
  <2>1. \A v \in (At("judge") \cup At("build")) \ {w} : worker[v].req # req
    BY <1>6 DEF OnePlace
  <2> QED BY <1>1, <1>6, <1>7, <1>8, <2>1 DEF Held, Queued
<1>10. TypeOK'
  BY <1>1, <1>2, <1>5 DEF TypeOK, States
<1>11. Holding'
  BY <1>7, <1>8 DEF Holding
<1>12. OnePlace'
  <2>1. \A u, v \in (At("judge") \cup At("build"))' : worker'[u].req = worker'[v].req => u = v
    BY <1>7, <1>8 DEF OnePlace
  <2>2. {a.req : a \in answers'} \subseteq {a.req : a \in answers} \cup {req}
    BY <1>2
  <2>3. /\ Queued' \cap Held' = {}
        /\ (Queued' \cup Held') \cap {a.req : a \in answers'} = {}
    BY <1>9, <2>2 DEF OnePlace
  <2> QED BY <1>1, <2>1, <2>3 DEF OnePlace
<1>13. NobodySleepsOnClosed'
  BY <1>1, <1>7 DEF NobodySleepsOnClosed
<1>14. SleepersNotNeeded'
  <2>1. /\ IsFiniteSet(At("lock")) /\ Cardinality(At("lock")) \in Nat
        /\ Len(inline) \in Nat /\ Len(block) \in Nat
    BY WorkersFinite DEF TypeOK
  <2>2. CASE closed
    BY <1>7, <2>2 DEF SleepersNotNeeded, NobodySleepsOnClosed
  <2>3. CASE to = "lock"
    <3>1. Cardinality(At("lock")') = Cardinality(At("lock")) + 1
      BY <1>6, <2>1, <2>3, FS_AddElement
    <3> QED BY <1>1, <1>7, <2>1, <3>1 DEF SleepersNotNeeded, Owed
  <2> QED BY <1>4, <2>2, <2>3
<1> QED BY <1>10, <1>11, <1>12, <1>13, <1>14

\* The invariant is inductive.
LEMMA NextInv == Inv /\ [Next]_vars => Inv'
<1> SUFFICES ASSUME Inv, [Next]_vars PROVE Inv'
  OBVIOUS
<1>1. ASSUME NEW r \in Requests, NEW priority \in BOOLEAN, Push(r, priority) PROVE Inv'
  BY <1>1, PushInv
<1>2. CASE Notify
  BY <1>2, NotifyInv
<1>3. ASSUME NEW s \in Sections, SetCurrent(s) PROVE Inv'
  BY <1>3, SetCurrentInv
<1>4. CASE Poll
  BY <1>4, PollInv
<1>5. CASE Drop
  BY <1>5, DropInv
<1>6. ASSUME NEW w \in Workers, Enter(w) PROVE Inv'
  BY <1>6, EnterInv
<1>7. ASSUME NEW w \in Workers, Judge(w) PROVE Inv'
  BY <1>7, JudgeInv
<1>8. ASSUME NEW w \in Workers, Send(w) PROVE Inv'
  BY <1>8, SendInv
<1>9. ASSUME NEW w \in Workers, WakeSpuriously(w) PROVE Inv'
  BY <1>9, WakeSpuriouslyInv
<1>10. CASE UNCHANGED vars
  <2>1. UNCHANGED <<inline, block, closed, owesNotify, worker, current, answers>>
    BY <1>10 DEF vars, lanes
  <2>2. \A pc : At(pc)' = At(pc)
    BY <2>1 DEF At
  <2>3. Held' = Held /\ Queued' = Queued
    BY <2>1, <2>2 DEF Held, Queued
  <2>4. TypeOK' /\ Holding'
    BY <2>1, <2>2 DEF Inv, TypeOK, Holding
  <2>5. OnePlace'
    BY <2>1, <2>2, <2>3 DEF Inv, OnePlace
  <2> QED BY <2>1, <2>2, <2>4, <2>5 DEF Inv, NobodySleepsOnClosed, SleepersNotNeeded, Owed
<1> QED BY <1>1, <1>2, <1>3, <1>4, <1>5, <1>6, <1>7, <1>8, <1>9, <1>10 DEF Next, Work

-----------------------------------------------------------------------------
(* The theorems.                                                           *)

\* The invariant holds throughout, with any number of workers.
THEOREM Invariance == Spec => []Inv
<1> QED BY InitInv, NextInv, PTL DEF Spec

\* The lanes, the threads and the channel keep their types.
THEOREM BuilderTypes == Spec => []TypeOK
<1>1. Inv => TypeOK
  BY DEF Inv
<1> QED BY <1>1, Invariance, PTL

\* While anyone sleeps on the condition variable, the workers about to look at
\* the lanes, with the notify still owed, are as many as the requests in them:
\* one notify_one for each push is enough.
THEOREM NoWakeupLost == Spec => []SleepersNotNeeded
<1>1. Inv => SleepersNotNeeded
  BY DEF Inv
<1> QED BY <1>1, Invariance, PTL

\* A dropped pool leaves no thread asleep: none misses notify_all, and none
\* falls asleep after it.
THEOREM ClosedWakesAll == Spec => []NobodySleepsOnClosed
<1>1. Inv => NobodySleepsOnClosed
  BY DEF Inv
<1> QED BY <1>1, Invariance, PTL

\* A request is queued once, held by one worker, or answered, and never two of
\* these, so no picture is built twice for one request.
THEOREM InOnePlace == Spec => []OnePlace
<1>1. Inv => OnePlace
  BY DEF Inv
<1> QED BY <1>1, Invariance, PTL
-----------------------------------------------------------------------------
(* The refinement.  A request is queued for BuildPool until a worker has   *)
(* judged it, whether it is still in a lane or already in a worker's hand. *)

Waiting == Queued \cup {worker[w].req : w \in At("judge")}
JobOf(w) == [req |-> worker[w].req, stale |-> worker[w].stale]
Building == {JobOf(w) : w \in At("build")}

PoolStep == [Pool!PoolNext]_Pool!poolVars

\* What is the same for BuildPool is a stutter.
LEMMA Stutter ==
    ASSUME Waiting' = Waiting, Building' = Building, UNCHANGED <<answers, current, closed>>
    PROVE  PoolStep
BY DEF Waiting, Building, JobOf, PoolStep, Pool!poolVars

\* The workers keep what they hold when their lanes and lock do not matter.
LEMMA SameHands ==
    ASSUME Queued' = Queued, At("judge")' = At("judge"), At("build")' = At("build"),
           \A w \in At("judge") \cup At("build") : worker'[w] = worker[w]
    PROVE  Waiting' = Waiting /\ Building' = Building
BY DEF Waiting, Building, JobOf

\* Judge and Answer of BuildPool, in the words of this mapping.
LEMMA JudgeIsPools ==
    ASSUME NEW r, r \in Waiting, Waiting' = Waiting \ {r},
           Building' = Building \cup {[req |-> r, stale |-> Pool!Far(SectionOf[r], current)]},
           UNCHANGED <<answers, current, closed>>
    PROVE  Pool!Judge(r)
<1> HIDE DEF Pool!Far
<1> QED BY Zenon DEF Pool!Judge, Waiting, Building, JobOf

\* The same for Answer, with the job answered.
LEMMA AnswerIsPools ==
    ASSUME NEW j, j \in Building, Waiting' = Waiting, Building' = Building \ {j},
           \/ \E result \in Pool!Outcomes(j) :
                answers' = answers \cup {[req |-> j.req, result |-> result]}
           \/ closed /\ answers' = answers,
           UNCHANGED <<current, closed>>
    PROVE  Pool!Answer(j)
<1> HIDE DEF Pool!Outcomes
<1> QED BY Zenon DEF Pool!Answer, Waiting, Building, JobOf

\* Answering a job that is in hand is a step of BuildPool.
LEMMA DeliverIsPools == ASSUME NEW j \in Building, Pool!Answer(j) PROVE PoolStep
<1>1. Pool!Deliver
  BY Zenon DEF Pool!Deliver, Building, JobOf
<1> QED BY <1>1 DEF PoolStep, Pool!PoolNext

\* An empty pool with the reader at the first section.
LEMMA InitPool == Init => \E s \in Sections : Pool!PoolInit(s)
<1> SUFFICES ASSUME Init PROVE Pool!PoolInit(0)
  BY ImageBuilderAssumption
<1>1. At("judge") = {} /\ At("build") = {} /\ Queued = {}
  BY DEF Init, At, Idle, Queued, Range
<1> QED BY <1>1 DEF Init, Pool!PoolInit

\* A push is Ask.
LEMMA PushPool ==
    ASSUME Inv, NEW r \in Requests, NEW priority \in BOOLEAN, Push(r, priority)
    PROVE  PoolStep
<1>1. Range(inline') \cup Range(block') = Queued \cup {r}
  BY PushEffect DEF Inv
<1>2. UNCHANGED <<closed, worker, current, answers>> /\ ~closed /\ r \notin Outstanding
  BY DEF Push
<1>3. At("judge")' = At("judge") /\ At("build")' = At("build")
  BY <1>2 DEF At
<1>4. Waiting' = Waiting \cup {r} /\ Building' = Building
  BY <1>1, <1>2, <1>3 DEF Waiting, Building, JobOf, Queued
<1>5. r \notin Waiting \cup {j.req : j \in Building} \cup {a.req : a \in answers}
  <2>1. {j.req : j \in Building} \subseteq Held
    BY DEF Building, JobOf, Held
  <2>2. {worker[w].req : w \in At("judge")} \subseteq Held
    BY DEF Held
  <2> QED BY <1>2, <2>1, <2>2 DEF Outstanding, Waiting
<1>6. Pool!Ask(r)
  BY <1>2, <1>4, <1>5 DEF Pool!Ask, Pool!Outstanding, Waiting, Building, JobOf
<1> QED BY <1>6 DEF PoolStep, Pool!PoolNext

\* Moving the reader is Steer.
LEMMA SetCurrentPool == ASSUME NEW s \in Sections, SetCurrent(s) PROVE PoolStep
<1>1. UNCHANGED <<inline, block, closed, worker, answers>> /\ current' = s /\ ~closed
  BY DEF SetCurrent, lanes
<1>2. Waiting' = Waiting /\ Building' = Building
  BY <1>1 DEF Waiting, Building, JobOf, Queued, At
<1>3. Pool!Steer(s)
  BY <1>1, <1>2 DEF Pool!Steer, Waiting, Building, JobOf
<1> QED BY <1>3 DEF PoolStep, Pool!PoolNext

\* Polling is Collect.
LEMMA PollPool == ASSUME Poll PROVE PoolStep
<1>1. UNCHANGED <<inline, block, closed, worker, current>> /\ answers' = {} /\ ~closed
  BY DEF Poll, lanes
<1>2. Waiting' = Waiting /\ Building' = Building
  BY <1>1 DEF Waiting, Building, JobOf, Queued, At
<1>3. Pool!Collect
  BY <1>1, <1>2 DEF Pool!Collect, Waiting, Building, JobOf
<1> QED BY <1>3 DEF PoolStep, Pool!PoolNext

\* Waking everybody is nothing to BuildPool, closing is Drop.
LEMMA DropPool == ASSUME Inv, Drop PROVE PoolStep
<1>1. UNCHANGED <<inline, block, current, answers>> /\ closed' = TRUE /\ ~closed
  BY DEF Drop
<1>2. \A w \in Workers : worker'[w] = IF worker[w].pc = "wait"
                                      THEN [worker[w] EXCEPT !.pc = "lock"] ELSE worker[w]
  BY DEF Drop, At
<1>3. \A w \in Workers : worker[w] \in States
  BY DEF Inv, TypeOK, States
<1>4. \A w \in Workers : worker[w].pc = "wait" => worker'[w].pc = "lock"
  <2>1. \A w \in Workers : [worker[w] EXCEPT !.pc = "lock"].pc = "lock"
    BY <1>3 DEF States
  <2> QED BY <1>2, <2>1
<1>5. \A w \in Workers : worker[w].pc # "wait" => worker'[w] = worker[w]
  BY <1>2
<1>6. /\ At("judge")' = At("judge") /\ At("build")' = At("build")
      /\ \A w \in At("judge") \cup At("build") : worker'[w] = worker[w]
  BY <1>4, <1>5 DEF At
<1>7. Waiting' = Waiting /\ Building' = Building
  BY <1>1, <1>6, SameHands DEF Queued
<1>8. Pool!Drop
  BY <1>1, <1>7 DEF Pool!Drop, Waiting, Building, JobOf
<1> QED BY <1>8 DEF PoolStep, Pool!PoolNext

\* Waking and falling asleep are nothing to BuildPool.
LEMMA MovePool ==
    ASSUME Inv, NEW w \in Workers, NEW from \in {"lock", "wait"}, NEW to \in {"lock", "wait"},
           from # to, worker[w].pc = from, worker' = [worker EXCEPT ![w].pc = to],
           UNCHANGED <<inline, block, closed, current, answers>>
    PROVE  PoolStep
<1>1. /\ \A pc : pc # to /\ pc # from => At(pc)' = At(pc)
      /\ \A v \in Busy : worker'[v] = worker[v]
  BY PcMoves DEF Inv
<1>2. At("judge")' = At("judge") /\ At("build")' = At("build") /\ Queued' = Queued
  BY <1>1 DEF Queued
<1>3. Waiting' = Waiting /\ Building' = Building
  BY <1>1, <1>2, SameHands DEF Busy
<1> QED BY <1>3, Stutter

\* Leaving, taking and sleeping are stutters: a request taken is still queued.
LEMMA EnterPool == ASSUME Inv, NEW w \in Workers, Enter(w) PROVE PoolStep
<1>1. worker[w].pc = "lock" /\ UNCHANGED <<closed, answers, current>>
  BY DEF Enter
<1>2. CASE UNCHANGED <<inline, block>> /\ worker' = [worker EXCEPT ![w].pc = "wait"]
  <2>1. "lock" \in {"lock", "wait"} /\ "wait" \in {"lock", "wait"} /\ "lock" # "wait"
    OBVIOUS
  <2> QED BY <1>1, <1>2, <2>1, MovePool
<1>3. CASE UNCHANGED <<inline, block>> /\ worker' = [worker EXCEPT ![w] = [Idle EXCEPT !.pc = "done"]]
  <2>1. /\ worker'[w].pc = "done"
        /\ \A v \in Workers \ {w} : worker'[v] = worker[v]
    <3>1. [Idle EXCEPT !.pc = "done"].pc = "done" /\ DOMAIN worker = Workers
      BY DEF Idle, Inv, TypeOK
    <3> QED BY <1>3, <3>1
  <2>2. \A pc : pc # "done" /\ pc # "lock" => At(pc)' = At(pc)
    BY <1>1, <2>1, OneMoves
  <2>3. /\ At("judge")' = At("judge") /\ At("build")' = At("build") /\ Queued' = Queued
        /\ \A v \in At("judge") \cup At("build") : worker'[v] = worker[v]
    BY <1>1, <1>3, <2>1, <2>2 DEF Queued, At
  <2> QED BY <1>1, <2>3, SameHands, Stutter
<1>4. ASSUME NEW r, Take(w, r), worker' = [worker EXCEPT ![w] = Taken(r)]
      PROVE  PoolStep
  <2>1. /\ r \in Queued /\ r \in Requests
        /\ Range(inline') \cup Range(block') = Queued \ {r}
    BY <1>4, TakeEffect DEF Inv
  <2>2. /\ worker'[w].pc = "judge" /\ worker'[w].req = r
        /\ \A v \in Workers \ {w} : worker'[v] = worker[v]
    <3>1. DOMAIN worker = Workers
      BY DEF Inv, TypeOK
    <3>2. Taken(r).pc = "judge" /\ Taken(r).req = r
      BY <2>1, StateTaken
    <3> HIDE DEF Idle
    <3> QED BY <1>4, <3>1, <3>2
  <2>3. /\ At("judge")' = At("judge") \cup {w}
        /\ At("build")' = At("build")
        /\ \A v \in At("judge") \cup At("build") : worker'[v] = worker[v]
    <3>1. /\ At("judge")' = At("judge") \cup {w}
          /\ \A pc : pc # "judge" /\ pc # "lock" => At(pc)' = At(pc)
      BY <1>1, <2>2, OneMoves
    <3> QED BY <1>1, <2>2, <3>1 DEF At
  <2>4. Waiting' = Waiting
    <3>1. Waiting' = (Queued \ {r}) \cup {worker'[v].req : v \in At("judge") \cup {w}}
      BY <2>1, <2>3 DEF Waiting, Queued
    <3>2. {worker'[v].req : v \in At("judge") \cup {w}} = {worker[v].req : v \in At("judge")} \cup {r}
      BY <2>2, <2>3
    <3> QED BY <2>1, <3>1, <3>2 DEF Waiting
  <2>5. Building' = Building
    BY <2>3 DEF Building, JobOf
  <2> QED BY <1>1, <2>4, <2>5, Stutter
<1> QED BY <1>2, <1>3, <1>4 DEF Enter, Taken

\* A worker judges: the request leaves the queue of BuildPool.
LEMMA JudgePool == ASSUME Inv, NEW w \in Workers, Judge(w) PROVE PoolStep
<1>0. PICK r, stale : r = worker[w].req /\ stale = Far(SectionOf[r], current)
  OBVIOUS
<1>1. /\ UNCHANGED <<inline, block, closed, answers, current>>
      /\ worker \in [Workers -> States] /\ worker[w] \in States
      /\ worker[w].pc = "judge" /\ w \in At("judge") /\ r \in Requests
  BY <1>0 DEF Inv, Judge, lanes, TypeOK, States, Holding, At
<1>2. stale \in BOOLEAN
  <2>1. SectionOf[r] \in Nat /\ current \in Nat
    BY <1>1, ImageBuilderAssumption DEF Inv, TypeOK
  <2> QED BY <1>0, <2>1, FarBoolean
<1>3. /\ worker'[w].pc = "build" /\ worker'[w].req = r /\ worker'[w].stale = stale
      /\ \A v \in Workers \ {w} : worker'[v] = worker[v]
  <2>1. worker' = [worker EXCEPT ![w] = Judged(worker[w], stale)]
    BY <1>0, <1>1 DEF Judge, Judged
  <2>2. /\ Judged(worker[w], stale).pc = "build"
        /\ Judged(worker[w], stale).req = r
        /\ Judged(worker[w], stale).stale = stale
    BY <1>0, <1>1, <1>2, StateJudged
  <2> QED BY <1>1, <2>1, <2>2
<1>4. /\ At("build")' = At("build") \cup {w}
      /\ At("judge")' = At("judge") \ {w}
      /\ \A v \in At("judge") \cup At("build") : v # w => worker'[v] = worker[v]
      /\ w \notin At("build")
  <2>1. /\ At("build")' = At("build") \cup {w} /\ w \notin At("build")
        /\ At("judge")' = At("judge") \ {w}
    BY <1>1, <1>3, OneMoves
  <2> QED BY <1>3, <2>1 DEF At
<1>5. Waiting' = Waiting \ {r} /\ r \in Waiting
  <2>1. \A v \in At("judge") \ {w} : worker'[v].req = worker[v].req /\ worker[v].req # r
    BY <1>0, <1>1, <1>4 DEF Inv, OnePlace
  <2>2. r \notin Queued /\ Queued' = Queued
    BY <1>0, <1>1 DEF Inv, OnePlace, Held, Queued
  <2>3. Waiting' = Queued \cup {worker[v].req : v \in At("judge") \ {w}}
    BY <1>4, <2>1, <2>2 DEF Waiting
  <2> QED BY <1>0, <1>1, <2>1, <2>2, <2>3 DEF Waiting
<1>6. Building' = Building \cup {[req |-> r, stale |-> stale]}
  <2>1. Building' = {[req |-> worker'[v].req, stale |-> worker'[v].stale] : v \in At("build") \cup {w}}
    BY <1>4 DEF Building, JobOf
  <2>2. \A v \in At("build") : worker'[v] = worker[v]
    BY <1>4
  <2> QED BY <1>3, <2>1, <2>2 DEF Building, JobOf
<1>7. Pool!Far(SectionOf[r], current) = stale
  BY <1>0 DEF Pool!Far, Far
<1>8. Pool!Judge(r)
  BY <1>1, <1>5, <1>6, <1>7, JudgeIsPools
<1> QED BY <1>1, <1>8 DEF PoolStep, Pool!PoolNext, Pool!Serve

\* A worker answers: its job leaves BuildPool's hands.
LEMMA SendPool == ASSUME Inv, NEW w \in Workers, Send(w) PROVE PoolStep
<1>1. /\ UNCHANGED <<inline, block, closed, current>>
      /\ worker \in [Workers -> States]
      /\ worker[w].pc = "build" /\ w \in At("build")
  BY DEF Inv, Send, lanes, TypeOK, States, At
<1>2. /\ \A v \in Workers \ {w} : worker'[v] = worker[v]
      /\ worker'[w].pc \in {"lock", "done"}
  <2>1. Idle.pc = "lock" /\ [Idle EXCEPT !.pc = "done"].pc = "done"
    BY DEF Idle
  <2>2. worker' = [worker EXCEPT ![w] = Idle]
        \/ worker' = [worker EXCEPT ![w] = [Idle EXCEPT !.pc = "done"]]
    BY DEF Send
  <2> QED BY <1>1, <2>1, <2>2
<1>3. /\ At("judge")' = At("judge") /\ At("build")' = At("build") \ {w}
      /\ \A v \in At("judge") \cup At("build") : v # w => worker'[v] = worker[v]
      /\ w \notin At("judge")
  BY <1>1, <1>2 DEF At
<1>4. Waiting' = Waiting
  <2>1. Queued' = Queued
    BY <1>1 DEF Queued
  <2> QED BY <1>3, <2>1 DEF Waiting
<1>5. PICK job : job = JobOf(w)
  OBVIOUS
<1>6. Building' = Building \ {job} /\ job \in Building
  <2>1. \A v \in At("build") \ {w} : worker'[v] = worker[v] /\ JobOf(v) # job
    BY <1>1, <1>3, <1>5 DEF Inv, OnePlace, JobOf
  <2>2. Building' = {JobOf(v) : v \in At("build") \ {w}}
    BY <1>3, <2>1 DEF Building, JobOf
  <2> QED BY <1>1, <1>5, <2>1, <2>2 DEF Building
<1>7. job.req = worker[w].req /\ job.stale = worker[w].stale
  BY <1>5 DEF JobOf
<1>8. Pool!Outcomes(job) = Outcomes(worker[w].stale)
  BY <1>7 DEF Pool!Outcomes, Outcomes
<1>9. \/ \E result \in Pool!Outcomes(job) :
           answers' = answers \cup {[req |-> job.req, result |-> result]}
      \/ closed /\ answers' = answers
  BY <1>7, <1>8 DEF Send
<1>10. Pool!Answer(job)
  BY <1>1, <1>4, <1>6, <1>9, AnswerIsPools
<1> QED BY <1>6, <1>10, DeliverIsPools

\* Every step is a step of BuildPool or a stutter.
LEMMA NextPool == Inv /\ [Next]_vars => PoolStep
<1> SUFFICES ASSUME Inv, [Next]_vars PROVE PoolStep
  OBVIOUS
<1>1. ASSUME NEW r \in Requests, NEW priority \in BOOLEAN, Push(r, priority) PROVE PoolStep
  BY <1>1, PushPool
<1>2. CASE Notify
  <2>1. UNCHANGED <<inline, block, closed, current, answers>>
    BY <1>2 DEF Notify, lanes
  <2>2. CASE worker' = worker
    <3>1. Waiting' = Waiting /\ Building' = Building
      BY <2>1, <2>2 DEF Waiting, Building, JobOf, Queued, At
    <3> QED BY <2>1, <3>1, Stutter
  <2>3. ASSUME NEW w \in At("wait"), worker' = [worker EXCEPT ![w].pc = "lock"] PROVE PoolStep
    <3>1. w \in Workers /\ worker[w].pc = "wait"
      BY DEF At
    <3>2. "lock" \in {"lock", "wait"} /\ "wait" \in {"lock", "wait"} /\ "wait" # "lock"
      OBVIOUS
    <3> QED BY <2>1, <2>3, <3>1, <3>2, MovePool
  <2> QED BY <1>2, <2>2, <2>3 DEF Notify
<1>3. ASSUME NEW s \in Sections, SetCurrent(s) PROVE PoolStep
  BY <1>3, SetCurrentPool
<1>4. CASE Poll
  BY <1>4, PollPool
<1>5. CASE Drop
  BY <1>5, DropPool
<1>6. ASSUME NEW w \in Workers, Enter(w) PROVE PoolStep
  BY <1>6, EnterPool
<1>7. ASSUME NEW w \in Workers, Judge(w) PROVE PoolStep
  BY <1>7, JudgePool
<1>8. ASSUME NEW w \in Workers, Send(w) PROVE PoolStep
  BY <1>8, SendPool
<1>9. ASSUME NEW w \in Workers, WakeSpuriously(w) PROVE PoolStep
  <2>1. /\ UNCHANGED <<inline, block, closed, current, answers>>
        /\ worker[w].pc = "wait" /\ worker' = [worker EXCEPT ![w].pc = "lock"]
    BY <1>9 DEF WakeSpuriously, lanes
  <2>2. "lock" \in {"lock", "wait"} /\ "wait" \in {"lock", "wait"} /\ "wait" # "lock"
    OBVIOUS
  <2> QED BY <2>1, <2>2, MovePool
<1>10. CASE UNCHANGED vars
  <2>1. Waiting' = Waiting /\ Building' = Building /\ UNCHANGED <<answers, current, closed>>
    BY <1>10 DEF vars, lanes, Waiting, Building, JobOf, Queued, At
  <2> QED BY <2>1, Stutter
<1> QED BY <1>1, <1>2, <1>3, <1>4, <1>5, <1>6, <1>7, <1>8, <1>9, <1>10 DEF Next, Work

\* The lanes, the lock, the condition variable and the threads implement
\* BuildPool: every request asked is judged once against the reader's section
\* and answered at most once, "stale" only when it was far.
THEOREM Refinement == Spec => PoolRefined
<1>1. Init => \E s \in Sections : Pool!PoolInit(s)
  BY InitPool
<1>2. Inv /\ [Next]_vars => [Pool!PoolNext]_Pool!poolVars
  BY NextPool DEF PoolStep
<1> QED BY <1>1, <1>2, Invariance, PTL DEF Spec, PoolRefined, Pool!PoolSpec

-----------------------------------------------------------------------------
(* The figure viewer.  Lists of figures, and what holds of those of a book.   *)
Kinds == {"named", "bare", "math", "empty", "odd", "torn"}
Fig == {f \in [id : Chapters \X Nat, unnamed : BOOLEAN, kind : Kinds, says : Nat] :
           /\ f.id[2] \in OpenableIn(f.id[1]) /\ f.kind = FigBook[f.id[1]][f.id[2]]
           /\ f.unnamed <=> f.kind # "named"
           /\ ~f.unnamed => f.says = FigDigit}
InPlace(q) == \A a, b \in DOMAIN q : a < b => Earlier(q[a].id, q[b].id)
Lists(q, S) == q \in Seq(Fig) /\ InPlace(q) /\ Ids(q) = UNION {FiguresOf(s) : s \in S}
Numbered(q) == \A k \in DOMAIN q : q[k].unnamed => q[k].says = k
Passing(v) == {k \in DOMAIN v.figs : v.filter = 0 \/ v.figs[k].says = v.filter}
Viewers == [open : BOOLEAN, figs : Seq(Fig), view : Seq(Nat), sel : Nat \ {0}, whole : BOOLEAN,
            filter : Nat, mode : {"list", "filter", "save"}]
Shows(v, S) ==
    /\ v \in Viewers /\ v.open /\ Lists(v.figs, S) /\ Numbered(v.figs)
    /\ v.view \in Seq(DOMAIN v.figs) /\ Range(v.view) = Passing(v)

(* Positions in a list are in the order of its figures.                       *)
LEMMA CollectedLists == ASSUME NEW s \in Chapters PROVE Lists(Collected[s], {s})
<1> DEFINE kinds == FigBook[s]
           n == Len(kinds)
           count == [i \in DOMAIN kinds |-> i]
           at == OpenableOrder(s)
           made(k) == [id |-> <<s, at[k]>>, unnamed |-> kinds[at[k]] # "named", kind |-> kinds[at[k]],
                       says |-> IF kinds[at[k]] = "named" THEN FigDigit ELSE 0]
           q == [k \in DOMAIN at |-> made(k)]
<1>1. /\ kinds \in Seq({"named", "bare", "math", "empty", "odd", "torn"})
      /\ n \in Nat /\ DOMAIN kinds = 1 .. n /\ FigDigit \in Nat
  <2>1. FigBook \in Seq(Seq({"named", "bare", "math", "empty", "odd", "torn"})) /\ FigDigit \in 0 .. 9
    BY FigAssumption
  <2>2. kinds \in Seq({"named", "bare", "math", "empty", "odd", "torn"})
    BY <2>1 DEF Chapters
  <2> QED BY <2>1, <2>2
<1>2. \A i \in 1 .. n : kinds[i] \in Kinds
  BY <1>1 DEF Kinds
<1>3. count \in Seq(Nat) /\ DOMAIN count = 1 .. n /\ \A i \in 1 .. n : count[i] = i
  BY <1>1
<1>4. OpenableIn(s) \in SUBSET (1 .. n)
  BY <1>1 DEF OpenableIn
<1>5. at = Retained(count, OpenableIn(s))
  BY DEF OpenableOrder
<1> HIDE DEF count, at
<1>6. /\ at \in Seq(Nat)
      /\ Range(at) = OpenableIn(s)
  <2>1. Range(count) = 1 .. n
    BY <1>3 DEF Range
  <2>2. at \in Seq(Nat) /\ Range(at) = Range(count) \cap OpenableIn(s)
    BY <1>3, <1>5, RetainedIs
  <2> QED BY <1>4, <2>1, <2>2
<1>7. ASSUME NEW a \in DOMAIN at, NEW b \in DOMAIN at, a < b
      PROVE  at[a] < at[b]
  <2>1. \E i, j \in 1 .. n : i < j /\ at[a] = count[i] /\ at[b] = count[j]
    BY <1>3, <1>5, <1>7, RetainedInOrder
  <2> QED BY <1>3, <2>1
<1>8. \A k \in DOMAIN at : at[k] \in OpenableIn(s) /\ at[k] \in 1 .. n /\ at[k] \in Nat
  BY <1>4, <1>6 DEF Range
<1>9. \A k \in DOMAIN at : made(k) \in Fig /\ made(k).id = <<s, at[k]>>
  BY <1>1, <1>2, <1>8 DEF Fig
<1> HIDE DEF made
<1>10. DOMAIN at = 1 .. Len(at) /\ Len(at) \in Nat
  BY <1>6
<1>11. q \in Seq(Fig) /\ DOMAIN q = DOMAIN at
  BY <1>9, <1>10
<1>12. Collected[s] = q
  <2>1. Collected[s] = AsList(q)
    BY DEF Collected, at, made
  <2> HIDE DEF q
  <2> QED BY <1>11, <2>1 DEF AsList
<1>13. InPlace(q)
  <2> SUFFICES ASSUME NEW a \in DOMAIN q, NEW b \in DOMAIN q, a < b PROVE Earlier(q[a].id, q[b].id)
    BY DEF InPlace
  <2>1. q[a].id = <<s, at[a]>> /\ q[b].id = <<s, at[b]>>
    BY <1>9, <1>11
  <2>2. at[a] < at[b]
    BY <1>7, <1>11
  <2> QED BY <2>1, <2>2 DEF Earlier
<1>14. Ids(q) = FiguresOf(s)
  <2>1. Ids(q) = {<<s, at[k]>> : k \in DOMAIN at}
    BY <1>9, <1>11 DEF Ids
  <2>2. \A k \in DOMAIN at : <<s, at[k]>> \in FiguresOf(s)
    BY <1>8 DEF FiguresOf
  <2>3. \A i \in OpenableIn(s) : \E k \in DOMAIN at : at[k] = i
    BY <1>6 DEF Range
  <2> QED BY <2>1, <2>2, <2>3 DEF FiguresOf
<1>15. UNION {FiguresOf(t) : t \in {s}} = FiguresOf(s)
  OBVIOUS
<1> QED BY <1>11, <1>12, <1>13, <1>14, <1>15 DEF Lists

(* Naming the bare ones changes nothing else.                                 *)
LEMMA LabelledLists ==
    ASSUME NEW S, NEW q, Lists(q, S)
    PROVE  /\ Lists(Labelled(q), S) /\ Numbered(Labelled(q))
           /\ DOMAIN Labelled(q) = DOMAIN q
           /\ \A k \in DOMAIN q : Labelled(q)[k].id = q[k].id
<1> DEFINE named(k) == IF q[k].unnamed THEN [q[k] EXCEPT !.says = k] ELSE q[k]
           p == [k \in DOMAIN q |-> named(k)]
<1>1. q \in Seq(Fig) /\ Len(q) \in Nat /\ DOMAIN q = 1 .. Len(q)
  BY DEF Lists
<1>2. ASSUME NEW k \in DOMAIN q
      PROVE  named(k) \in Fig /\ named(k).id = q[k].id /\ (named(k).unnamed => named(k).says = k)
  <2>1. q[k] \in Fig /\ k \in Nat
    BY <1>1
  <2> QED BY <2>1 DEF Fig
<1> HIDE DEF named
<1>3. p \in Seq(Fig) /\ DOMAIN p = DOMAIN q
  BY <1>1, <1>2
<1>4. Labelled(q) = p
  <2>1. Labelled(q) = AsList(p)
    BY DEF Labelled, named
  <2> HIDE DEF p
  <2> QED BY <1>3, <2>1 DEF AsList
<1>5. \A k \in DOMAIN q : p[k].id = q[k].id /\ (p[k].unnamed => p[k].says = k)
  BY <1>2
<1> HIDE DEF p
<1>6. Ids(p) = Ids(q)
  BY <1>3, <1>5 DEF Ids
<1>7. InPlace(p)
  BY <1>3, <1>5 DEF Lists, InPlace
<1> QED BY <1>3, <1>4, <1>5, <1>6, <1>7 DEF Lists, Numbered

\* The figures' ids are those of the figures in the list.
LEMMA IdsOfRange == \A q : Ids(q) = {f.id : f \in Range(q)}
BY DEF Ids, Range

(* The figures of some sections of a list.                                    *)
LEMMA PartLists ==
    ASSUME NEW S \in SUBSET Chapters, NEW q, Lists(q, S), NEW T
    PROVE  Lists(OfSections(q, T), S \cap T)
<1> DEFINE of == {f \in Range(q) : f.id[1] \in T}
           p == Retained(q, of)
<1>1. q \in Seq(Fig)
  BY DEF Lists
<1>2. p \in Seq(Fig) /\ Range(p) = Range(q) \cap of
  BY <1>1, RetainedIs
<1>3. InPlace(p)
  <2> SUFFICES ASSUME NEW a \in DOMAIN p, NEW b \in DOMAIN p, a < b PROVE Earlier(p[a].id, p[b].id)
    BY DEF InPlace
  <2>1. \E i, j \in DOMAIN q : i < j /\ p[a] = q[i] /\ p[b] = q[j]
    <3> HIDE DEF of
    <3> QED BY <1>1, RetainedInOrder
  <2> QED BY <2>1 DEF Lists, InPlace
<1> HIDE DEF p
<1>4. Range(p) = of
  BY <1>2
<1>5. Ids(p) = {f.id : f \in of}
  BY <1>4, IdsOfRange
<1>6. Ids(q) = {f.id : f \in Range(q)}
  BY IdsOfRange
<1>7. Ids(p) = {x \in Ids(q) : x[1] \in T}
  BY <1>5, <1>6
<1>8. \A s \in S : \A x \in FiguresOf(s) : x[1] = s
  BY DEF FiguresOf
<1>9. Ids(p) = UNION {FiguresOf(s) : s \in S \cap T}
  BY <1>7, <1>8 DEF Lists
<1> QED BY <1>2, <1>3, <1>9 DEF Lists, OfSections, p

(* One list after another whose sections are later.                           *)
LEMMA JoinedLists ==
    ASSUME NEW S \in SUBSET Chapters, NEW T \in SUBSET Chapters, NEW p, NEW q, Lists(p, S), Lists(q, T),
           \A s \in S, t \in T : s < t
    PROVE  Lists(p \o q, S \cup T)
<1> DEFINE r == p \o q
           m == Len(p)
<1>1. p \in Seq(Fig) /\ q \in Seq(Fig)
  BY DEF Lists
<1>2. r \in Seq(Fig) /\ Range(r) = Range(p) \cup Range(q)
  BY <1>1, Joined
<1>3. m \in Nat /\ DOMAIN p = 1 .. m /\ DOMAIN q = 1 .. Len(q) /\ Len(q) \in Nat /\ DOMAIN r = 1 .. (m + Len(q))
  BY <1>1
<1>4. \A i \in DOMAIN r : \/ i \in DOMAIN p /\ r[i] = p[i]
                          \/ i - m \in DOMAIN q /\ r[i] = q[i - m] /\ i > m
  BY <1>1
<1>5. \A x \in Ids(p) : x[1] \in S
  BY DEF Lists, FiguresOf
<1>6. \A x \in Ids(q) : x[1] \in T
  BY DEF Lists, FiguresOf
<1> HIDE DEF r, m
<1>7. ASSUME NEW a \in DOMAIN r, NEW b \in DOMAIN r, a < b
      PROVE  Earlier(r[a].id, r[b].id)
  <2>1. a \in Int /\ b \in Int
    BY <1>3
  <2>2. CASE a \in DOMAIN p /\ b \in DOMAIN p
    <3>1. r[a] = p[a] /\ r[b] = p[b]
      BY <1>3, <1>4, <2>2
    <3> QED BY <1>7, <2>2, <3>1 DEF Lists, InPlace
  <2>3. CASE a \in DOMAIN p /\ b \notin DOMAIN p
    <3>1. r[a] = p[a] /\ r[b] = q[b - m] /\ b - m \in DOMAIN q
      BY <1>3, <1>4, <2>3
    <3>2. r[a].id[1] \in S /\ r[b].id[1] \in T
      BY <1>5, <1>6, <2>3, <3>1 DEF Ids
    <3> QED BY <3>2 DEF Earlier
  <2>4. CASE a \notin DOMAIN p
    <3>1. b \notin DOMAIN p
      BY <1>3, <1>7, <2>1, <2>4
    <3>2. r[a] = q[a - m] /\ r[b] = q[b - m] /\ a - m \in DOMAIN q /\ b - m \in DOMAIN q /\ a - m < b - m
      BY <1>3, <1>4, <1>7, <2>1, <2>4, <3>1
    <3> QED BY <3>2 DEF Lists, InPlace
  <2> QED BY <2>2, <2>3, <2>4
<1>8. Ids(r) = Ids(p) \cup Ids(q)
  BY <1>2, IdsOfRange
<1>9. Ids(r) = UNION {FiguresOf(s) : s \in S \cup T}
  BY <1>8 DEF Lists
<1> QED BY <1>2, <1>7, <1>9 DEF Lists, InPlace, r

\* The chapters are numbered.
LEMMA ChaptersAre == Len(FigBook) \in Nat /\ Chapters = 1 .. Len(FigBook)
BY FigAssumption DEF Chapters

(* What the filter lets through is listed again, the cursor within it.        *)
LEMMA RefilteredIs ==
    ASSUME NEW v \in Viewers
    PROVE  /\ Refiltered(v) = [v EXCEPT !.view = Refiltered(v).view, !.sel = Refiltered(v).sel]
           /\ Refiltered(v) \in Viewers
           /\ Refiltered(v).view \in Seq(DOMAIN v.figs) /\ Range(Refiltered(v).view) = Passing(v)
<1> DEFINE all == [k \in DOMAIN v.figs |-> k]
           view == Retained(all, Passing(v))
           n == Len(view)
<1>1. v.figs \in Seq(Fig) /\ v.sel \in Nat \ {0} /\ DOMAIN v.figs = 1 .. Len(v.figs) /\ Len(v.figs) \in Nat
  BY DEF Viewers
<1>2. all \in Seq(DOMAIN v.figs) /\ Range(all) = DOMAIN v.figs
  <2>1. all \in Seq(DOMAIN v.figs) /\ DOMAIN all = DOMAIN v.figs /\ \A k \in DOMAIN all : all[k] = k
    BY <1>1
  <2> QED BY <2>1 DEF Range
<1>3. Passing(v) \in SUBSET DOMAIN v.figs
  BY DEF Passing
<1> HIDE DEF all
<1>4. view \in Seq(DOMAIN v.figs) /\ Range(view) = Passing(v)
  <2>1. view \in Seq(DOMAIN v.figs) /\ Range(view) = Range(all) \cap Passing(v)
    BY <1>2, RetainedIs
  <2> QED BY <1>2, <1>3, <2>1
<1>5. Refiltered(v) = [v EXCEPT !.view = view, !.sel = Clamped(v.sel, n)]
  BY DEF Refiltered, Passing, all
<1> HIDE DEF view
<1>6. n \in Nat
  BY <1>4
<1> HIDE DEF n
<1>7. Clamped(v.sel, n) \in Nat \ {0}
  BY <1>1, <1>6 DEF Clamped
<1>8. view \in Seq(Nat)
  BY <1>1, <1>4
<1>9. [v EXCEPT !.view = view, !.sel = Clamped(v.sel, n)] \in Viewers
  BY <1>7, <1>8 DEF Viewers
<1> QED BY <1>4, <1>5, <1>9 DEF Viewers

(* So a viewer that shows some sections still shows them.                     *)
LEMMA RefilteredShows ==
    ASSUME NEW S, NEW v \in Viewers, v.open, Lists(v.figs, S), Numbered(v.figs)
    PROVE  Shows(Refiltered(v), S)
<1> DEFINE w == Refiltered(v)
<1>1. /\ w = [v EXCEPT !.view = w.view, !.sel = w.sel] /\ w \in Viewers
      /\ w.view \in Seq(DOMAIN v.figs) /\ Range(w.view) = Passing(v)
  BY RefilteredIs
<1> HIDE DEF w
<1>2. w.open = v.open /\ w.figs = v.figs /\ w.filter = v.filter
  BY <1>1 DEF Viewers
<1>3. Passing(w) = Passing(v)
  BY <1>2 DEF Passing
<1> QED BY <1>1, <1>2, <1>3 DEF Shows, w

(* A merge adds the section, in its place.                                    *)
LEMMA MergedList ==
    ASSUME NEW S \in SUBSET Chapters, NEW q, Lists(q, S), NEW s \in Chapters, NEW p, Lists(p, {s})
    PROVE  Lists(OfSections(q, 1 .. s - 1) \o p \o OfSections(q, s + 1 .. Len(FigBook)), S \cup {s})
<1> DEFINE before == S \cap (1 .. s - 1)
           after == S \cap (s + 1 .. Len(FigBook))
           q1 == OfSections(q, 1 .. s - 1)
           q2 == OfSections(q, s + 1 .. Len(FigBook))
<1>1. Len(FigBook) \in Nat /\ Chapters = 1 .. Len(FigBook)
  BY ChaptersAre
<1>2. Lists(q1, before) /\ Lists(q2, after)
  BY PartLists
<1> HIDE DEF q1, q2
<1>3. Lists(q1 \o p, before \cup {s})
  <2>1. \A a \in before, b \in {s} : a < b
    BY <1>1
  <2>2. before \in SUBSET Chapters /\ {s} \in SUBSET Chapters
    BY <1>1
  <2> HIDE DEF before
  <2> QED BY <1>2, <2>1, <2>2, JoinedLists
<1>4. Lists((q1 \o p) \o q2, (before \cup {s}) \cup after)
  <2>1. \A a \in before \cup {s}, b \in after : a < b
    BY <1>1
  <2>2. before \cup {s} \in SUBSET Chapters /\ after \in SUBSET Chapters
    BY <1>1
  <2> HIDE DEF before, after
  <2> QED BY <1>2, <1>3, <2>1, <2>2, JoinedLists
<1>5. (before \cup {s}) \cup after = S \cup {s}
  <2>1. \A t \in S : t \in before \/ t = s \/ t \in after
    <3>1. \A t \in S : t \in Int /\ s \in Int /\ 1 <= t /\ t <= Len(FigBook)
      BY <1>1
    <3>2. \A t \in S : t <= s - 1 \/ t = s \/ s + 1 <= t
      BY <3>1
    <3> QED BY <1>1, <3>1, <3>2
  <2>2. before \subseteq S /\ after \subseteq S
    OBVIOUS
  <2> HIDE DEF before, after
  <2> QED BY <2>1, <2>2
<1> QED BY <1>4, <1>5 DEF q1, q2

(* and keeps the cursor on its figure, unless that is listed no more.         *)
StaysOrGoes(w, x) ==
    \/ HasCurrent(w) /\ Current(w).id = x
    \/ \A k \in DOMAIN w.view : w.figs[w.view[k]].id # x
\* One chapter merged in: the figures shown grow by it, in the order of the
\* book.
LEMMA MergeShows ==
    ASSUME NEW S \in SUBSET Chapters, NEW v, Shows(v, S), NEW s \in Chapters
    PROVE  /\ Shows(Merge(v, s, Collected[s]), S \cup {s})
           /\ Merge(v, s, Collected[s]).whole = v.whole /\ Merge(v, s, Collected[s]).mode = v.mode
           /\ Merge(v, s, Collected[s]).filter = v.filter
           /\ HasCurrent(v) => StaysOrGoes(Merge(v, s, Collected[s]), Current(v).id)
<1> DEFINE joined == OfSections(v.figs, 1 .. s - 1) \o Collected[s] \o OfSections(v.figs, s + 1 .. Len(FigBook))
           all == Labelled(joined)
           with == [v EXCEPT !.figs = all]
           fresh == Refiltered(with)
           at == {k \in DOMAIN fresh.view : HasCurrent(v) /\ all[fresh.view[k]].id = Current(v).id}
           first == CHOOSE k \in at : \A j \in at : k <= j
<1>1. v \in Viewers /\ v.open /\ Lists(v.figs, S)
  BY DEF Shows
<1>2. Lists(joined, S \cup {s})
  BY <1>1, CollectedLists, MergedList
<1>3. Merge(v, s, Collected[s]) = IF at = {} THEN fresh ELSE [fresh EXCEPT !.sel = first]
  BY DEF Merge
<1> HIDE DEF joined
<1>4. Lists(all, S \cup {s}) /\ Numbered(all)
  BY <1>2, LabelledLists
<1> HIDE DEF all
<1>5. with \in Viewers /\ with.open /\ with.figs = all /\ with.whole = v.whole /\ with.mode = v.mode
      /\ with.filter = v.filter
  BY <1>1, <1>4 DEF Viewers, Lists
<1> HIDE DEF with
<1>6. Shows(fresh, S \cup {s})
  BY <1>4, <1>5, RefilteredShows
<1>7. fresh.whole = v.whole /\ fresh.mode = v.mode /\ fresh.filter = v.filter /\ fresh.figs = all
  <2>1. fresh = [with EXCEPT !.view = fresh.view, !.sel = fresh.sel]
    BY <1>5, RefilteredIs
  <2> HIDE DEF fresh
  <2> QED BY <1>5, <2>1 DEF Viewers
<1> HIDE DEF fresh
<1>8. CASE at = {}
  <2>1. HasCurrent(v) => \A k \in DOMAIN fresh.view : fresh.figs[fresh.view[k]].id # Current(v).id
    BY <1>7, <1>8
  <2> QED BY <1>3, <1>6, <1>7, <1>8, <2>1 DEF StaysOrGoes
<1>9. CASE at # {}
  <2>1. at \in SUBSET (Nat \ {0})
    <3>1. fresh.view \in Seq(Nat)
      BY <1>6 DEF Shows, Viewers
    <3>2. DOMAIN fresh.view \in SUBSET (Nat \ {0})
      BY <3>1
    <3> QED BY <3>2
  <2>2. \E k \in at : \A j \in at : k <= j
    BY <1>9, <2>1, LeastElement
  <2>3. first \in at
    <3> HIDE DEF at
    <3> QED BY <2>2
  <2> HIDE DEF first
  <2>9. first \in DOMAIN fresh.view /\ all[fresh.view[first]].id = Current(v).id
    BY <2>3
  <2> HIDE DEF at
  <2> DEFINE w == [fresh EXCEPT !.sel = first]
  <2>4. w \in Viewers /\ w.open = fresh.open /\ w.figs = fresh.figs /\ w.view = fresh.view /\ w.filter = fresh.filter
        /\ w.whole = fresh.whole /\ w.mode = fresh.mode
    BY <1>6, <2>1, <2>3 DEF Shows, Viewers
  <2>5. Merge(v, s, Collected[s]) = w
    BY <1>3, <1>9
  <2> HIDE DEF w
  <2>6. Passing(w) = Passing(fresh)
    BY <2>4 DEF Passing
  <2>7. Shows(w, S \cup {s})
    BY <1>6, <2>4, <2>6 DEF Shows
  <2>8. w.sel = first
    BY <1>6 DEF Shows, Viewers, w
  <2>10. HasCurrent(w) /\ Current(w).id = Current(v).id
    BY <1>7, <2>4, <2>8, <2>9 DEF HasCurrent, Current
  <2> QED BY <1>7, <2>4, <2>5, <2>7, <2>10 DEF StaysOrGoes
<1> QED BY <1>8, <1>9

(* As a list grows, its figures only move down.                               *)
LEMMA PlacesGrow ==
    ASSUME NEW S, NEW T, NEW q, NEW p, Lists(q, S), Lists(p, T), Ids(q) \subseteq Ids(p)
    PROVE  \A i \in DOMAIN q : \A j \in DOMAIN p : q[i].id = p[j].id => i <= j
<1> DEFINE Bad == {i \in DOMAIN q : \E j \in DOMAIN p : q[i].id = p[j].id /\ ~(i <= j)}
<1>1. /\ q \in Seq(Fig) /\ Len(q) \in Nat /\ DOMAIN q = 1 .. Len(q)
      /\ p \in Seq(Fig) /\ Len(p) \in Nat /\ DOMAIN p = 1 .. Len(p)
  BY DEF Lists
<1> SUFFICES ASSUME Bad # {} PROVE FALSE
  OBVIOUS
<1>2. Bad \in SUBSET Nat
  BY <1>1
<1>3. PICK i \in Bad : \A k \in Bad : i <= k
  BY <1>2, LeastElement
<1>4. PICK j \in DOMAIN p : q[i].id = p[j].id /\ ~(i <= j)
  BY <1>3
<1>5. i \in DOMAIN q
  BY <1>3
<1>6. i - 1 \in DOMAIN q /\ i - 1 < i /\ i \in Nat /\ j \in Nat
  BY <1>1, <1>4, <1>5
<1>7. PICK h \in DOMAIN p : p[h].id = q[i - 1].id
  BY <1>6 DEF Ids
<1>8. i - 1 <= h
  <2>1. i - 1 \notin Bad
    BY <1>3, <1>6
  <2> QED BY <1>6, <1>7, <2>1
<1>9. Earlier(p[h].id, p[j].id)
  BY <1>4, <1>5, <1>6, <1>7 DEF Lists, InPlace
<1>10. h \in Nat
  BY <1>1
<1>11. h < j
  <2>1. p[h].id \in Chapters \X Nat /\ p[j].id \in Chapters \X Nat
    BY <1>1 DEF Fig
  <2>2. Chapters \in SUBSET Nat
    BY ChaptersAre
  <2>5. p[h].id[1] \in Nat /\ p[h].id[2] \in Nat /\ p[j].id[1] \in Nat /\ p[j].id[2] \in Nat
    BY <2>1, <2>2
  <2>3. ~Earlier(p[j].id, p[h].id) /\ p[h].id # p[j].id
    <3> DEFINE a == p[h].id
               b == p[j].id
    <3>1. Earlier(a, b) /\ a[1] \in Nat /\ a[2] \in Nat /\ b[1] \in Nat /\ b[2] \in Nat
      BY <1>9, <2>5
    <3> HIDE DEF a, b
    <3>2. ~Earlier(b, a) /\ a # b
      BY <3>1 DEF Earlier
    <3> QED BY <3>2 DEF a, b
  <2>4. ~(j < h)
    BY <2>3 DEF Lists, InPlace
  <2> QED BY <1>6, <1>10, <2>3, <2>4
<1> QED BY <1>4, <1>6, <1>8, <1>10, <1>11

(* A figure the filter has hidden as the list grew is past the number it      *)
(* looks for, and stays past it.                                              *)
Gone(w, x) ==
    w.filter # 0 /\ \E j \in DOMAIN w.figs : w.figs[j].id = x /\ w.figs[j].unnamed /\ j > w.filter
Onward(v, w) == HasCurrent(v) => (HasCurrent(w) /\ Current(w).id = Current(v).id) \/ Gone(w, Current(v).id)

\* A figure filtered away is not in the list.
LEMMA GoneIsUnlisted ==
    ASSUME NEW S, NEW w, Shows(w, S), NEW x, Gone(w, x)
    PROVE  \A k \in DOMAIN w.view : w.figs[w.view[k]].id # x
<1> SUFFICES ASSUME NEW k \in DOMAIN w.view, w.figs[w.view[k]].id = x PROVE FALSE
  OBVIOUS
<1> DEFINE i == w.view[k]
<1>1. PICK j \in DOMAIN w.figs : w.figs[j].id = x /\ w.figs[j].unnamed /\ j > w.filter
  BY DEF Gone
<1>2. i \in DOMAIN w.figs /\ (w.filter = 0 \/ w.figs[i].says = w.filter)
  <2>1. i \in Range(w.view)
    BY DEF Range
  <2> QED BY <2>1 DEF Shows, Passing
<1> HIDE DEF i
<1>3. w.figs[i].id = w.figs[j].id /\ Lists(w.figs, S)
  BY <1>1 DEF Shows, i
<1>4. i <= j /\ j <= i
  BY <1>1, <1>2, <1>3, PlacesGrow
<1>5. i = j /\ j \in Nat /\ w.filter \in Nat
  <2>1. w.figs \in Seq(Fig) /\ w.filter \in Nat
    BY DEF Shows, Viewers
  <2>2. DOMAIN w.figs \in SUBSET Nat
    BY <2>1
  <2> QED BY <1>1, <1>2, <1>4, <2>1, <2>2
<1>6. w.figs[j].says = j
  BY <1>1 DEF Shows, Numbered
<1> QED BY <1>1, <1>2, <1>5, <1>6 DEF Gone

(* What is gone stays gone, and what the cursor was on is still there or gone.*)
LEMMA GoneStays ==
    ASSUME NEW S, NEW T, NEW v, NEW w, Shows(v, S), Shows(w, T), w.filter = v.filter,
           Ids(v.figs) \subseteq Ids(w.figs), NEW x, Gone(v, x)
    PROVE  Gone(w, x)
<1>1. PICK i \in DOMAIN v.figs : v.figs[i].id = x /\ v.figs[i].unnamed /\ i > v.filter
  BY DEF Gone
<1>2. PICK j \in DOMAIN w.figs : w.figs[j].id = x
  BY <1>1 DEF Ids
<1>3. i <= j
  BY <1>1, <1>2, PlacesGrow DEF Shows
<1>4. v.figs \in Seq(Fig) /\ w.figs \in Seq(Fig) /\ v.filter \in Nat
  BY DEF Shows, Viewers
<1>5. v.figs[i] \in Fig /\ w.figs[j] \in Fig /\ i \in Nat /\ j \in Nat
  BY <1>1, <1>2, <1>4
<1>6. w.figs[j].unnamed
  BY <1>1, <1>2, <1>5 DEF Fig
<1>7. j > w.filter
  BY <1>1, <1>3, <1>4, <1>5
<1> QED BY <1>2, <1>6, <1>7 DEF Gone

\* The selection held through a merge is on the same figure, if it is still
\* listed.
LEMMA HeldOrGone ==
    ASSUME NEW S, NEW T, NEW v, NEW w, Shows(v, S), Shows(w, T), w.filter = v.filter,
           Ids(v.figs) \subseteq Ids(w.figs), HasCurrent(v), StaysOrGoes(w, Current(v).id)
    PROVE  Onward(v, w)
<1> DEFINE x == Current(v).id
           i == v.view[v.sel]
<1> SUFFICES ASSUME \A k \in DOMAIN w.view : w.figs[w.view[k]].id # x PROVE Gone(w, x)
  BY DEF StaysOrGoes, Onward
<1>1. i \in DOMAIN v.figs /\ (v.filter = 0 \/ v.figs[i].says = v.filter) /\ v.figs[i].id = x
  <2>1. i \in Range(v.view)
    BY DEF Range, HasCurrent
  <2> QED BY <2>1 DEF Shows, Passing, Current
<1>2. PICK j \in DOMAIN w.figs : w.figs[j].id = x
  BY <1>1 DEF Ids
<1> HIDE DEF i, x
<1>3. j \notin Range(w.view)
  BY <1>2 DEF Range
<1>4. w.filter # 0 /\ w.figs[j].says # w.filter
  BY <1>3 DEF Shows, Passing
<1>5. v.figs \in Seq(Fig) /\ w.figs \in Seq(Fig) /\ v.filter \in Nat
  BY DEF Shows, Viewers
<1>6. v.figs[i] \in Fig /\ w.figs[j] \in Fig /\ i \in Nat /\ j \in Nat
  BY <1>1, <1>2, <1>5
<1>7. v.figs[i].unnamed /\ w.figs[j].unnamed
  BY <1>1, <1>2, <1>4, <1>6 DEF Fig
<1>8. v.figs[i].says = i /\ w.figs[j].says = j
  BY <1>1, <1>7 DEF Shows, Numbered
<1>9. i <= j
  BY <1>1, <1>2, PlacesGrow DEF Shows
<1>10. j > w.filter
  BY <1>1, <1>4, <1>5, <1>6, <1>8, <1>9
<1> QED BY <1>2, <1>4, <1>7, <1>10 DEF Gone

\* What holds of two merges in a row holds of both together.
LEMMA Onwards ==
    ASSUME NEW S, NEW T, NEW u, NEW v, NEW w, Shows(v, S), Shows(w, T), w.filter = v.filter,
           Ids(v.figs) \subseteq Ids(w.figs), Onward(u, v), Onward(v, w)
    PROVE  Onward(u, w)
<1> SUFFICES ASSUME HasCurrent(u)
             PROVE  (HasCurrent(w) /\ Current(w).id = Current(u).id) \/ Gone(w, Current(u).id)
  BY DEF Onward
<1>1. CASE Gone(v, Current(u).id)
  BY <1>1, GoneStays
<1>2. CASE HasCurrent(v) /\ Current(v).id = Current(u).id
  BY <1>2 DEF Onward
<1> QED BY <1>1, <1>2 DEF Onward

(* The merging of what was sent: its recursion has a solution, and each step  *)
(* of it is one of the above.                                                 *)
Mergings(f, v, sent, m) ==
    f = [n \in 0 .. m |-> IF n = 0 THEN v ELSE Merge(f[n - 1], sent[n], Collected[sent[n]])]
\* The successive merges are there, by induction on what was sent.
LEMMA MergingsAre ==
    ASSUME NEW v, NEW sent, NEW k \in Nat
    PROVE  \E f : Mergings(f, v, sent, k)
<1> DEFINE Solved(m) == \E f : Mergings(f, v, sent, m)
           Bad == {m \in Nat : ~Solved(m)}
<1> SUFFICES ASSUME Bad # {} PROVE FALSE
  OBVIOUS
<1>1. PICK m \in Bad : \A j \in Bad : m <= j
  <2> HIDE DEF Solved
  <2>1. Bad \in SUBSET Nat
    OBVIOUS
  <2> QED BY <2>1, LeastElement
<1>2. CASE m = 0
  <2> DEFINE f == [n \in 0 .. 0 |-> v]
  <2>1. f = [n \in 0 .. 0 |-> IF n = 0 THEN v ELSE Merge(f[n - 1], sent[n], Collected[sent[n]])]
    OBVIOUS
  <2> HIDE DEF f
  <2>2. Solved(0)
    BY <2>1 DEF Mergings
  <2> QED BY <1>1, <1>2, <2>2
<1>3. CASE m # 0
  <2>1. m \in Nat /\ m - 1 \in Nat /\ ~(m <= m - 1)
    BY <1>1, <1>3
  <2>2. Solved(m - 1)
    <3> HIDE DEF Solved
    <3> QED BY <1>1, <2>1
  <2>3. PICK g : g = [n \in 0 .. m - 1 |-> IF n = 0 THEN v ELSE Merge(g[n - 1], sent[n], Collected[sent[n]])]
    BY <2>2 DEF Mergings
  <2> DEFINE f == [n \in 0 .. m |-> IF n = m THEN Merge(g[m - 1], sent[m], Collected[sent[m]]) ELSE g[n]]
  <2>4. \A n \in 0 .. m : n = m \/ n \in 0 .. m - 1
    BY <2>1
  <2>5. \A n \in 0 .. m : f[n] = IF n = 0 THEN v ELSE Merge(f[n - 1], sent[n], Collected[sent[n]])
    <3> SUFFICES ASSUME NEW n \in 0 .. m
                 PROVE  f[n] = IF n = 0 THEN v ELSE Merge(f[n - 1], sent[n], Collected[sent[n]])
      OBVIOUS
    <3>1. CASE n = m
      <4>1. m - 1 \in 0 .. m /\ m - 1 # m
        BY <2>1
      <4>2. f[m - 1] = g[m - 1]
        BY <4>1
      <4> QED BY <1>3, <3>1, <4>2
    <3>2. CASE n # m
      <4>1. n \in 0 .. m - 1
        BY <2>4, <3>2
      <4>2. f[n] = g[n] /\ g[n] = IF n = 0 THEN v ELSE Merge(g[n - 1], sent[n], Collected[sent[n]])
        BY <2>3, <3>2, <4>1
      <4>3. n # 0 => n - 1 \in 0 .. m /\ n - 1 # m
        BY <2>1, <4>1
      <4>4. n # 0 => f[n - 1] = g[n - 1]
        BY <4>3
      <4> QED BY <4>2, <4>4
    <3> QED BY <3>1, <3>2
  <2>6. f = [n \in 0 .. m |-> IF n = 0 THEN v ELSE Merge(f[n - 1], sent[n], Collected[sent[n]])]
    <3> DEFINE h == [n \in 0 .. m |-> IF n = 0 THEN v ELSE Merge(f[n - 1], sent[n], Collected[sent[n]])]
    <3>1. f = [n \in 0 .. m |-> f[n]]
      OBVIOUS
    <3> HIDE DEF f
    <3> QED BY <2>5, <3>1
  <2> HIDE DEF f
  <2>7. Solved(m)
    BY <2>6 DEF Mergings
  <2> QED BY <1>1, <2>7
<1> QED BY <1>2, <1>3

(* However many sections are merged, the list is that of them all and the     *)
(* cursor is on its figure or that is gone.                                   *)
MergedWell(v, w, S) ==
    Shows(w, S) /\ w.whole = v.whole /\ w.mode = v.mode /\ w.filter = v.filter /\ Onward(v, w)
\* One more chapter merged in.
LEMMA MergedOnce ==
    ASSUME NEW S \in SUBSET Chapters, NEW v, NEW w, MergedWell(v, w, S), NEW s \in Chapters
    PROVE  MergedWell(v, Merge(w, s, Collected[s]), S \cup {s})
<1> DEFINE u == Merge(w, s, Collected[s])
<1>1. /\ Shows(w, S) /\ w.whole = v.whole /\ w.mode = v.mode /\ w.filter = v.filter /\ Onward(v, w)
  BY DEF MergedWell
<1>2. /\ Shows(u, S \cup {s}) /\ u.whole = w.whole /\ u.mode = w.mode /\ u.filter = w.filter
      /\ HasCurrent(w) => StaysOrGoes(u, Current(w).id)
  BY <1>1, MergeShows
<1> HIDE DEF u
<1>3. Ids(w.figs) \subseteq Ids(u.figs)
  <2>1. Ids(w.figs) = UNION {FiguresOf(t) : t \in S} /\ Ids(u.figs) = UNION {FiguresOf(t) : t \in S \cup {s}}
    BY <1>1, <1>2 DEF Shows, Lists
  <2> QED BY <2>1
<1>4. Onward(w, u)
  <2>1. HasCurrent(w) => Onward(w, u)
    BY <1>1, <1>2, <1>3, HeldOrGone
  <2>2. ~HasCurrent(w) => Onward(w, u)
    BY DEF Onward
  <2> QED BY <2>1, <2>2
<1>5. Onward(v, u)
  BY <1>1, <1>2, <1>3, <1>4, Onwards
<1> QED BY <1>1, <1>2, <1>5 DEF MergedWell, u

\* All that was sent merged in.
LEMMA MergedShows ==
    ASSUME NEW S \in SUBSET Chapters, NEW v, Shows(v, S), NEW sent \in Seq(Chapters)
    PROVE  MergedWell(v, Merged(v, sent), S \cup Range(sent))
<1> DEFINE n == Len(sent)
           after == CHOOSE f : Mergings(f, v, sent, n)
           Upto(m) == {sent[i] : i \in 1 .. m}
           Bad == {m \in 0 .. n : ~MergedWell(v, after[m], S \cup Upto(m))}
<1>1. n \in Nat /\ DOMAIN sent = 1 .. n /\ \A i \in 1 .. n : sent[i] \in Chapters
  OBVIOUS
<1>2. Merged(v, sent) = after[n]
  BY DEF Merged, Mergings
<1>3. Mergings(after, v, sent, n)
  BY <1>1, MergingsAre
<1> HIDE DEF after
<1>4. \A m \in 0 .. n : after[m] = IF m = 0 THEN v ELSE Merge(after[m - 1], sent[m], Collected[sent[m]])
  <2>1. after = [m \in 0 .. n |-> IF m = 0 THEN v ELSE Merge(after[m - 1], sent[m], Collected[sent[m]])]
    BY <1>3 DEF Mergings
  <2> HIDE DEF n
  <2> QED BY <2>1
<1>5. Bad = {}
  <2> SUFFICES ASSUME Bad # {} PROVE FALSE
    OBVIOUS
  <2>1. PICK m \in Bad : \A j \in Bad : m <= j
    <3>1. Bad \in SUBSET Nat
      BY <1>1
    <3> QED BY <3>1, LeastElement
  <2>2. m \in 0 .. n /\ ~MergedWell(v, after[m], S \cup Upto(m))
    BY <2>1
  <2>3. CASE m = 0
    <3>1. after[0] = v /\ 0 \in 0 .. n
      BY <1>1, <1>4
    <3>2. S \cup Upto(0) = S
      OBVIOUS
    <3>3. MergedWell(v, v, S)
      BY DEF MergedWell, Onward
    <3> QED BY <2>2, <2>3, <3>1, <3>2, <3>3
  <2>4. CASE m # 0
    <3>1. m \in 1 .. n /\ m - 1 \in 0 .. n /\ ~(m <= m - 1)
      BY <1>1, <2>2, <2>4
    <3>2. MergedWell(v, after[m - 1], S \cup Upto(m - 1))
      BY <2>1, <3>1
    <3>3. after[m] = Merge(after[m - 1], sent[m], Collected[sent[m]]) /\ sent[m] \in Chapters
      BY <1>1, <1>4, <2>2, <2>4, <3>1
    <3>4. S \cup Upto(m - 1) \in SUBSET Chapters
      BY <1>1, <3>1
    <3>5. (S \cup Upto(m - 1)) \cup {sent[m]} = S \cup Upto(m)
      <4>1. \A i \in 1 .. m : i = m \/ i \in 1 .. m - 1
        BY <1>1, <3>1
      <4>2. m \in 1 .. m /\ \A i \in 1 .. m - 1 : i \in 1 .. m
        BY <1>1, <3>1
      <4> QED BY <4>1, <4>2
    <3> HIDE DEF Upto
    <3> DEFINE before == S \cup Upto(m - 1)
    <3>6. before \in SUBSET Chapters /\ MergedWell(v, after[m - 1], before)
      BY <3>2, <3>4
    <3>7. before \cup {sent[m]} = S \cup Upto(m)
      BY <3>5
    <3> HIDE DEF before
    <3> DEFINE was == after[m - 1]
               one == sent[m]
    <3>8. MergedWell(v, was, before) /\ one \in Chapters
      BY <3>3, <3>6
    <3> HIDE DEF was, one
    <3>9. MergedWell(v, Merge(was, one, Collected[one]), before \cup {one})
      BY <3>6, <3>8, MergedOnce
    <3>10. MergedWell(v, after[m], before \cup {sent[m]})
      BY <3>3, <3>9 DEF was, one
    <3> QED BY <2>2, <3>7, <3>10
  <2> QED BY <2>3, <2>4
<1>6. Range(sent) = Upto(n)
  BY <1>1 DEF Range
<1>7. MergedWell(v, after[n], S \cup Upto(n))
  <2>1. n \in 0 .. n
    BY <1>1
  <2> QED BY <1>5, <2>1
<1> QED BY <1>2, <1>6, <1>7

(* Opening shows a section, with the cursor on the figure nearest to one.     *)
LEMMA OpenedShows ==
    ASSUME NEW s \in Chapters, NEW whole \in BOOLEAN
    PROVE  /\ Shows(Opened(Collected[s], whole), {s})
           /\ Opened(Collected[s], whole).whole = whole /\ Opened(Collected[s], whole).filter = 0
           /\ Opened(Collected[s], whole).view = [k \in DOMAIN Collected[s] |-> k]
<1> DEFINE figs == Collected[s]
           count == [k \in DOMAIN figs |-> k]
           all == Labelled(figs)
           v == Opened(figs, whole)
<1>1. Lists(figs, {s})
  BY CollectedLists
<1> HIDE DEF figs
<1>2. figs \in Seq(Fig) /\ Len(figs) \in Nat /\ DOMAIN figs = 1 .. Len(figs)
  BY <1>1 DEF Lists
<1>3. Lists(all, {s}) /\ Numbered(all) /\ DOMAIN all = DOMAIN figs
  BY <1>1, LabelledLists
<1> HIDE DEF all
<1>4. count \in Seq(DOMAIN figs) /\ count \in Seq(Nat) /\ DOMAIN count = DOMAIN figs /\ Range(count) = DOMAIN figs
  <2>1. count \in Seq(DOMAIN figs) /\ count \in Seq(Nat) /\ DOMAIN count = DOMAIN figs
        /\ \A k \in DOMAIN figs : count[k] = k
    BY <1>2
  <2> QED BY <2>1 DEF Range
<1>5. v = [NoViewer EXCEPT !.open = TRUE, !.figs = all, !.view = count, !.whole = whole]
  <2>1. AsList(count) = count
    <3> HIDE DEF count
    <3> QED BY <1>4 DEF AsList
  <2> QED BY <2>1 DEF Opened, all
<1> HIDE DEF count, v
<1>6. v = [open |-> TRUE, figs |-> all, view |-> count, sel |-> 1, whole |-> whole, filter |-> 0, mode |-> "list"]
  BY <1>5 DEF NoViewer
<1>7. v \in Viewers
  BY <1>3, <1>4, <1>6 DEF Viewers, Lists
<1>8. Passing(v) = DOMAIN figs
  BY <1>3, <1>6 DEF Passing
<1>9. Shows(v, {s}) /\ v.whole = whole /\ v.filter = 0 /\ v.view = count
  BY <1>3, <1>4, <1>6, <1>7, <1>8 DEF Shows
<1> QED BY <1>9 DEF v, figs, count

Apart(v, i, k) == LET d == v.figs[v.view[k]].id[2] - i IN IF d < 0 THEN -d ELSE d
\* A selection clamped to the list is the row nearest to what was asked.
LEMMA SelectedShows ==
    ASSUME NEW S, NEW v, Shows(v, S), v.view # <<>>, NEW i \in Nat
    PROVE  /\ Shows(Selected(v, i), S)
           /\ Selected(v, i).whole = v.whole /\ Selected(v, i).figs = v.figs /\ Selected(v, i).view = v.view
           /\ Selected(v, i).sel \in DOMAIN v.view
           /\ \A k \in DOMAIN v.view : Apart(v, i, Selected(v, i).sel) <= Apart(v, i, k)
<1> DEFINE far(k) == Apart(v, i, k)
           Nearest(k) == \A other \in DOMAIN v.view : far(k) < far(other) \/ (far(k) = far(other) /\ k <= other)
           sel == CHOOSE k \in DOMAIN v.view : Nearest(k)
           w == [v EXCEPT !.sel = sel]
<1>1. Selected(v, i) = w
  BY DEF Selected, Apart
<1>2. /\ v \in Viewers /\ v.view \in Seq(DOMAIN v.figs) /\ v.figs \in Seq(Fig)
      /\ DOMAIN v.view \in SUBSET (Nat \ {0}) /\ DOMAIN v.view # {}
  <2>1. v \in Viewers /\ v.view \in Seq(DOMAIN v.figs) /\ v.figs \in Seq(Fig)
    BY DEF Shows, Viewers
  <2>2. Len(v.view) \in Nat /\ DOMAIN v.view = 1 .. Len(v.view) /\ Len(v.view) # 0
    BY <2>1
  <2>3. 1 \in DOMAIN v.view /\ \A k \in DOMAIN v.view : k \in Nat /\ k # 0
    BY <2>2
  <2>4. DOMAIN v.view \in SUBSET (Nat \ {0}) /\ DOMAIN v.view # {}
    BY <2>3
  <2> QED BY <2>1, <2>4
<1>3. \A k \in DOMAIN v.view : far(k) \in Nat
  <2> SUFFICES ASSUME NEW k \in DOMAIN v.view PROVE far(k) \in Nat
    OBVIOUS
  <2>1. v.view[k] \in DOMAIN v.figs
    BY <1>2
  <2>2. v.figs[v.view[k]] \in Fig
    BY <1>2, <2>1
  <2>3. v.figs[v.view[k]].id[2] \in Nat
    BY <2>2 DEF Fig
  <2> QED BY <2>3 DEF Apart
<1> HIDE DEF far
<1>4. \E k \in DOMAIN v.view : Nearest(k)
  <2> DEFINE reach == {far(k) : k \in DOMAIN v.view}
  <2>1. reach \in SUBSET Nat /\ reach # {}
    BY <1>2, <1>3
  <2>2. PICK d \in reach : \A e \in reach : d <= e
    BY <2>1, LeastElement
  <2> DEFINE ks == {k \in DOMAIN v.view : far(k) = d}
  <2>3. ks \in SUBSET Nat /\ ks # {}
    BY <1>2, <2>2
  <2>4. PICK k \in ks : \A j \in ks : k <= j
    BY <2>3, LeastElement
  <2>5. k \in DOMAIN v.view /\ far(k) = d
    BY <2>4
  <2>6. ASSUME NEW other \in DOMAIN v.view PROVE far(k) < far(other) \/ (far(k) = far(other) /\ k <= other)
    <3>1. d <= far(other) /\ far(other) \in Nat /\ d \in Nat
      BY <1>3, <2>2, <2>5
    <3>2. far(other) = d => k <= other
      BY <2>4
    <3> QED BY <2>5, <3>1, <3>2
  <2> QED BY <2>5, <2>6
<1>5. sel \in DOMAIN v.view /\ Nearest(sel)
  <2> HIDE DEF Nearest
  <2> QED BY <1>4
<1> HIDE DEF sel
<1>6. \A k \in DOMAIN v.view : far(sel) <= far(k)
  BY <1>3, <1>5
<1>7. /\ w \in Viewers /\ w.open = v.open /\ w.figs = v.figs /\ w.view = v.view /\ w.filter = v.filter
      /\ w.whole = v.whole /\ w.sel = sel
  BY <1>2, <1>5 DEF Viewers
<1> HIDE DEF w
<1>8. Passing(w) = Passing(v)
  BY <1>7 DEF Passing
<1>9. Shows(w, S)
  BY <1>7, <1>8 DEF Shows
<1> QED BY <1>1, <1>5, <1>6, <1>7, <1>9 DEF far

(* A scan visits every other section, each once.                              *)
LEMMA ScanOrderIs ==
    ASSUME NEW here \in Chapters
    PROVE  /\ ScanOrder[here] \in Seq(Chapters) /\ IsInjective(ScanOrder[here])
           /\ Range(ScanOrder[here]) = Chapters \ {here}
<1> DEFINE n == Len(FigBook)
           out == Outward(here)
           order == Retained(out, Chapters)
<1>1. n \in Nat /\ Chapters = 1 .. n /\ here \in 1 .. n
  BY ChaptersAre
<1> HIDE DEF n
<1>2. /\ out \in Seq(Int) /\ DOMAIN out = 1 .. 2 * n
      /\ \A k \in 1 .. 2 * n : out[k] = IF k % 2 = 1 THEN here - ((k + 1) \div 2) ELSE here + (k \div 2)
  <2>1. out = [k \in 1 .. 2 * n |-> IF k % 2 = 1 THEN here - ((k + 1) \div 2) ELSE here + (k \div 2)]
    BY DEF Outward, n
  <2>2. \A k \in 1 .. 2 * n : (IF k % 2 = 1 THEN here - ((k + 1) \div 2) ELSE here + (k \div 2)) \in Int
    BY <1>1
  <2>3. 2 * n \in Nat
    BY <1>1
  <2> QED BY <2>1, <2>2, <2>3
<1> HIDE DEF out
<1>3. IsInjective(out)
  <2> SUFFICES ASSUME NEW a \in 1 .. 2 * n, NEW b \in 1 .. 2 * n, out[a] = out[b] PROVE a = b
    BY <1>2 DEF IsInjective
  <2>1. ASSUME NEW k \in 1 .. 2 * n
        PROVE  \/ out[k] < here /\ k = 2 * (here - out[k]) - 1
               \/ out[k] > here /\ k = 2 * (out[k] - here)
    <3>1. k \in Nat /\ k >= 1 /\ here \in Int
      BY <1>1
    <3>2. CASE k % 2 = 1
      <4>1. out[k] = here - ((k + 1) \div 2)
        BY <1>2, <3>2
      <4>2. 2 * ((k + 1) \div 2) = k + 1
        BY <3>1, <3>2
      <4> QED BY <3>1, <4>1, <4>2
    <3>3. CASE k % 2 # 1
      <4>1. out[k] = here + (k \div 2)
        BY <1>2, <3>3
      <4>2. 2 * (k \div 2) = k
        BY <3>1, <3>3
      <4> QED BY <3>1, <4>1, <4>2
    <3> QED BY <3>2, <3>3
  <2>2. a \in Nat /\ b \in Nat /\ here \in Int /\ out[a] \in Int
    BY <1>1, <1>2
  <2> QED BY <2>1, <2>2
<1>4. ASSUME NEW s \in Chapters \ {here} PROVE s \in Range(out)
  <2>1. CASE s < here
    <3> DEFINE k == 2 * (here - s) - 1
    <3>1. k \in 1 .. 2 * n /\ k % 2 = 1 /\ here - ((k + 1) \div 2) = s
      BY <1>1, <2>1
    <3> HIDE DEF k
    <3>2. out[k] = s
      BY <1>2, <3>1
    <3> QED BY <1>2, <3>1, <3>2 DEF Range
  <2>2. CASE s > here
    <3> DEFINE k == 2 * (s - here)
    <3>1. k \in 1 .. 2 * n /\ k % 2 = 0 /\ here + (k \div 2) = s
      BY <1>1, <2>2
    <3> HIDE DEF k
    <3>2. out[k] = s
      BY <1>2, <3>1
    <3> QED BY <1>2, <3>1, <3>2 DEF Range
  <2> QED BY <1>1, <2>1, <2>2
<1>5. here \notin Range(out)
  <2> SUFFICES ASSUME NEW k \in 1 .. 2 * n, out[k] = here PROVE FALSE
    BY <1>2 DEF Range
  <2>1. k \in Nat /\ k >= 1 /\ here \in Int
    BY <1>1
  <2>2. here = IF k % 2 = 1 THEN here - ((k + 1) \div 2) ELSE here + (k \div 2)
    BY <1>2
  <2> QED BY <2>1, <2>2
<1>6. order \in Seq(Int) /\ Range(order) = Range(out) \cap Chapters /\ IsInjective(order)
  BY <1>2, <1>3, RetainedIs
<1> HIDE DEF order
<1>7. Range(order) = Chapters \ {here}
  BY <1>4, <1>5, <1>6
<1>8. order \in Seq(Chapters)
  <2>1. \A k \in DOMAIN order : order[k] \in Chapters
    BY <1>7 DEF Range
  <2> QED BY <1>6, <2>1
<1>9. ScanOrder[here] = order
  <2>1. ScanOrder[here] = AsList(order)
    BY DEF ScanOrder, order, out
  <2> QED BY <1>8, <2>1 DEF AsList
<1> QED BY <1>6, <1>7, <1>8, <1>9

(* There is always a number no image has.                                     *)
LEMMA FreshIs ==
    ASSUME IsFiniteSet(InUse)
    PROVE  Fresh \in Nat \ {0}
<1> DEFINE n == Cardinality(InUse)
           some == 1 .. n + 1
<1>1. n \in Nat
  BY FS_CardinalityType
<1>2. IsFiniteSet(some) /\ Cardinality(some) = n + 1
  BY <1>1, FS_Interval
<1>3. ~(some \subseteq InUse)
  <2> SUFFICES ASSUME some \subseteq InUse PROVE FALSE
    OBVIOUS
  <2> HIDE DEF some
  <2>1. Cardinality(some) <= n
    BY FS_Subset
  <2> QED BY <1>1, <1>2, <2>1
<1>4. PICK image \in some : image \notin InUse
  BY <1>3
<1>5. Fresh \in some
  BY <1>4 DEF Fresh
<1> QED BY <1>1, <1>5

(* The invariant.  What the terminal keeps is accounted for.                  *)
StoredInv ==
    /\ shot.image \in Nat
    /\ tossed \in [viewer : SUBSET Nat, app : SUBSET Nat]
    /\ IsFiniteSet(tossed.viewer) /\ IsFiniteSet(tossed.app)
    /\ resident \in SUBSET (Nat \ {0}) /\ IsFiniteSet(resident)
    /\ resident \subseteq {shot.image} \cup tossed.viewer \cup tossed.app
(* A scan is of a viewer on the book, and what it has to bring are as many    *)
(* sections as its counts say, each once.                                     *)
ScanInv ==
    /\ scan \in [on : BOOLEAN, left : Seq(Chapters), sent : Seq(Chapters), done : Nat, total : Nat]
    /\ scan.on => /\ viewer.open /\ viewer.whole
                  /\ IsInjective(scan.sent \o scan.left)
                  /\ scan.total - scan.done = Len(scan.sent) + Len(scan.left)
PageTyped ==
    /\ page \in [section : Chapters, seen : Seq(Nat), badges : Seq(Nat), landed : {<<>>} \cup (Chapters \X Nat)]
    /\ rows \in [drawn : Nat, clicked : Nat]
(* The viewer shows the sections taken so far.                                *)
SectionsTaken ==
    IF viewer.whole THEN Chapters \ (IF scan.on THEN ToCome ELSE {}) ELSE {page.section}
ViewerInv == viewer \in Viewers /\ (viewer.open => Shows(viewer, SectionsTaken))
EveryBlock == {b \in Chapters \X Nat : b[2] \in 1 .. FigCode[b[1]]}
BrowserInv ==
    /\ browser \in [open : BOOLEAN, list : Seq(EveryBlock), sel : Nat, whole : BOOLEAN]
    /\ browser.open => ~viewer.open /\ browser.sel \in DOMAIN browser.list /\ FigCode[page.section] # 0
FigInv == StoredInv /\ ScanInv /\ PageTyped /\ ViewerInv /\ BrowserInv

\* The viewer's picture put aside for deletion.
LEMMA RetireStores ==
    ASSUME StoredInv, RetireViewer, UNCHANGED resident
    PROVE  StoredInv'
<1>1. tossed' = [viewer |-> {}, app |-> tossed.app \cup Retired(tossed.viewer)] /\ shot'.image = 0
  BY DEF RetireViewer, NoShot
<1>2. Retired(tossed.viewer) \in SUBSET Nat /\ IsFiniteSet(Retired(tossed.viewer))
      /\ tossed.viewer \subseteq Retired(tossed.viewer) /\ (shot.image # 0 => shot.image \in Retired(tossed.viewer))
  <2>1. IsFiniteSet({shot.image})
    BY FS_Singleton
  <2>2. IsFiniteSet(tossed.viewer \cup {shot.image})
    BY <2>1, FS_Union DEF StoredInv
  <2> QED BY <2>2 DEF StoredInv, Retired
<1>3. IsFiniteSet(tossed.app \cup Retired(tossed.viewer)) /\ IsFiniteSet({})
  BY <1>2, FS_Union, FS_EmptySet DEF StoredInv
<1>4. tossed'.viewer = {} /\ tossed'.app = tossed.app \cup Retired(tossed.viewer)
  BY <1>1
<1>5. resident' \subseteq {shot'.image} \cup tossed'.viewer \cup tossed'.app
  BY <1>1, <1>2, <1>4 DEF StoredInv
<1>6. tossed' \in [viewer : SUBSET Nat, app : SUBSET Nat]
  BY <1>1, <1>2 DEF StoredInv
<1> QED BY <1>1, <1>3, <1>4, <1>5, <1>6 DEF StoredInv

\* The viewer drawn.
LEMMA DrawStores == ASSUME StoredInv, DrawViewer PROVE StoredInv'
<1>1. CASE UNCHANGED <<tossed, shot, resident>>
  BY <1>1 DEF StoredInv
<1>2. CASE ~ UNCHANGED <<tossed, shot, resident>>
  <2> DEFINE image == IF Current(viewer).kind = "torn" THEN 0 ELSE Fresh
  <2>1. /\ tossed' = [tossed EXCEPT !.viewer = Retired(@)]
        /\ shot' = [for |-> <<Current(viewer).id, look>>, image |-> image]
        /\ resident' = resident \cup ({image} \ {0})
    BY <1>2 DEF DrawViewer
  <2>2. image \in Nat
    <3>1. IsFiniteSet(InUse)
      BY FS_Union DEF InUse, StoredInv
    <3> QED BY <3>1, FreshIs
  <2> HIDE DEF image
  <2>3. IsFiniteSet({image} \ {0}) /\ IsFiniteSet({shot.image})
    BY FS_Singleton, FS_Difference
  <2>4. IsFiniteSet(resident')
    BY <2>1, <2>3, FS_Union DEF StoredInv
  <2>5. Retired(tossed.viewer) \in SUBSET Nat /\ IsFiniteSet(Retired(tossed.viewer))
        /\ tossed.viewer \subseteq Retired(tossed.viewer) /\ (shot.image # 0 => shot.image \in Retired(tossed.viewer))
    <3>1. IsFiniteSet(tossed.viewer \cup {shot.image})
      BY <2>3, FS_Union DEF StoredInv
    <3> QED BY <3>1 DEF StoredInv, Retired
  <2>6. tossed' \in [viewer : SUBSET Nat, app : SUBSET Nat] /\ tossed'.app = tossed.app
        /\ tossed'.viewer = Retired(tossed.viewer)
    BY <2>1, <2>5 DEF StoredInv
  <2>7. shot'.image = image
    BY <2>1
  <2>8. resident' \in SUBSET (Nat \ {0})
    BY <2>1, <2>2 DEF StoredInv
  <2>9. resident' \subseteq {shot'.image} \cup tossed'.viewer \cup tossed'.app
    BY <2>1, <2>5, <2>6, <2>7 DEF StoredInv
  <2> QED BY <2>2, <2>4, <2>5, <2>6, <2>7, <2>8, <2>9 DEF StoredInv
<1> QED BY <1>1, <1>2

\* The deletions carried out.
LEMMA TakeStores == ASSUME StoredInv, TakeDeletes PROVE StoredInv'
<1>1. /\ resident' = resident \ (tossed.app \cup IF viewer.open THEN tossed.viewer ELSE {})
      /\ tossed' = [viewer |-> IF viewer.open THEN {} ELSE tossed.viewer, app |-> {}]
      /\ shot' = shot
  BY DEF TakeDeletes
<1>2. IsFiniteSet(resident') /\ IsFiniteSet({})
  BY <1>1, FS_Difference, FS_EmptySet DEF StoredInv
<1>3. tossed'.app = {} /\ tossed'.viewer = IF viewer.open THEN {} ELSE tossed.viewer
  BY <1>1
<1>4. tossed' \in [viewer : SUBSET Nat, app : SUBSET Nat]
  BY <1>1 DEF StoredInv
<1>5. resident' \subseteq {shot'.image} \cup tossed'.viewer \cup tossed'.app
  BY <1>1, <1>3 DEF StoredInv
<1> QED BY <1>1, <1>2, <1>3, <1>4, <1>5 DEF StoredInv

(* Whatever the rest of a step does, these say what is left of the invariant. *)
StoresKept == UNCHANGED <<shot, tossed, resident>>
\* A step that touches no picture.
LEMMA StoresUnchanged == ASSUME StoredInv, StoresKept PROVE StoredInv'
BY DEF StoredInv, StoresKept

\* The viewer closed.
LEMMA NoViewerTyped == NoViewer \in Viewers /\ ~NoViewer.open
BY DEF NoViewer, Viewers
\* The scan not begun.
LEMMA NoScanTyped ==
    NoScan \in [on : BOOLEAN, left : Seq(Chapters), sent : Seq(Chapters), done : Nat, total : Nat] /\ ~NoScan.on
BY DEF NoScan

\* The viewer closed, on whatever it was.
LEMMA CloseKeeps ==
    ASSUME FigInv, CloseViewer, UNCHANGED <<resident, browser>>, PageTyped', page'.section = page.section \/ ~browser.open
    PROVE  FigInv'
<1>1. StoredInv'
  BY RetireStores DEF FigInv, CloseViewer
<1>2. viewer' = NoViewer /\ scan' = NoScan
  BY DEF CloseViewer
<1>3. ScanInv' /\ ViewerInv'
  BY <1>2, NoViewerTyped, NoScanTyped DEF ScanInv, ViewerInv
<1>4. BrowserInv'
  BY <1>2, NoViewerTyped DEF FigInv, BrowserInv
<1> QED BY <1>1, <1>3, <1>4 DEF FigInv

\* The head of one sequence moved to the end of another leaves their join as it
\* was.
LEMMA PassedOn ==
    ASSUME NEW T, NEW p \in Seq(T), NEW q \in Seq(T), q # <<>>
    PROVE  Append(p, Head(q)) \o Tail(q) = p \o q
<1> DEFINE a == Append(p, Head(q))
           b == Tail(q)
           m == Len(p)
           n == Len(q)
<1>1. m \in Nat /\ n \in Nat \ {0} /\ DOMAIN p = 1 .. m /\ DOMAIN q = 1 .. n
  OBVIOUS
<1>2. a \in Seq(T) /\ Len(a) = m + 1 /\ \A i \in 1 .. m + 1 : a[i] = IF i = m + 1 THEN q[1] ELSE p[i]
  <2>1. Head(q) = q[1] /\ q[1] \in T
    BY <1>1
  <2> QED BY <1>1, <2>1
<1>3. b \in Seq(T) /\ Len(b) = n - 1 /\ \A i \in 1 .. n - 1 : b[i] = q[i + 1]
  BY <1>1
<1> HIDE DEF a, b
<1>4. Len(a \o b) = m + n /\ Len(p \o q) = m + n /\ a \o b \in Seq(T) /\ p \o q \in Seq(T)
  <2>0. a \in Seq(T) /\ b \in Seq(T)
    BY <1>2, <1>3
  <2>1. Len(a \o b) = Len(a) + Len(b) /\ a \o b \in Seq(T)
    BY <2>0
  <2>2. Len(p \o q) = m + n /\ p \o q \in Seq(T)
    OBVIOUS
  <2>3. (m + 1) + (n - 1) = m + n
    BY <1>1
  <2> QED BY <1>2, <1>3, <2>1, <2>2, <2>3
<1>5. \A i \in 1 .. m + n : (a \o b)[i] = (p \o q)[i]
  <2> SUFFICES ASSUME NEW i \in 1 .. m + n PROVE (a \o b)[i] = (p \o q)[i]
    OBVIOUS
  <2>1. (a \o b)[i] = IF i <= m + 1 THEN a[i] ELSE b[i - (m + 1)]
    BY <1>1, <1>2, <1>3
  <2>2. (p \o q)[i] = IF i <= m THEN p[i] ELSE q[i - m]
    BY <1>1
  <2>3. CASE i <= m
    BY <1>1, <1>2, <2>1, <2>2, <2>3
  <2>4. CASE i = m + 1
    BY <1>1, <1>2, <2>1, <2>2, <2>4
  <2>5. CASE i > m + 1
    <3>1. i - (m + 1) \in 1 .. n - 1 /\ (i - (m + 1)) + 1 = i - m
      BY <1>1, <2>5
    <3> QED BY <1>1, <1>3, <2>1, <2>2, <2>5, <3>1
  <2>6. i \in Int /\ m \in Int
    BY <1>1
  <2>7. i <= m \/ i = m + 1 \/ i > m + 1
    <3> HIDE DEF m
    <3> QED BY <2>6
  <2> QED BY <2>3, <2>4, <2>5, <2>7
<1> DEFINE r == a \o b
           s == p \o q
<1> HIDE DEF r, s, m, n
<1>6. r \in Seq(T) /\ s \in Seq(T) /\ Len(r) = Len(s) /\ \A i \in 1 .. Len(r) : r[i] = s[i]
  BY <1>4, <1>5 DEF r, s
<1>7. r = s
  BY <1>6
<1> QED BY <1>7 DEF r, s, a, b

\* A chapter read by the scan's thread.
LEMMA WorkerKeeps == ASSUME FigInv, ScanWorker PROVE FigInv'
<1> DEFINE s == Head(scan.left)
           left == Tail(scan.left)
           sent == Append(scan.sent, s)
<1>1. /\ scan.on /\ scan.left # <<>> /\ scan' = [scan EXCEPT !.left = left, !.sent = sent]
      /\ UNCHANGED <<viewer, browser, shot, resident, tossed, look, page, rows, presses>>
  BY DEF ScanWorker
<1>2. scan.left \in Seq(Chapters) /\ scan.sent \in Seq(Chapters)
  BY DEF FigInv, ScanInv
<1>3. s \in Chapters /\ left \in Seq(Chapters) /\ sent \in Seq(Chapters)
      /\ Len(left) = Len(scan.left) - 1 /\ Len(sent) = Len(scan.sent) + 1
  BY <1>1, <1>2
<1>4. sent \o left = scan.sent \o scan.left
  BY <1>1, <1>2, PassedOn
<1>5. Range(sent \o left) = Range(sent) \cup Range(left)
      /\ Range(scan.sent \o scan.left) = Range(scan.sent) \cup Range(scan.left)
  BY <1>2, <1>3, Joined
<1> HIDE DEF s, left, sent
<1>6. /\ scan' \in [on : BOOLEAN, left : Seq(Chapters), sent : Seq(Chapters), done : Nat, total : Nat]
      /\ scan'.on = scan.on /\ scan'.left = left /\ scan'.sent = sent /\ scan'.done = scan.done
      /\ scan'.total = scan.total
  BY <1>1, <1>3 DEF FigInv, ScanInv
<1>7. ToCome' = ToCome
  BY <1>4, <1>5, <1>6 DEF ToCome
<1>8. SectionsTaken' = SectionsTaken
  BY <1>1, <1>6, <1>7 DEF SectionsTaken
<1>9. ScanInv'
  <2>1. Len(scan.left) \in Nat /\ Len(scan.sent) \in Nat
    BY <1>2
  <2>2. viewer'.open /\ viewer'.whole /\ scan.total - scan.done = Len(scan.sent) + Len(scan.left)
        /\ IsInjective(scan.sent \o scan.left)
    BY <1>1 DEF FigInv, ScanInv
  <2>3. IsInjective(scan'.sent \o scan'.left)
    BY <1>4, <1>6, <2>2
  <2>5. scan.total \in Nat /\ scan.done \in Nat
    BY DEF FigInv, ScanInv
  <2>6. Len(scan'.sent) = Len(scan.sent) + 1 /\ Len(scan'.left) = Len(scan.left) - 1
        /\ scan'.total = scan.total /\ scan'.done = scan.done
    BY <1>3, <1>6
  <2>4. scan'.total - scan'.done = Len(scan'.sent) + Len(scan'.left)
    <3>1. scan'.total - scan'.done = scan.total - scan.done
      BY <2>6
    <3>2. Len(scan'.sent) + Len(scan'.left) = (Len(scan.sent) + 1) + (Len(scan.left) - 1)
      BY <2>6
    <3>3. (Len(scan.sent) + 1) + (Len(scan.left) - 1) = Len(scan.sent) + Len(scan.left)
      <4> DEFINE a == Len(scan.sent)
                 b == Len(scan.left)
      <4>1. a \in Int /\ b \in Int
        BY <2>1
      <4> HIDE DEF a, b
      <4>2. (a + 1) + (b - 1) = a + b
        BY <4>1
      <4> QED BY <4>2 DEF a, b
    <3> QED BY <2>2, <3>1, <3>2, <3>3
  <2> QED BY <1>6, <2>2, <2>3, <2>4 DEF ScanInv
<1>10. ViewerInv' /\ BrowserInv' /\ PageTyped' /\ StoredInv'
  BY <1>1, <1>8 DEF FigInv, ViewerInv, BrowserInv, PageTyped, StoredInv
<1> QED BY <1>9, <1>10 DEF FigInv

\* The parts of a sequence without repeats share no element.
LEMMA InjectiveParts ==
    ASSUME NEW T, NEW p \in Seq(T), NEW q \in Seq(T), IsInjective(p \o q)
    PROVE  IsInjective(q) /\ Range(p) \cap Range(q) = {} /\ <<>> \o q = q
<1> DEFINE m == Len(p)
           n == Len(q)
           r == p \o q
<1>1. m \in Nat /\ n \in Nat /\ DOMAIN p = 1 .. m /\ DOMAIN q = 1 .. n
  OBVIOUS
<1>2. DOMAIN r = 1 .. m + n /\ \A i \in 1 .. m + n : r[i] = IF i <= m THEN p[i] ELSE q[i - m]
  BY <1>1
<1>3. \A i \in 1 .. n : i + m \in DOMAIN r /\ r[i + m] = q[i]
  <2> HIDE DEF m, n, r
  <2> SUFFICES ASSUME NEW i \in 1 .. n PROVE i + m \in DOMAIN r /\ r[i + m] = q[i]
    OBVIOUS
  <2>1. i + m \in 1 .. m + n /\ ~(i + m <= m) /\ (i + m) - m = i
    BY <1>1
  <2> QED BY <1>2, <2>1
<1>4. \A i \in 1 .. m : i \in DOMAIN r /\ r[i] = p[i]
  <2> HIDE DEF m, n, r
  <2> SUFFICES ASSUME NEW i \in 1 .. m PROVE i \in DOMAIN r /\ r[i] = p[i]
    OBVIOUS
  <2>1. i \in 1 .. m + n /\ i <= m
    BY <1>1
  <2> QED BY <1>2, <2>1
<1>5. \A a, b \in DOMAIN r : r[a] = r[b] => a = b
  BY DEF IsInjective
<1> HIDE DEF m, n, r
<1>6. IsInjective(q)
  <2> SUFFICES ASSUME NEW a \in 1 .. n, NEW b \in 1 .. n, q[a] = q[b] PROVE a = b
    BY <1>1 DEF IsInjective
  <2>1. a + m = b + m
    BY <1>3, <1>5
  <2> QED BY <1>1, <2>1
<1>7. Range(p) \cap Range(q) = {}
  <2> SUFFICES ASSUME NEW a \in 1 .. m, NEW b \in 1 .. n, p[a] = q[b] PROVE FALSE
    BY <1>1 DEF Range
  <2>1. a = b + m
    BY <1>3, <1>4, <1>5
  <2> QED BY <1>1, <2>1
<1>8. <<>> \o q = q
  OBVIOUS
<1> QED BY <1>6, <1>7, <1>8

(* What a poll does to the viewer and to what is still to come.               *)
LEMMA Polled ==
    ASSUME FigInv, PollFigureScan
    PROVE  /\ viewer.open /\ Shows(viewer, SectionsTaken)
           /\ viewer' = Merged(viewer, scan.sent)
           /\ MergedWell(viewer, viewer', SectionsTaken \cup Range(scan.sent))
<1>1. scan.on /\ viewer.open /\ scan.sent \in Seq(Chapters) /\ viewer.whole
  BY DEF FigInv, ScanInv, PollFigureScan
<1>2. Shows(viewer, SectionsTaken)
  BY <1>1 DEF FigInv, ViewerInv
<1>3. SectionsTaken \in SUBSET Chapters
  BY <1>1 DEF SectionsTaken
<1>4. viewer' = Merged(viewer, scan.sent)
  BY <1>1 DEF PollFigureScan
<1>5. MergedWell(viewer, Merged(viewer, scan.sent), SectionsTaken \cup Range(scan.sent))
  BY <1>1, <1>2, <1>3, MergedShows
<1> QED BY <1>1, <1>2, <1>4, <1>5

\* What the thread sent taken in by the main loop.
LEMMA PollKeeps == ASSUME FigInv, PollFigureScan PROVE FigInv'
<1> DEFINE ls == Len(scan.sent)
           ll == Len(scan.left)
           done == IF scan.done + ls < scan.total THEN scan.done + ls ELSE scan.total
<1>1. /\ scan \in [on : BOOLEAN, left : Seq(Chapters), sent : Seq(Chapters), done : Nat, total : Nat]
      /\ scan.on /\ viewer.open /\ viewer.whole
      /\ IsInjective(scan.sent \o scan.left) /\ scan.total - scan.done = ls + ll
  BY DEF FigInv, ScanInv, PollFigureScan
<1>2. /\ MergedWell(viewer, viewer', SectionsTaken \cup Range(scan.sent))
      /\ UNCHANGED <<browser, shot, resident, tossed, look, page, rows, presses>>
      /\ scan' = IF done < scan.total THEN [scan EXCEPT !.sent = <<>>, !.done = done] ELSE NoScan
  BY <1>1, Polled DEF PollFigureScan
<1>3. /\ Shows(viewer', SectionsTaken \cup Range(scan.sent)) /\ viewer'.whole /\ viewer'.open
      /\ viewer' \in Viewers
  BY <1>1, <1>2 DEF MergedWell, Shows
<1>4. scan.left \in Seq(Chapters) /\ scan.sent \in Seq(Chapters) /\ ls \in Nat /\ ll \in Nat
      /\ scan.done \in Nat /\ scan.total \in Nat
  BY <1>1
<1>5. /\ IsInjective(scan.left) /\ Range(scan.sent) \cap Range(scan.left) = {}
      /\ <<>> \o scan.left = scan.left
  BY <1>1, <1>4, InjectiveParts
<1>6. Range(scan.left) \subseteq Chapters /\ Range(scan.sent) \subseteq Chapters
  BY <1>4 DEF Range
<1>7. SectionsTaken \cup Range(scan.sent) = Chapters \ Range(scan.left)
  BY <1>1, <1>5, <1>6 DEF SectionsTaken, ToCome
<1> HIDE DEF ls, ll
<1>8. CASE done < scan.total
  <2>1. done = scan.done + ls /\ done \in Nat /\ scan.total - done = ll
    BY <1>1, <1>4, <1>8
  <2> HIDE DEF done
  <2>2. /\ scan' \in [on : BOOLEAN, left : Seq(Chapters), sent : Seq(Chapters), done : Nat, total : Nat]
        /\ scan'.on /\ scan'.left = scan.left /\ scan'.sent = <<>> /\ scan'.done = done
        /\ scan'.total = scan.total
    <3>1. scan' = [scan EXCEPT !.sent = <<>>, !.done = done]
      BY <1>2, <1>8
    <3>2. done \in Nat /\ <<>> \in Seq(Chapters)
      BY <2>1
    <3>3. scan \in [on : BOOLEAN, left : Seq(Chapters), sent : Seq(Chapters), done : Nat, total : Nat] /\ scan.on
      BY <1>1
    <3> DEFINE none == <<>>
               chapters == Seq(Chapters)
    <3> HIDE DEF none, chapters
    <3>4. none \in chapters /\ scan' = [scan EXCEPT !.sent = none, !.done = done]
          /\ scan \in [on : BOOLEAN, left : chapters, sent : chapters, done : Nat, total : Nat]
      BY <3>1, <3>2, <3>3 DEF none, chapters
    <3>5. /\ scan' \in [on : BOOLEAN, left : chapters, sent : chapters, done : Nat, total : Nat]
          /\ scan'.on /\ scan'.left = scan.left /\ scan'.sent = none /\ scan'.done = done
          /\ scan'.total = scan.total
      BY <3>2, <3>3, <3>4
    <3> QED BY <3>5 DEF none, chapters
  <2>3. Range(scan'.sent) = {} /\ Len(scan'.sent) = 0
    BY <2>2 DEF Range
  <2>4. SectionsTaken' = Chapters \ Range(scan.left)
    BY <1>3, <2>2, <2>3 DEF SectionsTaken, ToCome
  <2>5. scan'.total - scan'.done = Len(scan'.sent) + Len(scan'.left)
    <3>1. scan'.total - scan'.done = ll /\ Len(scan'.sent) + Len(scan'.left) = 0 + ll
      BY <2>1, <2>2, <2>3 DEF ll
    <3>2. 0 + ll = ll
      BY <1>4
    <3> QED BY <3>1, <3>2
  <2>6. ScanInv'
    BY <1>3, <1>5, <2>2, <2>5 DEF ScanInv
  <2>7. ViewerInv'
    BY <1>3, <1>7, <2>4 DEF ViewerInv
  <2>8. BrowserInv' /\ PageTyped' /\ StoredInv'
    BY <1>1, <1>2 DEF FigInv, BrowserInv, PageTyped, StoredInv
  <2> QED BY <2>6, <2>7, <2>8 DEF FigInv
<1>9. CASE ~(done < scan.total)
  <2>1. scan' = NoScan
    BY <1>2, <1>9
  <2>2. ll = 0
    <3>1. ~(scan.done + ls < scan.total)
      BY <1>4, <1>9
    <3> HIDE DEF done
    <3> QED BY <1>1, <1>4, <3>1
  <2>3. Range(scan.left) = {}
    BY <1>4, <2>2 DEF ll, Range
  <2>4. SectionsTaken' = Chapters
    BY <1>3, <2>1, NoScanTyped DEF SectionsTaken
  <2>5. ScanInv'
    BY <2>1, NoScanTyped DEF ScanInv
  <2>6. ViewerInv'
    BY <1>3, <1>7, <2>3, <2>4 DEF ViewerInv
  <2>7. BrowserInv' /\ PageTyped' /\ StoredInv'
    BY <1>1, <1>2 DEF FigInv, BrowserInv, PageTyped, StoredInv
  <2> QED BY <2>5, <2>6, <2>7 DEF FigInv
<1> QED BY <1>8, <1>9

(* The picture's steps leave the list alone.                                  *)
LEMMA DrawKeeps == ASSUME FigInv, DrawViewer PROVE FigInv'
<1>1. UNCHANGED <<viewer, browser, scan, look, page, presses>>
      /\ rows' = [rows EXCEPT !.drawn = IF viewer.open THEN Len(viewer.view) ELSE 0]
  BY DEF DrawViewer
<1>2. viewer.view \in Seq(Nat)
  BY DEF FigInv, ViewerInv, Viewers
<1>3. (IF viewer.open THEN Len(viewer.view) ELSE 0) \in Nat
  BY <1>2
<1>4. PageTyped'
  BY <1>1, <1>3 DEF FigInv, PageTyped
<1>5. SectionsTaken' = SectionsTaken
  BY <1>1 DEF SectionsTaken, ToCome
<1>6. ScanInv' /\ ViewerInv' /\ BrowserInv'
  BY <1>1, <1>5 DEF FigInv, ScanInv, ViewerInv, BrowserInv
<1>7. StoredInv'
  BY DrawStores DEF FigInv
<1> QED BY <1>4, <1>6, <1>7 DEF FigInv

\* The deletions carried out keep the invariant.
LEMMA TakeKeeps == ASSUME FigInv, TakeDeletes PROVE FigInv'
<1>1. UNCHANGED <<viewer, browser, shot, scan, look, page, rows, presses>>
  BY DEF TakeDeletes
<1>2. SectionsTaken' = SectionsTaken
  BY <1>1 DEF SectionsTaken, ToCome
<1>3. ScanInv' /\ ViewerInv' /\ BrowserInv' /\ PageTyped'
  BY <1>1, <1>2 DEF FigInv, ScanInv, ViewerInv, BrowserInv, PageTyped
<1>4. StoredInv'
  BY TakeStores DEF FigInv
<1> QED BY <1>3, <1>4 DEF FigInv

(* Keys that change the viewer and leave the sections it shows.               *)
LEMMA ViewerChanged ==
    ASSUME FigInv, viewer.open, viewer'.whole = viewer.whole, Shows(viewer', SectionsTaken), PageTyped',
           UNCHANGED <<browser, shot, scan, resident, tossed, page>>
    PROVE  FigInv'
<1>1. viewer'.open /\ viewer' \in Viewers
  BY DEF Shows
<1>2. SectionsTaken' = SectionsTaken
  BY DEF SectionsTaken, ToCome
<1>3. ViewerInv' /\ StoredInv' /\ ScanInv'
  BY <1>1, <1>2 DEF FigInv, ViewerInv, StoredInv, ScanInv
<1>4. BrowserInv'
  BY DEF FigInv, BrowserInv
<1> QED BY <1>3, <1>4 DEF FigInv

\* The cursor moved leaves the list as it was.
LEMMA CursorMoved ==
    ASSUME NEW S, NEW v, Shows(v, S), NEW k \in Nat \ {0}
    PROVE  Shows([v EXCEPT !.sel = k], S) /\ [v EXCEPT !.sel = k].whole = v.whole
<1> DEFINE w == [v EXCEPT !.sel = k]
<1>1. w \in Viewers /\ w.open = v.open /\ w.figs = v.figs /\ w.view = v.view /\ w.filter = v.filter
      /\ w.whole = v.whole
  BY DEF Shows, Viewers
<1> HIDE DEF w
<1>2. Passing(w) = Passing(v)
  BY <1>1 DEF Passing
<1>3. Shows(w, S) /\ w.whole = v.whole
  BY <1>1, <1>2 DEF Shows
<1> QED BY <1>3 DEF w

\* So does a field opened or closed.
LEMMA ModeChanged ==
    ASSUME NEW S, NEW v, Shows(v, S), NEW mode \in {"list", "filter", "save"}
    PROVE  Shows([v EXCEPT !.mode = mode], S) /\ [v EXCEPT !.mode = mode].whole = v.whole
<1> DEFINE w == [v EXCEPT !.mode = mode]
<1>1. w \in Viewers /\ w.open = v.open /\ w.figs = v.figs /\ w.view = v.view /\ w.filter = v.filter
      /\ w.whole = v.whole
  BY DEF Shows, Viewers
<1> HIDE DEF w
<1>2. Passing(w) = Passing(v)
  BY <1>1 DEF Passing
<1>3. Shows(w, S) /\ w.whole = v.whole
  BY <1>1, <1>2 DEF Shows
<1> QED BY <1>3 DEF w

\* A filter typed shows what matches it.
LEMMA FilterChanged ==
    ASSUME NEW S, NEW v, Shows(v, S), NEW mode \in {"list", "filter", "save"}, NEW f \in Nat
    PROVE  /\ Shows(Refiltered([v EXCEPT !.mode = mode, !.filter = f]), S)
           /\ Refiltered([v EXCEPT !.mode = mode, !.filter = f]).whole = v.whole
<1> DEFINE w == [v EXCEPT !.mode = mode, !.filter = f]
<1>1. w \in Viewers /\ w.open /\ w.figs = v.figs /\ w.whole = v.whole
  BY DEF Shows, Viewers
<1>2. Lists(v.figs, S) /\ Numbered(v.figs)
  BY DEF Shows
<1> HIDE DEF w
<1>3. Shows(Refiltered(w), S)
  BY <1>1, <1>2, RefilteredShows
<1>4. Refiltered(w) = [w EXCEPT !.view = Refiltered(w).view, !.sel = Refiltered(w).sel]
  BY <1>1, RefilteredIs
<1>5. Refiltered(w).whole = v.whole
  <2> DEFINE a == Refiltered(w).view
             b == Refiltered(w).sel
  <2>1. Refiltered(w) = [w EXCEPT !.view = a, !.sel = b]
    BY <1>4
  <2> HIDE DEF a, b
  <2> QED BY <1>1, <2>1 DEF Viewers
<1> QED BY <1>3, <1>5 DEF w

\* What the invariant says of an open viewer.
LEMMA ViewerIsOpen ==
    ASSUME FigInv, viewer.open
    PROVE  Shows(viewer, SectionsTaken) /\ viewer \in Viewers /\ viewer.sel \in Nat \ {0} /\ Len(viewer.view) \in Nat
BY DEF FigInv, ViewerInv, Shows, Viewers

\* The list's keys and wheel.
LEMMA MoveKeeps == ASSUME FigInv, Move \/ WheelInList PROVE FigInv'
<1>1. viewer.open /\ FiguresListed > 0 /\ UNCHANGED <<browser, shot, scan, resident, tossed, look, page, rows>>
  BY DEF Move, WheelInList, InList, ViewerKeeps
<1>2. Shows(viewer, SectionsTaken) /\ viewer.sel \in Nat \ {0} /\ FiguresListed \in Nat
  BY <1>1, ViewerIsOpen DEF FiguresListed
<1>3. PICK to : viewer' = [viewer EXCEPT !.sel = to] /\ to \in Nat \ {0}
  <2> DEFINE n == FiguresListed
             k == viewer.sel
  <2>1. n \in Nat \ {0} /\ k \in Nat \ {0}
    BY <1>1, <1>2
  <2> HIDE DEF n, k
  <2>2. /\ Clamped(k + 1, n) \in Nat \ {0} /\ (IF k = 1 THEN 1 ELSE k - 1) \in Nat \ {0}
        /\ (k % n) + 1 \in Nat \ {0} /\ ((k - 2) % n) + 1 \in Nat \ {0}
        /\ ((k - 1 + 1) % n) + 1 \in Nat \ {0} /\ ((k - 1 + (-1)) % n) + 1 \in Nat \ {0}
    BY <2>1 DEF Clamped
  <2>3. CASE Move
    <3>1. PICK to \in {Clamped(k + 1, n), IF k = 1 THEN 1 ELSE k - 1, 1, n, (k % n) + 1, ((k - 2) % n) + 1} :
              viewer' = [viewer EXCEPT !.sel = to]
      BY <2>3 DEF Move, n, k
    <3>2. to \in Nat \ {0}
      BY <2>1, <2>2
    <3> QED BY <3>1, <3>2
  <2>4. CASE WheelInList
    <3>1. PICK d \in {-1, 1} : viewer' = [viewer EXCEPT !.sel = ((k - 1 + d) % n) + 1]
      BY <2>4 DEF WheelInList, n, k
    <3>2. ((k - 1 + d) % n) + 1 \in Nat \ {0}
      BY <2>2
    <3> QED BY <3>1, <3>2
  <2> QED BY <2>3, <2>4
<1>4. Shows(viewer', SectionsTaken) /\ viewer'.whole = viewer.whole
  BY <1>2, <1>3, CursorMoved
<1>5. PageTyped'
  BY <1>1 DEF FigInv, PageTyped
<1> QED BY <1>1, <1>4, <1>5, ViewerChanged

\* The keys of its two fields.
LEMMA FieldKeeps ==
    ASSUME FigInv, OpenField("filter") \/ OpenField("save") \/ TypeFilter \/ LeaveField
    PROVE  FigInv'
<1>1. viewer.open /\ UNCHANGED <<browser, shot, scan, resident, tossed, look, page, rows>>
  BY DEF OpenField, TypeFilter, LeaveField, InList, ViewerKeeps
<1>2. Shows(viewer, SectionsTaken) /\ viewer \in Viewers
  BY <1>1, ViewerIsOpen
<1>3. Shows(viewer', SectionsTaken) /\ viewer'.whole = viewer.whole
  <2>1. CASE \E mode \in {"list", "filter", "save"} : viewer' = [viewer EXCEPT !.mode = mode]
    BY <1>2, <2>1, ModeChanged
  <2>2. CASE TypeFilter
    <3>1. PICK f \in 0 .. 9 : viewer' = Refiltered([viewer EXCEPT !.filter = f])
      BY <2>2 DEF TypeFilter
    <3>2. [viewer EXCEPT !.mode = viewer.mode, !.filter = f] = [viewer EXCEPT !.filter = f]
      BY <1>2 DEF Viewers
    <3>3. f \in Nat /\ viewer.mode \in {"list", "filter", "save"}
      BY <1>2 DEF Viewers
    <3> DEFINE mode == viewer.mode
    <3>4. mode \in {"list", "filter", "save"} /\ viewer' = Refiltered([viewer EXCEPT !.mode = mode, !.filter = f])
      BY <3>1, <3>2, <3>3
    <3> HIDE DEF mode
    <3> QED BY <1>2, <3>3, <3>4, FilterChanged
  <2>3. CASE viewer' = Refiltered([viewer EXCEPT !.mode = "list", !.filter = 0])
    <3>1. "list" \in {"list", "filter", "save"} /\ 0 \in Nat
      OBVIOUS
    <3> QED BY <1>2, <2>3, <3>1, FilterChanged
  <2> QED BY <2>1, <2>2, <2>3 DEF OpenField, LeaveField
<1>4. PageTyped'
  BY <1>1 DEF FigInv, PageTyped
<1> QED BY <1>1, <1>3, <1>4, ViewerChanged

\* The keys that change how the figure is shown.
LEMMA LookKeeps == ASSUME FigInv, CycleImageMode \/ ResizeBox PROVE FigInv'
<1>1. UNCHANGED <<viewer, browser, shot, scan, resident, tossed, page, rows>>
  BY DEF CycleImageMode, ResizeBox
<1>2. SectionsTaken' = SectionsTaken
  BY <1>1 DEF SectionsTaken, ToCome
<1> QED BY <1>1, <1>2 DEF FigInv, StoredInv, ScanInv, ViewerInv, BrowserInv, PageTyped

\* The scope changed between the chapter and the whole book.
LEMMA ToggleKeeps == ASSUME FigInv, ToggleScope PROVE FigInv'
<1> DEFINE here == page.section
           order == ScanOrder[here]
<1>1. /\ viewer.open /\ RetireViewer /\ UNCHANGED <<browser, resident, look, page, rows>>
      /\ viewer' = Opened(Collected[here], ~viewer.whole)
      /\ scan' = IF viewer.whole THEN NoScan ELSE StartScan(here)
  BY DEF ToggleScope, InList
<1>2. here \in Chapters /\ viewer.whole \in BOOLEAN
  BY DEF FigInv, PageTyped, ViewerInv, Viewers
<1>3. Shows(viewer', {here}) /\ viewer'.whole = ~viewer.whole
  <2> DEFINE s == here
  <2>1. s \in Chapters /\ viewer' = Opened(Collected[s], ~viewer.whole) /\ (~viewer.whole) \in BOOLEAN
    BY <1>1, <1>2
  <2> HIDE DEF s
  <2>2. Shows(viewer', {s}) /\ viewer'.whole = ~viewer.whole
    BY <2>1, OpenedShows
  <2> QED BY <2>2 DEF s
<1>4. StoredInv'
  BY <1>1, RetireStores DEF FigInv
<1>5. viewer' \in Viewers /\ viewer'.open
  BY <1>3 DEF Shows
<1>6. ~browser.open /\ browser' = browser
  BY <1>1 DEF FigInv, BrowserInv
<1>7. BrowserInv' /\ PageTyped'
  BY <1>1, <1>6 DEF FigInv, BrowserInv, PageTyped
<1>8. CASE viewer.whole
  <2>1. ScanInv'
    BY <1>1, <1>8, NoScanTyped DEF ScanInv
  <2>2. SectionsTaken' = {here}
    BY <1>1, <1>3, <1>8 DEF SectionsTaken
  <2>3. ViewerInv'
    BY <1>3, <1>5, <2>2 DEF ViewerInv
  <2> QED BY <1>4, <1>7, <2>1, <2>3 DEF FigInv
<1>9. CASE ~viewer.whole
  <2>1. order \in Seq(Chapters) /\ IsInjective(order) /\ Range(order) = Chapters \ {here}
    <3> DEFINE s == here
    <3>1. s \in Chapters
      BY <1>2
    <3> HIDE DEF s
    <3>2. ScanOrder[s] \in Seq(Chapters) /\ IsInjective(ScanOrder[s]) /\ Range(ScanOrder[s]) = Chapters \ {s}
      BY <3>1, ScanOrderIs
    <3> QED BY <3>2 DEF s
  <2>2. scan' = [NoScan EXCEPT !.on = TRUE, !.left = order, !.total = Len(order)]
    BY <1>1, <1>9 DEF StartScan
  <2> HIDE DEF order
  <2>3. scan' = [on |-> TRUE, left |-> order, sent |-> <<>>, done |-> 0, total |-> Len(order)]
    BY <2>2 DEF NoScan
  <2>4. scan'.on /\ scan'.left = order /\ scan'.sent = <<>> /\ scan'.done = 0 /\ scan'.total = Len(order)
    BY <2>3
  <2>5. <<>> \o order = order /\ Len(order) \in Nat /\ <<>> \in Seq(Chapters)
    BY <2>1
  <2>6. scan' \in [on : BOOLEAN, left : Seq(Chapters), sent : Seq(Chapters), done : Nat, total : Nat]
    BY <2>1, <2>3, <2>5
  <2>7. Len(order) - 0 = Len(<<>>) + Len(order)
    BY <2>5
  <2>8. ScanInv'
    BY <1>3, <1>5, <1>9, <2>1, <2>4, <2>5, <2>6, <2>7 DEF ScanInv
  <2>9. Range(scan'.sent) = {}
    BY <2>4 DEF Range
  <2>10. SectionsTaken' = Chapters \ Range(order)
    BY <1>3, <1>9, <2>4, <2>9 DEF SectionsTaken, ToCome
  <2>11. Chapters \ Range(order) = {here}
    BY <1>2, <2>1
  <2>12. ViewerInv'
    BY <1>3, <1>5, <2>10, <2>11 DEF ViewerInv
  <2> QED BY <1>4, <1>7, <2>8, <2>12 DEF FigInv
<1> QED BY <1>8, <1>9

(* Going to the figure under the cursor.                                      *)
LEMMA CurrentIsListed ==
    ASSUME NEW S, NEW v, Shows(v, S), HasCurrent(v)
    PROVE  Current(v) \in Fig /\ Current(v).id \in Ids(v.figs) /\ Current(v).id \in Chapters \X Nat
<1>1. v.view[v.sel] \in DOMAIN v.figs /\ v.figs \in Seq(Fig)
  BY DEF Shows, HasCurrent, Viewers
<1>2. Current(v) \in Fig /\ Current(v).id \in Ids(v.figs)
  BY <1>1 DEF Current, Ids
<1> QED BY <1>2 DEF Fig

\* Leaving the viewer for the figure selected.
LEMMA GoneTo ==
    ASSUME FigInv, viewer.open, NEW v, Shows(v, SectionsTaken), v.whole = viewer.whole, GoSelected(v),
           UNCHANGED <<browser, resident, look>>, rows' \in [drawn : Nat, clicked : Nat]
    PROVE  FigInv'
<1>1. ~browser.open
  BY DEF FigInv, BrowserInv
<1>2. CASE HasCurrent(v)
  <2>1. CloseViewer /\ page' = [page EXCEPT !.section = Current(v).id[1], !.landed = Current(v).id]
    BY <1>2 DEF GoSelected
  <2>2. Current(v).id \in Chapters \X Nat
    BY <1>2, CurrentIsListed
  <2>3. PageTyped'
    BY <2>1, <2>2 DEF FigInv, PageTyped
  <2> QED BY <1>1, <2>1, <2>3, CloseKeeps
<1>3. CASE ~HasCurrent(v)
  <2>1. viewer' = v /\ UNCHANGED <<page, tossed, shot, scan>>
    BY <1>3 DEF GoSelected
  <2>2. PageTyped'
    BY <2>1 DEF FigInv, PageTyped
  <2> QED BY <2>1, <2>2, ViewerChanged
<1> QED BY <1>2, <1>3

\* By the key.
LEMMA GoKeeps == ASSUME FigInv, GoToFigure PROVE FigInv'
<1>1. viewer.open /\ GoSelected(viewer) /\ UNCHANGED <<browser, resident, look, rows>>
  BY DEF GoToFigure, InList
<1>2. Shows(viewer, SectionsTaken)
  BY <1>1, ViewerIsOpen
<1>3. rows' \in [drawn : Nat, clicked : Nat]
  BY <1>1 DEF FigInv, PageTyped
<1> QED BY <1>1, <1>2, <1>3, GoneTo

\* By the mouse, on the row it was drawn in.
LEMMA ClickKeeps == ASSUME FigInv, ClickFigure PROVE FigInv'
<1>1. viewer.open /\ UNCHANGED <<browser, resident, look>> /\ rows \in [drawn : Nat, clicked : Nat]
  BY DEF ClickFigure, FigInv, PageTyped
<1>2. Shows(viewer, SectionsTaken)
  BY <1>1, ViewerIsOpen
<1>3. PICK k \in 1 .. rows.drawn :
          IF rows.clicked = k
          THEN GoSelected([viewer EXCEPT !.sel = k]) /\ rows' = [rows EXCEPT !.clicked = 0]
          ELSE /\ viewer' = [viewer EXCEPT !.sel = k]
               /\ rows' = [rows EXCEPT !.clicked = k]
               /\ UNCHANGED <<page, tossed, shot, scan>>
  BY DEF ClickFigure
<1>4. k \in Nat \ {0}
  BY <1>1
<1>5. Shows([viewer EXCEPT !.sel = k], SectionsTaken) /\ [viewer EXCEPT !.sel = k].whole = viewer.whole
  BY <1>2, <1>4, CursorMoved
<1>6. rows' \in [drawn : Nat, clicked : Nat]
  BY <1>1, <1>3, <1>4
<1>7. CASE rows.clicked = k
  <2> DEFINE v == [viewer EXCEPT !.sel = k]
  <2>1. GoSelected(v) /\ Shows(v, SectionsTaken) /\ v.whole = viewer.whole
    BY <1>3, <1>5, <1>7
  <2> HIDE DEF v
  <2> QED BY <1>1, <1>6, <2>1, GoneTo
<1>8. CASE rows.clicked # k
  <2>1. viewer' = [viewer EXCEPT !.sel = k] /\ UNCHANGED <<page, tossed, shot, scan>>
    BY <1>3, <1>8
  <2>2. PageTyped'
    BY <1>6, <2>1 DEF FigInv, PageTyped
  <2> QED BY <1>1, <1>5, <2>1, <2>2, ViewerChanged
<1> QED BY <1>7, <1>8

\* Leaving the viewer for the page.
LEMMA LeaveKeeps == ASSUME FigInv, LeaveViewer PROVE FigInv'
<1>1. CloseViewer /\ UNCHANGED <<browser, resident, look, page, rows>>
  BY DEF LeaveViewer
<1>2. PageTyped'
  BY <1>1 DEF FigInv, PageTyped
<1> QED BY <1>1, <1>2, CloseKeeps

(* Opening the viewer from the page.                                          *)
LEMMA OpenedAt ==
    ASSUME FigInv, NEW i \in Nat, OpenImageAt(i)
    PROVE  /\ viewer' \in Viewers /\ ~viewer'.whole
           /\ viewer'.open => Shows(viewer', {page.section})
<1> DEFINE s == page.section
           v == Opened(Collected[s], FALSE)
<1>1. s \in Chapters
  BY DEF FigInv, PageTyped
<1>2. CASE Collected[s] = <<>>
  <2>1. viewer' = NoViewer
    BY <1>2 DEF OpenImageAt
  <2> QED BY <2>1, NoViewerTyped DEF NoViewer
<1>3. CASE Collected[s] # <<>>
  <2>1. viewer' = Selected(v, i)
    BY <1>3 DEF OpenImageAt
  <2> HIDE DEF s
  <2>2. Shows(v, {s}) /\ v.whole = FALSE /\ v.view = [k \in DOMAIN Collected[s] |-> k]
    BY <1>1, OpenedShows
  <2> HIDE DEF v
  <2>3. Collected[s] \in Seq(Fig)
    BY <1>1, CollectedLists DEF Lists
  <2>4. v.view # <<>>
    <3>1. 1 \in DOMAIN Collected[s]
      BY <1>3, <2>3
    <3>2. 1 \in DOMAIN v.view
      BY <2>2, <3>1
    <3> QED BY <3>2
  <2>5. Shows(Selected(v, i), {s}) /\ Selected(v, i).whole = v.whole
    BY <2>2, <2>4, SelectedShows
  <2>6. Shows(viewer', {s}) /\ viewer'.whole = FALSE
    BY <2>1, <2>2, <2>5
  <2> QED BY <2>6 DEF s, Shows
<1> QED BY <1>2, <1>3

\* What the page's keys may open.
LEMMA PageOpens ==
    ASSUME FigInv, OnPage, UNCHANGED <<browser, shot, scan, resident, tossed>>, PageTyped',
           page'.section = page.section, \/ viewer' = viewer
                                         \/ \E i \in Nat : OpenImageAt(i)
    PROVE  FigInv'
<1>1. ~viewer.open /\ ~browser.open /\ ~scan.on
  BY DEF OnPage, FigInv, ScanInv
<1>2. StoredInv' /\ ScanInv' /\ BrowserInv'
  BY <1>1 DEF FigInv, StoredInv, ScanInv, BrowserInv
<1>3. CASE viewer' = viewer
  BY <1>1, <1>2, <1>3 DEF FigInv, ViewerInv
<1>4. CASE \E i \in Nat : OpenImageAt(i)
  <2>1. viewer' \in Viewers /\ ~viewer'.whole /\ (viewer'.open => Shows(viewer', {page.section}))
    BY <1>4, OpenedAt
  <2>2. SectionsTaken' = {page.section}
    BY <2>1 DEF SectionsTaken
  <2> QED BY <1>2, <2>1, <2>2 DEF FigInv, ViewerInv
<1> QED BY <1>3, <1>4

\* The figures in view are elements of the page.
LEMMA VisibleTyped == ASSUME PageTyped PROVE VisibleElements \in Seq(Nat)
<1> DEFINE in == Retained(page.seen, OpenableIn(page.section))
           k == IF Len(in) > 9 THEN 9 ELSE Len(in)
<1>1. in \in Seq(Nat)
  BY RetainedIs DEF PageTyped
<1>2. VisibleElements = SubSeq(in, 1, k)
  BY DEF VisibleElements
<1> HIDE DEF in
<1>3. k \in 0 .. Len(in) /\ Len(in) \in Nat
  BY <1>1
<1> HIDE DEF k
<1>4. SubSeq(in, 1, k) \in Seq(Nat)
  BY <1>1, <1>3
<1> QED BY <1>2, <1>4

\* The figures opened from the page.
LEMMA OpenKeeps == ASSUME FigInv, OpenImages PROVE FigInv'
<1>1. OnPage /\ UNCHANGED <<browser, shot, scan, resident, tossed, look, rows>>
  BY DEF OpenImages
<1>2. VisibleElements \in Seq(Nat)
  BY VisibleTyped DEF FigInv
<1>3. CASE Len(VisibleElements) = 1
  <2> DEFINE targets == VisibleElements
  <2>3. OpenImageAt(targets[1]) /\ page' = page
    BY <1>3 DEF OpenImages
  <2>4. targets[1] \in Nat
    <3>1. targets \in Seq(Nat) /\ Len(targets) = 1
      BY <1>2, <1>3
    <3> HIDE DEF targets
    <3> QED BY <3>1
  <2>1. page' = page /\ \E i \in Nat : OpenImageAt(i)
    BY <2>3, <2>4
  <2>2. PageTyped'
    BY <1>1, <2>1 DEF FigInv, PageTyped
  <2> QED BY <1>1, <2>1, <2>2, PageOpens
<1>4. CASE Len(VisibleElements) # 1
  <2>1. page' = [page EXCEPT !.badges = VisibleElements] /\ viewer' = viewer
    BY <1>4 DEF OpenImages
  <2>2. PageTyped' /\ page'.section = page.section
    BY <1>1, <1>2, <2>1 DEF FigInv, PageTyped
  <2> QED BY <1>1, <2>1, <2>2, PageOpens
<1> QED BY <1>3, <1>4

\* A numbered badge chosen, or none.
LEMMA BadgesKeep == ASSUME FigInv, (\E n \in 1 .. 9 : PickBadge(n)) \/ CancelBadges PROVE FigInv'
<1>1. OnPage /\ UNCHANGED <<browser, shot, scan, resident, tossed, look, rows>>
      /\ page' = [page EXCEPT !.badges = <<>>]
  BY DEF PickBadge, CancelBadges
<1>2. PageTyped' /\ page'.section = page.section
  <2> DEFINE none == <<>>
             numbers == Seq(Nat)
             places == {none} \cup (Chapters \X Nat)
  <2>1. none \in numbers
    OBVIOUS
  <2>2. page' = [page EXCEPT !.badges = none] /\ page \in [section : Chapters, seen : numbers, badges : numbers, landed : places]
    BY <1>1 DEF FigInv, PageTyped
  <2> HIDE DEF none, numbers, places
  <2>3. /\ page' \in [section : Chapters, seen : numbers, badges : numbers, landed : places]
        /\ page'.section = page.section
    BY <2>1, <2>2
  <2>4. rows' \in [drawn : Nat, clicked : Nat]
    BY <1>1 DEF FigInv, PageTyped
  <2> QED BY <2>3, <2>4 DEF PageTyped, none, numbers, places
<1>3. viewer' = viewer \/ \E i \in Nat : OpenImageAt(i)
  <2>1. page.badges \in Seq(Nat)
    BY DEF FigInv, PageTyped
  <2>2. \A n \in DOMAIN page.badges : page.badges[n] \in Nat
    BY <2>1
  <2> QED BY <2>2 DEF PickBadge, CancelBadges
<1> QED BY <1>1, <1>2, <1>3, PageOpens

\* The page scrolled under the badges.
LEMMA RollKeeps == ASSUME FigInv, RollUnderBadges PROVE FigInv'
<1>1. OnPage /\ UNCHANGED <<viewer, browser, shot, scan, resident, tossed, look, rows>>
  BY DEF RollUnderBadges
<1>2. PICK s \in Chapters : \E a \in 1 .. Len(FigBook[s]), b \in 0 .. Len(FigBook[s]) :
          page' = [page EXCEPT !.section = s, !.seen = SubSeq([i \in DOMAIN FigBook[s] |-> i], a, b), !.landed = <<>>]
  BY DEF RollUnderBadges
<1>3. PICK a \in 1 .. Len(FigBook[s]), b \in 0 .. Len(FigBook[s]) :
          page' = [page EXCEPT !.section = s, !.seen = SubSeq([i \in DOMAIN FigBook[s] |-> i], a, b), !.landed = <<>>]
  BY <1>2
<1> DEFINE n == Len(FigBook[s])
           count == [i \in DOMAIN FigBook[s] |-> i]
           seen == SubSeq(count, a, b)
<1>4. n \in Nat /\ DOMAIN FigBook[s] = 1 .. n
  <2>1. FigBook[s] \in Seq(Kinds)
    BY FigAssumption DEF Chapters, Kinds
  <2> QED BY <2>1
<1>5. count \in Seq(Nat) /\ Len(count) = n
  <2> HIDE DEF n
  <2> QED BY <1>4
<1>6. seen \in Seq(Nat)
  <2>1. a \in 1 .. n /\ b \in 0 .. n
    OBVIOUS
  <2> HIDE DEF n, count
  <2> QED BY <1>4, <1>5, <2>1
<1>7. page' \in [section : Chapters, seen : Seq(Nat), badges : Seq(Nat), landed : {<<>>} \cup (Chapters \X Nat)]
  <2> DEFINE places == {<<>>} \cup (Chapters \X Nat)
             none == <<>>
             numbers == Seq(Nat)
  <2>1. none \in places
    OBVIOUS
  <2>2. page \in [section : Chapters, seen : Seq(Nat), badges : Seq(Nat), landed : places]
        /\ page' = [page EXCEPT !.section = s, !.seen = seen, !.landed = none]
    BY <1>3 DEF FigInv, PageTyped
  <2>3. page \in [section : Chapters, seen : numbers, badges : numbers, landed : places] /\ seen \in numbers
    BY <1>6, <2>2
  <2> HIDE DEF places, none, seen, numbers
  <2>4. page' \in [section : Chapters, seen : numbers, badges : numbers, landed : places]
    BY <2>1, <2>2, <2>3
  <2> QED BY <2>4 DEF places, numbers
<1>8. PageTyped'
  BY <1>1, <1>7 DEF FigInv, PageTyped
<1>9. StoredInv' /\ ScanInv' /\ ViewerInv' /\ BrowserInv'
  BY <1>1 DEF FigInv, StoredInv, ScanInv, ViewerInv, BrowserInv, OnPage
<1> QED BY <1>8, <1>9 DEF FigInv

(* The code browser.                                                          *)
LEMMA BlocksAre ==
    ASSUME NEW s \in Chapters
    PROVE  /\ Blocks(s) \in Seq(EveryBlock) /\ Len(Blocks(s)) = FigCode[s]
           /\ Range(Blocks(s)) = {b \in EveryBlock : b[1] = s}
<1>1. FigCode[s] \in Nat
  BY FigAssumption
<1>2. \A i \in 1 .. FigCode[s] : <<s, i>> \in EveryBlock
  BY <1>1 DEF EveryBlock
<1>3. Blocks(s) = [i \in 1 .. FigCode[s] |-> <<s, i>>]
  BY DEF Blocks
<1>4. Blocks(s) \in Seq(EveryBlock) /\ Len(Blocks(s)) = FigCode[s] /\ DOMAIN Blocks(s) = 1 .. FigCode[s]
  BY <1>1, <1>2, <1>3
<1>5. \A i \in 1 .. FigCode[s] : Blocks(s)[i] = <<s, i>>
  BY <1>3
<1>6. Range(Blocks(s)) = {<<s, i>> : i \in 1 .. FigCode[s]}
  BY <1>4, <1>5 DEF Range
<1>7. {<<s, i>> : i \in 1 .. FigCode[s]} = {b \in EveryBlock : b[1] = s}
  BY <1>2 DEF EveryBlock
<1> QED BY <1>4, <1>6, <1>7

\* The code browser lists the blocks of its scope.
LEMMA CodeBlocksAre ==
    ASSUME PageTyped, NEW whole \in BOOLEAN
    PROVE  /\ CodeBlocks(whole) \in Seq(EveryBlock)
           /\ Range(CodeBlocks(whole)) = {b \in EveryBlock : whole \/ b[1] = page.section}
<1>1. page.section \in Chapters
  BY DEF PageTyped
<1>2. CASE ~whole
  <2>1. CodeBlocks(whole) = Blocks(page.section)
    BY <1>2 DEF CodeBlocks
  <2> DEFINE s == page.section
  <2>2. s \in Chapters
    BY <1>1
  <2> HIDE DEF s
  <2>3. Blocks(s) \in Seq(EveryBlock) /\ Range(Blocks(s)) = {b \in EveryBlock : b[1] = s}
    BY <2>2, BlocksAre
  <2> QED BY <1>2, <2>1, <2>3 DEF s
<1>3. CASE whole
  <2> DEFINE ss == [s \in Chapters |-> Blocks(s)]
             n == Len(FigBook)
  <2>1. n \in Nat /\ Chapters = 1 .. n
    BY ChaptersAre
  <2>2. \A s \in Chapters : Blocks(s) \in Seq(EveryBlock) /\ Range(Blocks(s)) = {b \in EveryBlock : b[1] = s}
    BY BlocksAre
  <2>3. CodeBlocks(whole) = FlattenSeq(ss)
    BY <1>3 DEF CodeBlocks
  <2> HIDE DEF n
  <2>4. ss \in Seq(Seq(EveryBlock)) /\ Len(ss) = n /\ \A s \in Chapters : ss[s] = Blocks(s)
    BY <2>1, <2>2
  <2> HIDE DEF ss
  <2>5. FlattenSeq(ss) \in Seq(EveryBlock)
    BY <2>4, FlattenedIs
  <2>6. Range(FlattenSeq(ss)) = UNION {Range(ss[i]) : i \in 1 .. Len(ss)}
    BY <2>4, FlattenedHas
  <2>7. UNION {Range(ss[i]) : i \in 1 .. Len(ss)} = EveryBlock
    <3>1. \A i \in 1 .. Len(ss) : i \in Chapters /\ Range(ss[i]) = {b \in EveryBlock : b[1] = i}
      BY <2>1, <2>2, <2>4
    <3>2. \A b \in EveryBlock : b[1] \in Chapters
      BY DEF EveryBlock
    <3>3. \A b \in EveryBlock : \E i \in 1 .. Len(ss) : b \in Range(ss[i])
      BY <2>1, <2>4, <3>1, <3>2
    <3>4. UNION {Range(ss[i]) : i \in 1 .. Len(ss)} \subseteq EveryBlock
      BY <3>1
    <3> QED BY <3>3, <3>4
  <2> QED BY <1>3, <2>3, <2>5, <2>6, <2>7
<1> QED BY <1>2, <1>3

\* The browser opened on one of them.
LEMMA BrowserIs ==
    ASSUME NEW list \in Seq(EveryBlock), Len(list) # 0, NEW whole \in BOOLEAN, NEW on
    PROVE  /\ Browser(list, whole, on) \in [open : BOOLEAN, list : Seq(EveryBlock), sel : Nat, whole : BOOLEAN]
           /\ Browser(list, whole, on).open /\ Browser(list, whole, on).list = list
           /\ Browser(list, whole, on).whole = whole
           /\ Browser(list, whole, on).sel \in DOMAIN list
           /\ on \in Range(list) => list[Browser(list, whole, on).sel] = on
<1> DEFINE sel == IF on \in Range(list) THEN CHOOSE k \in DOMAIN list : list[k] = on ELSE 1
<1>1. Len(list) \in Nat \ {0} /\ DOMAIN list = 1 .. Len(list)
  OBVIOUS
<1>2. sel \in DOMAIN list /\ (on \in Range(list) => list[sel] = on)
  <2>1. CASE on \in Range(list)
    <3>1. \E k \in DOMAIN list : list[k] = on
      BY <2>1 DEF Range
    <3> QED BY <2>1, <3>1
  <2>2. CASE on \notin Range(list)
    <3>1. 1 \in DOMAIN list
      BY <1>1
    <3> QED BY <2>2, <3>1
  <2> QED BY <2>1, <2>2
<1>3. Browser(list, whole, on) = [open |-> TRUE, list |-> list, whole |-> whole, sel |-> sel]
  BY DEF Browser
<1> HIDE DEF sel
<1>4. sel \in Nat
  BY <1>1, <1>2
<1> QED BY <1>2, <1>3, <1>4

\* A step of the browser alone.
LEMMA BrowserChanged ==
    ASSUME FigInv, ~viewer.open, BrowserKeeps, PageTyped', BrowserInv'
    PROVE  FigInv'
<1>1. StoredInv' /\ ScanInv' /\ ViewerInv'
  BY DEF BrowserKeeps, FigInv, StoredInv, ScanInv, ViewerInv
<1> QED BY <1>1 DEF FigInv

\* The browser opened.
LEMMA OpenCodeKeeps == ASSUME FigInv, OpenCodeView PROVE FigInv'
<1>1. ~viewer.open /\ BrowserKeeps /\ page' = page /\ CodeBlocks(FALSE) # <<>>
      /\ \E near : browser' = Browser(CodeBlocks(FALSE), FALSE, <<page.section, near>>)
  BY DEF OpenCodeView, OnPage
<1>2. PICK near : browser' = Browser(CodeBlocks(FALSE), FALSE, <<page.section, near>>)
  BY <1>1
<1> DEFINE list == CodeBlocks(FALSE)
<1>3. list \in Seq(EveryBlock) /\ list # <<>> /\ list = Blocks(page.section)
  BY <1>1, CodeBlocksAre DEF FigInv, CodeBlocks
<1>4. page.section \in Chapters
  BY DEF FigInv, PageTyped
<1> HIDE DEF list
<1>5. Len(list) # 0
  BY <1>3
<1>6. FigCode[page.section] # 0
  <2> DEFINE s == page.section
  <2>1. s \in Chapters /\ list = Blocks(s)
    BY <1>3, <1>4
  <2> HIDE DEF s
  <2>2. Len(list) = FigCode[s]
    BY <2>1, BlocksAre
  <2> QED BY <1>5, <2>2 DEF s
<1>7. /\ browser' \in [open : BOOLEAN, list : Seq(EveryBlock), sel : Nat, whole : BOOLEAN]
      /\ browser'.open /\ browser'.sel \in DOMAIN browser'.list
  <2> DEFINE on == <<page.section, near>>
  <2>1. browser' = Browser(list, FALSE, on)
    BY <1>2 DEF list
  <2> DEFINE b == Browser(list, FALSE, on)
  <2>2. /\ b \in [open : BOOLEAN, list : Seq(EveryBlock), sel : Nat, whole : BOOLEAN]
        /\ b.open /\ b.list = list /\ b.sel \in DOMAIN list
    <3> HIDE DEF on
    <3>1. FALSE \in BOOLEAN
      OBVIOUS
    <3> QED BY <1>3, <1>5, <3>1, BrowserIs
  <2>3. browser' = b
    BY <2>1
  <2> HIDE DEF b
  <2> QED BY <2>2, <2>3
<1>8. BrowserInv' /\ PageTyped'
  BY <1>1, <1>6, <1>7 DEF BrowserInv, PageTyped, FigInv, BrowserKeeps
<1> QED BY <1>1, <1>8, BrowserChanged

\* Its cursor moved.
LEMMA MoveCodeKeeps == ASSUME FigInv, MoveInCode PROVE FigInv'
<1>1. browser.open /\ BrowserKeeps /\ page' = page /\ ~viewer.open /\ FigCode[page.section] # 0
      /\ browser \in [open : BOOLEAN, list : Seq(EveryBlock), sel : Nat, whole : BOOLEAN]
      /\ browser.sel \in DOMAIN browser.list
  BY DEF MoveInCode, FigInv, BrowserInv
<1> DEFINE n == Len(browser.list)
           k == browser.sel
<1>2. n \in Nat \ {0} /\ k \in Nat /\ DOMAIN browser.list = 1 .. n
  <2>1. browser.list \in Seq(EveryBlock)
    BY <1>1
  <2> QED BY <1>1, <2>1
<1>3. PICK to \in {1, n, (k % n) + 1, ((k - 2) % n) + 1} : browser' = [browser EXCEPT !.sel = to]
  BY DEF MoveInCode
<1>4. to \in 1 .. n
  <2> HIDE DEF n, k
  <2>1. (k % n) \in 0 .. n - 1 /\ ((k - 2) % n) \in 0 .. n - 1
    BY <1>2
  <2> QED BY <1>2, <2>1
<1>5. browser' \in [open : BOOLEAN, list : Seq(EveryBlock), sel : Nat, whole : BOOLEAN]
      /\ browser'.open = browser.open /\ browser'.list = browser.list /\ browser'.sel = to
  <2> HIDE DEF n, k
  <2>1. to \in Nat
    BY <1>2, <1>4
  <2> QED BY <1>1, <1>3, <2>1
<1>6. BrowserInv' /\ PageTyped'
  BY <1>1, <1>2, <1>4, <1>5 DEF BrowserInv, PageTyped, FigInv, BrowserKeeps
<1> QED BY <1>1, <1>6, BrowserChanged

(* The other scope: the block under the cursor is listed in it, or it is not  *)
(* of this section.                                                           *)
LEMMA ScopeToggled ==
    ASSUME FigInv, ToggleCodeScope
    PROVE  /\ FigInv'
           /\ ~browser.whole => browser'.list[browser'.sel] = browser.list[browser.sel]
<1>1. browser.open /\ BrowserKeeps /\ page' = page /\ ~viewer.open /\ FigCode[page.section] # 0
      /\ browser \in [open : BOOLEAN, list : Seq(EveryBlock), sel : Nat, whole : BOOLEAN]
      /\ browser.sel \in DOMAIN browser.list
  BY DEF ToggleCodeScope, FigInv, BrowserInv
<1> DEFINE whole == ~browser.whole
           list == CodeBlocks(whole)
           on == browser.list[browser.sel]
<1>2. browser' = Browser(list, whole, on)
  BY DEF ToggleCodeScope
<1>3. whole \in BOOLEAN /\ page.section \in Chapters /\ PageTyped
  BY <1>1 DEF FigInv, PageTyped
<1>4. on \in EveryBlock
  <2>1. browser.list \in Seq(EveryBlock)
    BY <1>1
  <2> QED BY <1>1, <2>1
<1> HIDE DEF whole
<1>5. list \in Seq(EveryBlock) /\ Range(list) = {b \in EveryBlock : whole \/ b[1] = page.section}
  BY <1>3, CodeBlocksAre
<1> HIDE DEF list, on
<1>6. Len(list) # 0
  <2>1. FigCode[page.section] \in Nat \ {0}
    BY <1>1, <1>3, FigAssumption
  <2>2. <<page.section, 1>> \in EveryBlock
    BY <1>3, <2>1 DEF EveryBlock
  <2>3. <<page.section, 1>> \in Range(list)
    BY <1>5, <2>2
  <2>4. DOMAIN list # {}
    BY <2>3 DEF Range
  <2> QED BY <1>5, <2>4
<1>7. /\ browser' \in [open : BOOLEAN, list : Seq(EveryBlock), sel : Nat, whole : BOOLEAN]
      /\ browser'.open /\ browser'.list = list /\ browser'.sel \in DOMAIN list
      /\ on \in Range(list) => list[browser'.sel] = on
  <2> DEFINE b == Browser(list, whole, on)
  <2>1. /\ b \in [open : BOOLEAN, list : Seq(EveryBlock), sel : Nat, whole : BOOLEAN]
        /\ b.open /\ b.list = list /\ b.sel \in DOMAIN list
        /\ on \in Range(list) => list[b.sel] = on
    BY <1>3, <1>5, <1>6, BrowserIs, ZenonT(30)
  <2>2. browser' = b
    BY <1>2 DEF whole, list, on
  <2> HIDE DEF b
  <2> QED BY <2>1, <2>2
<1>8. BrowserInv' /\ PageTyped'
  BY <1>1, <1>7 DEF BrowserInv, PageTyped, FigInv, BrowserKeeps
<1>9. FigInv'
  BY <1>1, <1>8, BrowserChanged
<1>10. ~browser.whole => on \in Range(list)
  BY <1>4, <1>5 DEF whole
<1>11. ~browser.whole => browser'.list[browser'.sel] = on
  BY <1>7, <1>10
<1> QED BY <1>9, <1>11 DEF on

\* The browser left for the page, or for the block selected.
LEMMA LeaveCodeKeeps == ASSUME FigInv, LeaveCode(TRUE) \/ LeaveCode(FALSE) PROVE FigInv'
<1>1. browser.open /\ BrowserKeeps /\ ~viewer.open /\ browser' = NoBrowser
      /\ browser \in [open : BOOLEAN, list : Seq(EveryBlock), sel : Nat, whole : BOOLEAN]
      /\ browser.sel \in DOMAIN browser.list
  BY DEF LeaveCode, FigInv, BrowserInv
<1>2. browser.list[browser.sel] \in EveryBlock
  <2>1. browser.list \in Seq(EveryBlock)
    BY <1>1
  <2> QED BY <1>1, <2>1
<1>3. PageTyped'
  <2> DEFINE at == browser.list[browser.sel]
  <2>1. page' = page \/ page' = [page EXCEPT !.section = at[1], !.landed = at]
    BY DEF LeaveCode
  <2>2. at \in Chapters \X Nat
    BY <1>2 DEF EveryBlock
  <2> HIDE DEF at
  <2>3. page' \in [section : Chapters, seen : Seq(Nat), badges : Seq(Nat), landed : {<<>>} \cup (Chapters \X Nat)]
    BY <2>1, <2>2 DEF FigInv, PageTyped
  <2>4. rows' = rows
    BY <1>1 DEF BrowserKeeps
  <2> QED BY <2>3, <2>4 DEF FigInv, PageTyped
<1>4. NoBrowser \in [open : BOOLEAN, list : Seq(EveryBlock), sel : Nat, whole : BOOLEAN] /\ ~NoBrowser.open
  BY DEF NoBrowser
<1>5. BrowserInv'
  BY <1>1, <1>4 DEF BrowserInv
<1> QED BY <1>1, <1>3, <1>5, BrowserChanged

-----------------------------------------------------------------------------
\* The figures' invariant, at the start and through every step.
LEMMA FigInvHolds ==
    /\ FigInit => FigInv
    /\ ~FigFolders /\ FigInv /\ [FigNext]_figVars => FigInv'
<1>1. ASSUME FigInit PROVE FigInv
  <2>1. /\ viewer = NoViewer /\ browser = NoBrowser /\ shot = NoShot /\ scan = NoScan
        /\ resident = {} /\ tossed = [viewer |-> {}, app |-> {}]
        /\ rows = [drawn |-> 0, clicked |-> 0]
    BY <1>1 DEF FigInit
  <2>2. PICK s \in Chapters :
            page = [section |-> s, seen |-> [i \in DOMAIN FigBook[s] |-> i], badges |-> <<>>, landed |-> <<>>]
    BY <1>1 DEF FigInit
  <2>3. [i \in DOMAIN FigBook[s] |-> i] \in Seq(Nat)
    <3> DEFINE n == Len(FigBook[s])
    <3>1. n \in Nat /\ DOMAIN FigBook[s] = 1 .. n
      <4>1. FigBook[s] \in Seq(Kinds)
        BY FigAssumption DEF Chapters, Kinds
      <4> QED BY <4>1
    <3> HIDE DEF n
    <3> QED BY <3>1
  <2>4. PageTyped
    <3> DEFINE seen == [i \in DOMAIN FigBook[s] |-> i]
    <3>1. seen \in Seq(Nat) /\ page = [section |-> s, seen |-> seen, badges |-> <<>>, landed |-> <<>>]
      BY <2>2, <2>3
    <3> HIDE DEF seen
    <3> QED BY <2>1, <3>1 DEF PageTyped
  <2>5. StoredInv
    BY <2>1, FS_EmptySet DEF StoredInv, NoShot
  <2>6. ScanInv /\ ViewerInv
    BY <2>1, NoScanTyped, NoViewerTyped DEF ScanInv, ViewerInv
  <2>7. BrowserInv
    BY <2>1 DEF BrowserInv, NoBrowser
  <2> QED BY <2>4, <2>5, <2>6, <2>7 DEF FigInv
<1>2. ASSUME ~FigFolders, FigInv, [FigNext]_figVars PROVE FigInv'
  <2>1. CASE UNCHANGED figVars
    <3>1. SectionsTaken' = SectionsTaken
      BY <2>1 DEF figVars, SectionsTaken, ToCome
    <3> QED BY <1>2, <2>1, <3>1 DEF figVars, FigInv, StoredInv, ScanInv, PageTyped, ViewerInv, BrowserInv
  <2>2. CASE PageKey
    BY <1>2, <2>2, OpenKeeps, BadgesKeep, RollKeeps, OpenCodeKeeps DEF PageKey
  <2>3. CASE ViewerKey
    BY <1>2, <2>3, MoveKeeps, FieldKeeps, ToggleKeeps, LookKeeps, GoKeeps, ClickKeeps, LeaveKeeps DEF ViewerKey
  <2>4. CASE CodeKey
    BY <1>2, <2>4, MoveCodeKeeps, ScopeToggled, LeaveCodeKeeps DEF CodeKey
  <2>5. CASE FoldersFound
    BY <1>2, <2>5 DEF FoldersFound
  <2> QED BY <1>2, <2>1, <2>2, <2>3, <2>4, <2>5, WorkerKeeps, PollKeeps, DrawKeeps, TakeKeeps DEF FigNext
<1> QED BY <1>1, <1>2

\* It accounts for every figure.
LEMMA FigInvAccounts == ASSUME FigInv PROVE FiguresAccounted
<1>1. resident \subseteq {shot.image} \cup tossed.viewer \cup tossed.app
  BY DEF FigInv, StoredInv
<1>2. scan.on => viewer.open
  BY DEF FigInv, ScanInv
<1>3. ASSUME viewer.open
      PROVE  /\ \A a, b \in DOMAIN viewer.figs : a < b => Earlier(viewer.figs[a].id, viewer.figs[b].id)
             /\ \A k \in DOMAIN viewer.figs : viewer.figs[k].unnamed => viewer.figs[k].says = k
             /\ Ids(viewer.figs) = UNION {FiguresOf(s) : s \in SectionsTaken}
  BY <1>3, ViewerIsOpen DEF Shows, Lists, InPlace, Numbered
<1>4. UNION {FiguresOf(s) : s \in SectionsTaken} =
          IF viewer.whole THEN UNION {FiguresOf(s) : s \in Chapters \ (IF scan.on THEN ToCome ELSE {})}
                          ELSE FiguresOf(page.section)
  <2>1. CASE viewer.whole
    BY <2>1 DEF SectionsTaken
  <2>2. CASE ~viewer.whole
    <3>1. SectionsTaken = {page.section}
      BY <2>2 DEF SectionsTaken
    <3> QED BY <2>2, <3>1
  <2> QED BY <2>1, <2>2
<1>5. ASSUME scan.on PROVE viewer.whole /\ scan.total - scan.done = Cardinality(ToCome)
  <2> DEFINE all == scan.sent \o scan.left
  <2>1. scan.sent \in Seq(Chapters) /\ scan.left \in Seq(Chapters) /\ IsInjective(all) /\ viewer.whole
        /\ scan.total - scan.done = Len(scan.sent) + Len(scan.left)
    BY <1>5 DEF FigInv, ScanInv
  <2>2. all \in Seq(Chapters) /\ Len(all) = Len(scan.sent) + Len(scan.left)
    BY <2>1
  <2>3. Range(all) = ToCome
    BY <2>1, Joined DEF ToCome
  <2> HIDE DEF all
  <2>4. Len(all) = Cardinality(Range(all))
    BY <2>1, <2>2, LengthOfInjective
  <2> QED BY <2>1, <2>2, <2>3, <2>4
<1> QED BY <1>1, <1>2, <1>3, <1>4, <1>5 DEF FiguresAccounted

(* As long as no search for folders puts its popup in the place of the        *)
(* viewer, every image the terminal keeps for the viewer is on the screen or  *)
(* in a queue that frees it, and the list is that of the chapter, or of the   *)
(* book without what the scan has yet to bring, each figure once and in its   *)
(* place (merge_section, poll_figure_scan, retire_image_viewer): for every    *)
(* book, however often scopes, figures and modes are changed.                 *)
THEOREM FigureInvariance == ~FigFolders => (FigSpec => []FiguresAccounted)
<1> SUFFICES ASSUME ~FigFolders PROVE FigSpec => []FiguresAccounted
  OBVIOUS
<1>1. FigInit => FigInv
  BY FigInvHolds
<1>2. FigInv /\ [FigNext]_figVars => FigInv'
  BY FigInvHolds
<1>3. FigInv => FiguresAccounted
  BY FigInvAccounts
<1> QED BY <1>1, <1>2, <1>3, PTL DEF FigSpec

-----------------------------------------------------------------------------
(* The figure a badge is on is the nearest to itself.                         *)
LEMMA BadgeOpens ==
    ASSUME FigInv, NEW i \in OpenableIn(page.section), OpenImageAt(i), i \in Nat
    PROVE  HasCurrent(viewer') /\ Current(viewer').id = <<page.section, i>>
<1> DEFINE s == page.section
           figs == Collected[s]
           v == Opened(figs, FALSE)
           w == Selected(v, i)
<1>1. s \in Chapters /\ i \in OpenableIn(s)
  BY DEF FigInv, PageTyped
<1>2. viewer' = IF figs = <<>> THEN NoViewer ELSE w
  BY DEF OpenImageAt
<1> HIDE DEF s
<1>3. Shows(v, {s}) /\ v.view = [k \in DOMAIN figs |-> k] /\ v.filter = 0
  BY <1>1, OpenedShows
<1>4. Lists(figs, {s})
  BY <1>1, CollectedLists
<1> HIDE DEF figs, v
<1>5. UNION {FiguresOf(t) : t \in {s}} = FiguresOf(s)
  OBVIOUS
<1>6. Ids(figs) = FiguresOf(s) /\ Ids(v.figs) = FiguresOf(s) /\ <<s, i>> \in FiguresOf(s)
  BY <1>1, <1>3, <1>4, <1>5 DEF Lists, Shows, FiguresOf
<1>7. PICK h \in DOMAIN figs : figs[h].id = <<s, i>>
  BY <1>6 DEF Ids
<1>8. figs # <<>> /\ v.view # <<>>
  <2>1. h \in DOMAIN v.view
    BY <1>3
  <2> QED BY <1>7, <2>1
<1>9. viewer' = w
  BY <1>2, <1>8
<1>10. /\ w.figs = v.figs /\ w.view = v.view /\ w.sel \in DOMAIN v.view
       /\ \A k \in DOMAIN v.view : Apart(v, i, w.sel) <= Apart(v, i, k)
  BY <1>3, <1>8, SelectedShows
<1> HIDE DEF w
<1>11. PICK g \in DOMAIN v.figs : v.figs[g].id = <<s, i>>
  BY <1>6 DEF Ids
<1>12. v.figs[v.view[w.sel]].id \in FiguresOf(s) /\ g \in Range(v.view)
  <2>1. v.view[w.sel] \in DOMAIN v.figs
    BY <1>3, <1>10 DEF Shows
  <2>2. v.figs[v.view[w.sel]].id \in Ids(v.figs)
    BY <2>1 DEF Ids
  <2>3. g \in Passing(v)
    BY <1>3, <1>11 DEF Passing
  <2> QED BY <1>3, <1>6, <2>2, <2>3 DEF Shows
<1>13. PICK j \in DOMAIN v.view : v.view[j] = g
  BY <1>12 DEF Range
<1>14. Apart(v, i, j) = 0
  BY <1>11, <1>13 DEF Apart
<1>15. PICK m \in OpenableIn(s) : v.figs[v.view[w.sel]].id = <<s, m>>
  BY <1>12 DEF FiguresOf
<1>16. m \in Nat
  <2>1. FigBook[s] \in Seq(Kinds)
    BY <1>1, FigAssumption DEF Chapters, Kinds
  <2> QED BY <1>15, <2>1 DEF OpenableIn
<1>17. m = i
  <2>1. Apart(v, i, w.sel) = IF m - i < 0 THEN -(m - i) ELSE m - i
    BY <1>15 DEF Apart
  <2>2. Apart(v, i, w.sel) <= 0
    BY <1>10, <1>13, <1>14
  <2> QED BY <1>16, <2>1, <2>2
<1>18. HasCurrent(w) /\ Current(w).id = <<s, i>>
  BY <1>10, <1>15, <1>17 DEF HasCurrent, Current
<1> QED BY <1>9, <1>18 DEF s

\* The one figure in view can be opened.
LEMMA VisibleAreOpenable ==
    ASSUME PageTyped, Len(VisibleElements) = 1
    PROVE  VisibleElements[1] \in OpenableIn(page.section) /\ VisibleElements[1] \in Nat
<1> DEFINE in == Retained(page.seen, OpenableIn(page.section))
           k == IF Len(in) > 9 THEN 9 ELSE Len(in)
<1>1. in \in Seq(Nat) /\ Range(in) = Range(page.seen) \cap OpenableIn(page.section)
  BY RetainedIs DEF PageTyped
<1>2. VisibleElements = SubSeq(in, 1, k)
  BY DEF VisibleElements
<1> HIDE DEF in
<1>3. k \in 0 .. Len(in) /\ Len(in) \in Nat
  BY <1>1
<1> HIDE DEF k
<1>4. Len(SubSeq(in, 1, k)) = k /\ \A j \in 1 .. k : SubSeq(in, 1, k)[j] = in[j]
  BY <1>1, <1>3
<1>5. k = 1 /\ 1 \in DOMAIN in
  BY <1>1, <1>2, <1>3, <1>4
<1>6. VisibleElements[1] = in[1]
  BY <1>2, <1>4, <1>5
<1>7. in[1] \in Range(in)
  BY <1>5 DEF Range
<1> QED BY <1>1, <1>5, <1>6, <1>7

(* The steps the reader does not press a key for.                             *)
LEMMA CursorHeld ==
    ASSUME FigInv, ~FigFolders, presses \in Nat, [FigNext]_figVars,
           viewer.open, viewer'.open, presses' = presses, HasCurrent(viewer)
    PROVE  StaysOrGoes(viewer', Current(viewer).id)
<1>1. CASE viewer' = viewer
  <2>1. HasCurrent(viewer') /\ Current(viewer').id = Current(viewer).id
    BY <1>1
  <2> QED BY <2>1 DEF StaysOrGoes
<1>2. CASE PollFigureScan
  <2> DEFINE S == SectionsTaken \cup Range(scan.sent)
             x == Current(viewer).id
  <2>1. MergedWell(viewer, viewer', S)
    BY <1>2, Polled
  <2> HIDE DEF S, x
  <2> DEFINE w == viewer'
  <2>2. MergedWell(viewer, w, S)
    BY <2>1
  <2> HIDE DEF w
  <2>3. Shows(w, S) /\ ((HasCurrent(w) /\ Current(w).id = x) \/ Gone(w, x))
    BY <2>2 DEF MergedWell, Onward, x
  <2>4. StaysOrGoes(w, x)
    BY <2>3, GoneIsUnlisted DEF StaysOrGoes
  <2> QED BY <2>4 DEF w, x
<1>3. ~FigPress
  BY DEF FigPress
<1>4. CASE UNCHANGED figVars \/ ScanWorker \/ DrawViewer \/ TakeDeletes
  <2>1. viewer' = viewer
    BY <1>4 DEF figVars, ScanWorker, DrawViewer, TakeDeletes
  <2> QED BY <1>1, <2>1
<1>5. ~FoldersFound
  BY DEF FoldersFound
<1>6. ~PageKey
  BY <1>3 DEF PageKey, OpenImages, PickBadge, CancelBadges, RollUnderBadges, OpenCodeView
<1>7. ~ViewerKey
  BY <1>3 DEF ViewerKey, Move, WheelInList, OpenField, TypeFilter, LeaveField, ToggleScope, CycleImageMode,
              ResizeBox, GoToFigure, ClickFigure, LeaveViewer
<1>8. ~CodeKey
  BY <1>3 DEF CodeKey, MoveInCode, ToggleCodeScope, LeaveCode
<1> QED BY <1>2, <1>4, <1>5, <1>6, <1>7, <1>8 DEF FigNext

\* The count of keys stays a number.
LEMMA PressesCounted ==
    ASSUME presses \in Nat, [FigNext]_figVars
    PROVE  presses' \in Nat
<1>1. CASE FigPress
  BY <1>1 DEF FigPress
<1>2. CASE presses' = presses
  BY <1>2
<1>3. CASE UNCHANGED figVars \/ ScanWorker \/ DrawViewer \/ TakeDeletes \/ PollFigureScan \/ FoldersFound
  BY <1>2, <1>3 DEF figVars, ScanWorker, DrawViewer, TakeDeletes, PollFigureScan, FoldersFound
<1>4. PageKey => FigPress
  BY DEF PageKey, OpenImages, PickBadge, CancelBadges, RollUnderBadges, OpenCodeView
<1>5. ViewerKey => FigPress
  BY DEF ViewerKey, Move, WheelInList, OpenField, TypeFilter, LeaveField, ToggleScope, CycleImageMode,
         ResizeBox, GoToFigure, ClickFigure, LeaveViewer
<1>6. CodeKey => FigPress
  BY DEF CodeKey, MoveInCode, ToggleCodeScope, LeaveCode
<1> QED BY <1>1, <1>3, <1>4, <1>5, <1>6 DEF FigNext

\* Going to the selected figure lands on one of the list, in its chapter.
LEMMA LandsOnSelected ==
    ASSUME FigInv, viewer.open, NEW v, Shows(v, SectionsTaken), v.figs = viewer.figs, GoSelected(v), page' # page
    PROVE  page'.landed \in Ids(viewer.figs) /\ page'.landed[1] = page'.section
<1>1. HasCurrent(v) /\ page' = [page EXCEPT !.section = Current(v).id[1], !.landed = Current(v).id]
  BY DEF GoSelected
<1>2. Current(v).id \in Ids(v.figs)
  BY <1>1, CurrentIsListed
<1>3. page'.landed = Current(v).id /\ page'.section = Current(v).id[1]
  BY <1>1 DEF FigInv, PageTyped
<1> QED BY <1>2, <1>3

\* So does every step that leaves an open viewer for another place.
LEMMA Landed ==
    ASSUME FigInv, [FigNext]_figVars, viewer.open, page' # page
    PROVE  page'.landed \in Ids(viewer.figs) /\ page'.landed[1] = page'.section
<1>1. ~OnPage /\ ~browser.open
  BY DEF OnPage, FigInv, BrowserInv
<1>2. ~(UNCHANGED figVars \/ ScanWorker \/ DrawViewer \/ TakeDeletes \/ PollFigureScan \/ FoldersFound)
  BY DEF figVars, ScanWorker, DrawViewer, TakeDeletes, PollFigureScan, FoldersFound
<1>3. ~PageKey
  BY <1>1 DEF PageKey, OpenImages, PickBadge, CancelBadges, RollUnderBadges, OpenCodeView
<1>4. ~CodeKey
  BY <1>1 DEF CodeKey, MoveInCode, ToggleCodeScope, LeaveCode
<1>5. ~(Move \/ WheelInList \/ OpenField("filter") \/ OpenField("save") \/ TypeFilter \/ LeaveField
          \/ ToggleScope \/ CycleImageMode \/ ResizeBox \/ LeaveViewer)
  BY DEF Move, WheelInList, OpenField, TypeFilter, LeaveField, ToggleScope, CycleImageMode, ResizeBox,
         LeaveViewer, ViewerKeeps
<1>6. Shows(viewer, SectionsTaken) /\ viewer \in Viewers
  BY ViewerIsOpen
<1>7. CASE GoToFigure
  BY <1>6, <1>7, LandsOnSelected DEF GoToFigure
<1>8. CASE ClickFigure
  <2>1. PICK k \in 1 .. rows.drawn :
            GoSelected([viewer EXCEPT !.sel = k]) \/ UNCHANGED page
    BY <1>8 DEF ClickFigure
  <2>2. k \in Nat \ {0}
    BY DEF FigInv, PageTyped
  <2> DEFINE v == [viewer EXCEPT !.sel = k]
  <2>3. Shows(v, SectionsTaken) /\ v.figs = viewer.figs
    BY <1>6, <2>2, CursorMoved DEF Viewers
  <2>4. GoSelected(v)
    BY <2>1
  <2> HIDE DEF v
  <2> QED BY <2>3, <2>4, LandsOnSelected
<1> QED BY <1>2, <1>3, <1>4, <1>5, <1>7, <1>8 DEF FigNext, ViewerKey

\* The browser widened to the book stays on its block.
LEMMA CodeHeld ==
    ASSUME FigInv, [FigNext]_figVars, browser.open, browser'.open, browser'.whole, ~browser.whole
    PROVE  browser'.list[browser'.sel] = browser.list[browser.sel]
<1>1. browser' # browser /\ ~OnPage
  BY DEF OnPage
<1>2. ~(UNCHANGED figVars \/ ScanWorker \/ DrawViewer \/ TakeDeletes \/ PollFigureScan \/ FoldersFound)
  BY <1>1 DEF figVars, ScanWorker, DrawViewer, TakeDeletes, PollFigureScan, FoldersFound
<1>3. ~PageKey
  BY <1>1 DEF PageKey, OpenImages, PickBadge, CancelBadges, RollUnderBadges, OpenCodeView
<1>4. ~ViewerKey
  BY <1>1 DEF ViewerKey, Move, WheelInList, OpenField, TypeFilter, LeaveField, ToggleScope, CycleImageMode,
              ResizeBox, GoToFigure, ClickFigure, LeaveViewer, ViewerKeeps
<1>5. ~MoveInCode
  <2> SUFFICES ASSUME MoveInCode PROVE FALSE
    OBVIOUS
  <2>1. PICK to : browser' = [browser EXCEPT !.sel = to]
    BY DEF MoveInCode
  <2>2. browser'.whole = browser.whole
    BY <2>1 DEF FigInv, BrowserInv
  <2> QED BY <2>2
<1>6. ~(LeaveCode(TRUE) \/ LeaveCode(FALSE))
  BY DEF LeaveCode, NoBrowser
<1>7. CASE ToggleCodeScope
  BY <1>7, ScopeToggled
<1> QED BY <1>2, <1>3, <1>4, <1>5, <1>6, <1>7 DEF FigNext, CodeKey

(* While sections come in, the figure under the cursor stays under it, unless *)
(* the filter lets it through no more (merge_section): in a scan of any order *)
(* and length.  A badge opens the figure it is on, and both popups go to the  *)
(* place of what they had under the cursor (select_image, jump_to_image,      *)
(* select_code).                                                              *)
THEOREM SelectionInvariance == ~FigFolders => (FigSpec => SelectionHeld)
<1> SUFFICES ASSUME ~FigFolders PROVE FigSpec => SelectionHeld
  OBVIOUS
<1> DEFINE Both == FigInv /\ presses \in Nat
<1>1. FigInit => Both
  BY FigInvHolds DEF FigInit
<1>2. Both /\ [FigNext]_figVars => Both'
  BY FigInvHolds, PressesCounted
<1>3. Both /\ [FigNext]_figVars =>
          [(viewer.open /\ viewer'.open /\ presses' = presses /\ HasCurrent(viewer))
             => \/ HasCurrent(viewer') /\ Current(viewer').id = Current(viewer).id
                \/ \A k \in DOMAIN viewer'.view : viewer'.figs[viewer'.view[k]].id # Current(viewer).id]_figVars
  BY CursorHeld DEF StaysOrGoes
<1>4. Both /\ [FigNext]_figVars =>
          [OpenImages /\ viewer'.open => Current(viewer').id = <<page.section, VisibleElements[1]>>]_figVars
  <2> SUFFICES ASSUME Both, OpenImages, viewer'.open
               PROVE  Current(viewer').id = <<page.section, VisibleElements[1]>>
    OBVIOUS
  <2>1. ~viewer.open
    BY DEF OpenImages, OnPage
  <2>2. Len(VisibleElements) = 1 /\ OpenImageAt(VisibleElements[1])
    BY <2>1 DEF OpenImages
  <2>3. VisibleElements[1] \in OpenableIn(page.section) /\ VisibleElements[1] \in Nat
    BY <2>2, VisibleAreOpenable DEF FigInv
  <2> DEFINE i == VisibleElements[1]
  <2>4. i \in OpenableIn(page.section) /\ i \in Nat /\ OpenImageAt(i)
    BY <2>2, <2>3
  <2> HIDE DEF i
  <2>5. Current(viewer').id = <<page.section, i>>
    BY <2>4, BadgeOpens
  <2> QED BY <2>5 DEF i
<1>5. Both /\ [FigNext]_figVars =>
          [\A n \in DOMAIN page.badges :
             PickBadge(n) /\ page.badges[n] \in OpenableIn(page.section)
                 => Current(viewer').id = <<page.section, page.badges[n]>>]_figVars
  <2> SUFFICES ASSUME Both, NEW n \in DOMAIN page.badges, PickBadge(n), page.badges[n] \in OpenableIn(page.section)
               PROVE  Current(viewer').id = <<page.section, page.badges[n]>>
    OBVIOUS
  <2> DEFINE i == page.badges[n]
  <2>1. page.badges \in Seq(Nat)
    BY DEF FigInv, PageTyped
  <2>2. i \in Nat /\ i \in OpenableIn(page.section) /\ OpenImageAt(i)
    BY <2>1 DEF PickBadge
  <2> HIDE DEF i
  <2>3. Current(viewer').id = <<page.section, i>>
    BY <2>2, BadgeOpens
  <2> QED BY <2>3 DEF i
<1>6. Both /\ [FigNext]_figVars =>
          [(viewer.open /\ ~viewer'.open /\ page' # page)
             => page'.landed \in Ids(viewer.figs) /\ page'.landed[1] = page'.section]_figVars
  BY Landed
<1>7. Both /\ [FigNext]_figVars =>
          [(browser.open /\ browser'.open /\ browser'.whole) /\ ~browser.whole
             => browser'.list[browser'.sel] = browser.list[browser.sel]]_figVars
  BY CodeHeld
<1> HIDE DEF Both
<1> QED BY <1>1, <1>2, <1>3, <1>4, <1>5, <1>6, <1>7, PTL DEF FigSpec, SelectionHeld
=============================================================================
