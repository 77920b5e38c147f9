----------------------------- MODULE HeartProofs -----------------------------
(***************************************************************************)
(* What holds of the scheduler for any jobs, threads and interleaving.     *)
(* That a live loop can be stopped holds for one caller only (Heart_two    *)
(* shows why), and rests on two facts: a stop() in progress means that the *)
(* stop event is set, and while it is clear no loop is alive unless the    *)
(* service still knows of one, which may be one an exception has ended.    *)
(***************************************************************************)
EXTENDS Heart, FoldProofs, TLAPS

\* What the proofs need of the types.
Shape ==
  /\ thread \in Workers \union {NoThread}
  /\ DOMAIN worker = Workers
  /\ \A w \in Workers : {"phase", "once"} \subseteq DOMAIN worker[w]
  /\ DOMAIN caller = Callers

LEMMA ShapeInit == Init => Shape
BY DEF Init, Shape, Free

\* What a thread running jobs does: nothing that is not its own.  It never
\* becomes a loop, and while the stop event is clear it ends one only by an
\* exception.
LEMMA WorkKeepsLoops ==
  ASSUME Shape, NEW w \in Workers, Work(w) \/ Pulse(w)
  PROVE  /\ Shape'
         /\ UNCHANGED <<thread, stop_event, caller>>
         /\ \A v \in Workers : LoopAlive(v)' => LoopAlive(v)
         /\ ~stop_event /\ ~Die(w) => \A v \in Workers : LoopAlive(v)' <=> LoopAlive(v)
         /\ \A v \in Workers \ {w} : LoopAlive(v)' <=> LoopAlive(v)
<1>1. UNCHANGED <<thread, stop_event, caller>>
  BY DEF Work, Pulse, Check, Collect, Call, Return, Escape, Tick, Die
<1> DEFINE Kept ==
             /\ Shape'
             /\ \A v \in Workers : LoopAlive(v)' => LoopAlive(v)
             /\ ~stop_event /\ ~Die(w) =>
                  \A v \in Workers : LoopAlive(v)' <=> LoopAlive(v)
             /\ \A v \in Workers \ {w} : LoopAlive(v)' <=> LoopAlive(v)
<1>2. ASSUME NEW x, worker' = [worker EXCEPT ![w] = x],
             {"phase", "once"} \subseteq DOMAIN x,
             x.phase # "free" /\ ~x.once => LoopAlive(w),
             ~stop_event /\ ~Die(w) => ((x.phase # "free" /\ ~x.once) <=> LoopAlive(w))
      PROVE  Kept
  <2>1. worker'[w] = x /\ \A v \in Workers \ {w} : worker'[v] = worker[v]
    BY <1>2 DEF Shape
  <2>2. LoopAlive(w)' <=> (x.phase # "free" /\ ~x.once)
    BY <2>1 DEF LoopAlive, Alive
  <2>3. \A v \in Workers \ {w} : LoopAlive(v)' <=> LoopAlive(v)
    BY <2>1 DEF LoopAlive, Alive
  <2>4. Shape'
    BY <1>1, <1>2 DEF Shape
  <2> QED BY <1>2, <2>2, <2>3, <2>4
<1>a. ASSUME NEW x, worker' = [worker EXCEPT ![w] = x],
             {"phase", "once"} \subseteq DOMAIN x,
             x.phase # "free", x.once = worker[w].once, worker[w].phase # "free"
      PROVE  Kept
  <2>1. (x.phase # "free" /\ ~x.once) <=> LoopAlive(w)
    BY <1>a DEF LoopAlive, Alive
  <2> HIDE DEF Kept
  <2> QED BY <1>2, <1>a, <2>1
<1>b. /\ {"phase", "once"} \subseteq DOMAIN Free /\ Free.phase = "free"
      /\ {"phase", "once"} \subseteq DOMAIN Raising(w)
      /\ Raising(w).phase = "raise" /\ Raising(w).once = worker[w].once
  BY DEF Free, Raising
<1>3. ASSUME Check(w) PROVE Kept
  <2> DEFINE x == IF stop_event THEN Free ELSE [worker[w] EXCEPT !.phase = "collect"]
  <2>1. worker' = [worker EXCEPT ![w] = x]
    BY <1>3 DEF Check
  <2>2. /\ {"phase", "once"} \subseteq DOMAIN x
        /\ stop_event => x.phase = "free"
        /\ ~stop_event => x.phase = "collect" /\ x.once = worker[w].once
    BY <1>b DEF Shape
  <2>3. worker[w].phase = "check"
    BY <1>3 DEF Check
  <2> HIDE DEF x, Kept
  <2>4. CASE stop_event
    BY <1>2, <2>1, <2>2, <2>4
  <2>5. CASE ~stop_event
    BY <1>a, <2>1, <2>2, <2>3, <2>5
  <2> QED BY <2>4, <2>5
<1>4. ASSUME NEW written \in BOOLEAN, Tick(w, written) PROVE Kept
  <2> DEFINE x == IF ~written THEN Raising(w)
                  ELSE IF worker[w].once THEN Free
                  ELSE [worker[w] EXCEPT !.phase = "check"]
  <2>1. worker' = [worker EXCEPT ![w] = x] /\ worker[w].phase = "run"
    BY <1>4 DEF Tick
  <2>2. /\ {"phase", "once"} \subseteq DOMAIN x
        /\ ~written => x.phase = "raise" /\ x.once = worker[w].once
        /\ written /\ ~worker[w].once => x.phase = "check" /\ x.once = worker[w].once
        /\ written /\ worker[w].once => x.phase = "free"
    BY <1>b DEF Shape
  <2> HIDE DEF x, Kept
  <2>3. CASE written /\ worker[w].once
    <3>1. ~LoopAlive(w)
      BY <2>3 DEF LoopAlive
    <3> QED BY <1>2, <2>1, <2>2, <2>3, <3>1
  <2>4. CASE ~(written /\ worker[w].once)
    BY <1>a, <2>1, <2>2, <2>4
  <2> QED BY <2>3, <2>4
<1>5. ASSUME Pulse(w) PROVE Kept
  <2>1. worker' = [worker EXCEPT ![w] = Once] /\ ~Alive(w)
    BY <1>5 DEF Pulse
  <2>2. {"phase", "once"} \subseteq DOMAIN Once /\ Once.once
    BY DEF Once
  <2>3. ~LoopAlive(w)
    BY <2>1 DEF LoopAlive
  <2> HIDE DEF Kept
  <2> QED BY <1>2, <2>1, <2>2, <2>3
<1>6. ASSUME Collect(w) PROVE Kept
  <2> DEFINE x == [worker[w] EXCEPT !.phase = "run", !.todo = DueAmong[Len(jobs)]]
  <2>1. worker' = [worker EXCEPT ![w] = x] /\ worker[w].phase = "collect"
    BY <1>6 DEF Collect, Shape
  <2>2. {"phase", "once"} \subseteq DOMAIN x /\ x.phase = "run" /\ x.once = worker[w].once
    BY DEF Shape
  <2> HIDE DEF x, Kept
  <2> QED BY <1>a, <2>1, <2>2
<1>7. ASSUME Call(w) PROVE Kept
  <2> DEFINE x == [worker[w] EXCEPT !.phase = "callback"]
  <2>1. worker' = [worker EXCEPT ![w] = x] /\ worker[w].phase = "run"
    BY <1>7 DEF Call, Shape
  <2>2. {"phase", "once"} \subseteq DOMAIN x /\ x.phase = "callback" /\ x.once = worker[w].once
    BY DEF Shape
  <2> HIDE DEF x, Kept
  <2> QED BY <1>a, <2>1, <2>2
<1>8. ASSUME NEW result \in Results, NEW written \in BOOLEAN, Return(w, result, written)
      PROVE  Kept
  <2> DEFINE y == [worker[w] EXCEPT !.phase = "run", !.todo = Tail(worker[w].todo)]
             x == IF written THEN y ELSE Raising(w)
  <2>1. worker[w].phase = "callback" /\ worker' = [worker EXCEPT ![w] = x]
    <3>1. CASE written
      BY <1>8, <3>1 DEF Return
    <3>2. CASE ~written
      BY <1>8, <3>2 DEF Return
    <3> QED BY <3>1, <3>2
  <2>2. {"phase", "once"} \subseteq DOMAIN y /\ y.phase = "run" /\ y.once = worker[w].once
    BY DEF Shape
  <2>3. {"phase", "once"} \subseteq DOMAIN x /\ x.phase # "free" /\ x.once = worker[w].once
    <3> HIDE DEF y
    <3> QED BY <1>b, <2>2
  <2> HIDE DEF x, Kept
  <2> QED BY <1>a, <2>1, <2>3
<1>9. ASSUME Escape(w) PROVE Kept
  <2>1. worker' = [worker EXCEPT ![w] = Raising(w)] /\ worker[w].phase = "callback"
    BY <1>9 DEF Escape
  <2> HIDE DEF Kept
  <2> QED BY <1>a, <1>b, <2>1
<1>10. ASSUME Die(w) PROVE Kept
  <2>1. worker' = [worker EXCEPT ![w] = Free]
    BY <1>10 DEF Die
  <2> HIDE DEF Kept
  <2> QED BY <1>2, <1>10, <1>b, <2>1
<1> QED BY <1>1, <1>3, <1>4, <1>5, <1>6, <1>7, <1>8, <1>9, <1>10 DEF Work

\* The other actions keep the shape as well.
LEMMA ShapeNext == Shape /\ [Next]_vars => Shape'
<1> SUFFICES ASSUME Shape, [Next]_vars PROVE Shape'
  OBVIOUS
<1>1. ASSUME NEW c \in Callers, NEW j \in Jobs, NEW immediately \in BOOLEAN,
             NEW written \in BOOLEAN, RegisterJob(c, j, immediately, written)
      PROVE  Shape'
  BY <1>1 DEF RegisterJob, Shape
<1>2. ASSUME NEW c \in Callers, NEW w \in Workers, NEW written \in BOOLEAN,
             Start(c, w, written)
      PROVE  Shape'
  BY <1>2 DEF Start, Shape, Loop
<1>3. ASSUME NEW c \in Callers, NEW written \in BOOLEAN, Stop(c) \/ Stopped(c, written)
      PROVE  Shape'
  BY <1>3 DEF Stop, Stopped, Shape
<1>4. ASSUME NEW j \in Jobs, Elapse(j)
      PROVE  Shape'
  BY <1>4 DEF Elapse, Shape
<1>5. CASE UNCHANGED vars
  BY <1>5 DEF vars, Shape
<1> QED BY <1>1, <1>2, <1>3, <1>4, <1>5, WorkKeepsLoops DEF Next

-----------------------------------------------------------------------------
(* The status file.                                                        *)

\* A critical section that ends by writing the status leaves the truth in the
\* file, or the mark that it could not.
LEMMA WrittenIsTrue ==
  ASSUME NEW written \in BOOLEAN, PersistStatus(written)
  PROVE  StatusIsTrue'
BY DEF PersistStatus, StatusIsTrue

\* Whatever callers, loops and callbacks do at the same time, the status file
\* tells whether the heart runs once no stop() is in progress, unless a write
\* of it or the known loop has ended in an exception since it was written.
THEOREM StatusStaysTrue == Spec => []StatusIsTrue
<1>1. Init => StatusIsTrue
  BY DEF Init, StatusIsTrue, Running
<1>2. Shape /\ StatusIsTrue /\ [Next]_vars => StatusIsTrue'
  <2> SUFFICES ASSUME Shape, StatusIsTrue, [Next]_vars
               PROVE  StatusIsTrue'
    OBVIOUS
  <2>1. ASSUME UNCHANGED <<thread, stop_event, worker, caller, shown_running, unpublished>>
        PROVE  StatusIsTrue'
    BY <2>1 DEF StatusIsTrue, Running, LoopAlive, Alive
  <2>2. ASSUME NEW c \in Callers, Stop(c)
        PROVE  StatusIsTrue'
    <3>1. caller'[c] = thread /\ thread # NoThread
      BY <2>2 DEF Stop, Running, Shape
    <3> QED BY <3>1 DEF StatusIsTrue
  <2>3. ASSUME NEW w \in Workers,
               Pulse(w) \/ Check(w) \/ Collect(w) \/ Call(w) \/ Escape(w)
        PROVE  StatusIsTrue'
    <3>1. UNCHANGED <<shown_running, unpublished, caller>>
      BY <2>3 DEF Pulse, Check, Collect, Call, Escape, status
    <3>2. ~Die(w)
      BY <2>3 DEF Pulse, Check, Collect, Call, Escape, Die, Alive
    <3>3. Running' <=> Running
      BY <2>3, <3>2, WorkKeepsLoops DEF Work, Running, Shape
    <3> QED BY <3>1, <3>3 DEF StatusIsTrue, Running
  <2>4. ASSUME NEW w \in Workers, Die(w)
        PROVE  StatusIsTrue'
    <3>1. CASE thread = w /\ ~worker[w].once
      BY <2>4, <3>1 DEF Die, StatusIsTrue
    <3>2. CASE ~(thread = w /\ ~worker[w].once)
      <4>1. UNCHANGED <<shown_running, caller, thread, stop_event>> /\ (unpublished \/ ~unpublished')
        BY <2>4, <3>2 DEF Die
      <4>2. Running' <=> Running
        <5>1. CASE thread = w
          <6>1. ~LoopAlive(w) /\ ~LoopAlive(w)'
            BY <2>4, <3>2, <5>1, WorkKeepsLoops DEF Work, LoopAlive
          <6> QED BY <4>1, <5>1, <6>1 DEF Running
        <5>2. CASE thread # w
          BY <2>4, <4>1, <5>2, WorkKeepsLoops DEF Work, Running, Shape
        <5> QED BY <5>1, <5>2
      <4>3. unpublished' => unpublished
        BY <2>4, <3>2 DEF Die
      <4>4. unpublished => unpublished'
        BY <2>4 DEF Die
      <4> QED BY <4>1, <4>2, <4>3, <4>4 DEF StatusIsTrue, Running
    <3> QED BY <3>1, <3>2
  <2>5. ASSUME NEW j \in Jobs, Elapse(j)
        PROVE  StatusIsTrue'
    BY <2>1, <2>5 DEF Elapse, status
  <2>6. CASE UNCHANGED vars
    BY <2>1, <2>6 DEF vars, status
  <2>7. ASSUME NEW c \in Callers, NEW written \in BOOLEAN,
               \/ \E j \in Jobs, immediately \in BOOLEAN :
                    RegisterJob(c, j, immediately, written)
               \/ \E w \in Workers : Start(c, w, written)
               \/ Stopped(c, written)
        PROVE  StatusIsTrue'
    BY <2>7, WrittenIsTrue DEF RegisterJob, Start, Stopped
  <2>8. ASSUME NEW w \in Workers, NEW written \in BOOLEAN,
               Tick(w, written) \/ \E result \in Results : Return(w, result, written)
        PROVE  StatusIsTrue'
    BY <2>8, WrittenIsTrue DEF Tick, Return
  <2> QED BY <2>2, <2>3, <2>4, <2>5, <2>6, <2>7, <2>8 DEF Next, Work
<1> QED BY <1>1, <1>2, ShapeInit, ShapeNext, PTL DEF Spec

-----------------------------------------------------------------------------
(* Live loops are stoppable.                                               *)

\* The assumption under which stop() and start() do not overlap.
OneCallerOnly == \A c, d \in Callers : c = d

\* A stop() in progress has set the event.
StoppingIsSignalled ==
  (\E c \in Callers : caller[c] # NoThread) => stop_event

\* While the event is clear and a loop is alive, the service knows of a loop,
\* of that one or of one that an exception has ended.
LoopIsKnown ==
  ~stop_event /\ (\E w \in Workers : LoopAlive(w)) => thread # NoThread

HeartInv == Shape /\ StoppingIsSignalled /\ LoopIsKnown

LEMMA HeartInvNext ==
  ASSUME OneCallerOnly, HeartInv, [Next]_vars
  PROVE  HeartInv'
<1> USE DEF HeartInv
<1>0. Shape'
  BY ShapeNext
<1>1. ASSUME UNCHANGED <<thread, stop_event, worker, caller>>
      PROVE  HeartInv'
  BY <1>0, <1>1 DEF StoppingIsSignalled, LoopIsKnown, LoopAlive, Alive
<1>2. ASSUME NEW c \in Callers, NEW w \in Workers, NEW written \in BOOLEAN,
             Start(c, w, written)
      PROVE  HeartInv'
  <2>1. \A d \in Callers : caller'[d] = NoThread
    BY <1>2 DEF Start, OneCallerOnly
  <2>2. thread' # NoThread
    BY <1>2, ThreadAssumption DEF Start
  <2> QED BY <1>0, <2>1, <2>2 DEF StoppingIsSignalled, LoopIsKnown
<1>3. ASSUME NEW c \in Callers, Stop(c)
      PROVE  HeartInv'
  BY <1>0, <1>3 DEF Stop, StoppingIsSignalled, LoopIsKnown
<1>4. ASSUME NEW c \in Callers, NEW written \in BOOLEAN, Stopped(c, written)
      PROVE  HeartInv'
  <2>1. stop_event /\ stop_event' = stop_event
    BY <1>4 DEF Stopped, StoppingIsSignalled
  <2> QED BY <1>0, <2>1 DEF StoppingIsSignalled, LoopIsKnown
<1>5. ASSUME NEW w \in Workers, Work(w) \/ Pulse(w)
      PROVE  HeartInv'
  BY <1>0, <1>5, WorkKeepsLoops DEF StoppingIsSignalled, LoopIsKnown
<1>6. ASSUME NEW c \in Callers, NEW j \in Jobs, NEW immediately \in BOOLEAN,
             NEW written \in BOOLEAN, RegisterJob(c, j, immediately, written)
      PROVE  HeartInv'
  BY <1>1, <1>6 DEF RegisterJob
<1>7. ASSUME NEW j \in Jobs, Elapse(j)
      PROVE  HeartInv'
  BY <1>1, <1>7 DEF Elapse
<1>8. CASE UNCHANGED vars
  BY <1>1, <1>8 DEF vars
<1> QED BY <1>2, <1>3, <1>4, <1>5, <1>6, <1>7, <1>8 DEF Next

\* With one application thread, stop() can reach whatever loop still runs,
\* also one that an earlier stop() gave up waiting for, unless the loop the
\* service knows has died of an exception and start() has to come first.
THEOREM OneCallerReachesLoop ==
  ASSUME OneCallerOnly
  PROVE  Spec => []LiveLoopIsStoppable
<1>1. Init => HeartInv
  BY ShapeInit DEF Init, HeartInv, StoppingIsSignalled, LoopIsKnown,
                   LoopAlive, Alive, Free
<1>2. HeartInv /\ [Next]_vars => HeartInv'
  BY HeartInvNext
<1>3. HeartInv => LiveLoopIsStoppable
  BY DEF HeartInv, LoopIsKnown, LiveLoopIsStoppable, Running
<1> QED BY <1>1, <1>2, <1>3, PTL DEF Spec

-----------------------------------------------------------------------------
(* The types.  Collecting is a recursion over the registered jobs; that it  *)
(* has a solution, and what the solution consists of, is shown by the least *)
(* number of jobs for which it were not so.                                 *)

DueStep(F, n) ==
  IF n = 0 THEN <<>>
  ELSE IF jobs[n] \in due THEN Append(F[n - 1], jobs[n])
  ELSE F[n - 1]

DueSolved(F, n) == \A k \in 0 .. n : F[k] = DueStep(F, k)

LEMMA DueStepType ==
  ASSUME jobs \in Seq(Jobs), NEW n \in 0 .. Len(jobs), NEW F,
         n # 0 => F[n - 1] \in Seq(Jobs)
  PROVE  DueStep(F, n) \in Seq(Jobs)
<1>1. n # 0 => jobs[n] \in Jobs
  OBVIOUS
<1>2. CASE n = 0
  BY <1>2 DEF DueStep
<1>3. CASE n # 0
  <2>1. Append(F[n - 1], jobs[n]) \in Seq(Jobs)
    BY <1>1, <1>3
  <2> QED BY <1>3, <2>1 DEF DueStep
<1> QED BY <1>2, <1>3

LEMMA DueSolvable ==
  ASSUME jobs \in Seq(Jobs), NEW n \in 0 .. Len(jobs)
  PROVE  \E F \in [0 .. Len(jobs) -> Seq(Jobs)] : DueSolved(F, n)
<1> DEFINE Bad == {k \in 0 .. Len(jobs) :
                     ~\E F \in [0 .. Len(jobs) -> Seq(Jobs)] : DueSolved(F, k)}
<1> SUFFICES ASSUME Bad # {} PROVE FALSE
  OBVIOUS
<1>1. PICK m \in Bad : \A k \in Bad : m <= k
  <2>1. Bad \in SUBSET Nat
    OBVIOUS
  <2> HIDE DEF Bad
  <2> QED BY <2>1, LeastNatural
<1>2. CASE m = 0
  <2> DEFINE F == [k \in 0 .. Len(jobs) |-> <<>>]
  <2>1. F \in [0 .. Len(jobs) -> Seq(Jobs)]
    OBVIOUS
  <2>2. DueSolved(F, 0)
    BY DEF DueSolved, DueStep
  <2> HIDE DEF F
  <2> QED BY <1>1, <1>2, <2>1, <2>2
<1>3. CASE m # 0
  <2>1. m \in 0 .. Len(jobs) /\ m - 1 \in 0 .. Len(jobs) /\ ~(m <= m - 1)
    BY <1>3
  <2>2. m - 1 \notin Bad
    <3> HIDE DEF Bad
    <3> QED BY <1>1, <2>1
  <2>3. PICK G \in [0 .. Len(jobs) -> Seq(Jobs)] : DueSolved(G, m - 1)
    BY <2>1, <2>2
  <2> DEFINE F == [G EXCEPT ![m] = DueStep(G, m)]
  <2>4. DueStep(G, m) \in Seq(Jobs)
    BY <2>1, <1>3, DueStepType
  <2>5. /\ F \in [0 .. Len(jobs) -> Seq(Jobs)] /\ F[m] = DueStep(G, m)
        /\ \A k \in 0 .. m - 1 : F[k] = G[k]
    BY <2>1, <2>4
  <2> HIDE DEF F
  <2>6. ASSUME NEW k \in 0 .. m PROVE F[k] = DueStep(F, k)
    <3>1. k # 0 => F[k - 1] = G[k - 1]
      BY <2>1, <2>5
    <3>2. DueStep(F, k) = DueStep(G, k)
      BY <3>1 DEF DueStep
    <3>3. CASE k = m
      BY <3>2, <3>3, <2>5
    <3>4. CASE k # m
      <4>1. k \in 0 .. m - 1
        BY <2>1, <3>4
      <4> QED BY <4>1, <3>2, <2>3, <2>5 DEF DueSolved
    <3> QED BY <3>3, <3>4
  <2>7. DueSolved(F, m)
    BY <2>6 DEF DueSolved
  <2> QED BY <1>1, <2>5, <2>7
<1> QED BY <1>2, <1>3

\* What is collected are registered jobs.
LEMMA DueType ==
  ASSUME jobs \in Seq(Jobs) PROVE DueAmong[Len(jobs)] \in Seq(Jobs)
<1>0. Len(jobs) \in Nat
  OBVIOUS
<1>1. PICK G \in [0 .. Len(jobs) -> Seq(Jobs)] : DueSolved(G, Len(jobs))
  BY <1>0, DueSolvable
<1>2. G = [n \in 0 .. Len(jobs) |-> DueStep(G, n)]
  BY <1>1 DEF DueSolved
<1>3. DueAmong = CHOOSE F : F = [n \in 0 .. Len(jobs) |-> DueStep(F, n)]
  BY DEF DueAmong, DueStep
<1>4. DueAmong = [n \in 0 .. Len(jobs) |-> DueStep(DueAmong, n)]
  BY <1>2, <1>3
<1> DEFINE Bad == {n \in 0 .. Len(jobs) : DueAmong[n] \notin Seq(Jobs)}
<1>5. Bad = {}
  <2> SUFFICES ASSUME Bad # {} PROVE FALSE
    OBVIOUS
  <2>1. PICK m \in Bad : \A k \in Bad : m <= k
    <3>1. Bad \in SUBSET Nat
      OBVIOUS
    <3> HIDE DEF Bad
    <3> QED BY <3>1, LeastNatural
  <2>2. m # 0 => m - 1 \in 0 .. Len(jobs) /\ ~(m <= m - 1)
    OBVIOUS
  <2>3. m # 0 => m - 1 \notin Bad
    <3> HIDE DEF Bad
    <3> QED BY <2>1, <2>2
  <2>4. m # 0 => DueAmong[m - 1] \in Seq(Jobs)
    BY <2>2, <2>3
  <2>5. DueStep(DueAmong, m) \in Seq(Jobs)
    BY <2>4, DueStepType
  <2>6. DueAmong[m] = DueStep(DueAmong, m)
    BY <1>4
  <2> QED BY <2>1, <2>5, <2>6
<1> QED BY <1>0, <1>5

LEMMA LatestType ==
  ASSUME NEW S, NEW q \in Seq(S), NEW e \in S, Len(q) <= HistoryLimit
  PROVE  /\ Latest(Append(q, e)) \in Seq(S)
         /\ Len(Latest(Append(q, e))) <= HistoryLimit
<1> DEFINE r == Append(q, e)
<1>1. r \in Seq(S) /\ Len(r) \in Nat /\ Len(r) <= HistoryLimit + 1 /\ HistoryLimit \in Nat \ {0}
  BY HistoryLimitAssumption
<1> HIDE DEF r
<1>2. CASE Len(r) <= HistoryLimit
  BY <1>1, <1>2 DEF Latest, r
<1>3. CASE ~(Len(r) <= HistoryLimit)
  <2>1. Len(r) = HistoryLimit + 1 /\ Len(r) - HistoryLimit + 1 = 2
    BY <1>1, <1>3
  <2>2. Latest(r) = SubSeq(r, 2, Len(r))
    BY <1>3, <2>1 DEF Latest
  <2>3. SubSeq(r, 2, Len(r)) \in Seq(S) /\ Len(SubSeq(r, 2, Len(r))) = HistoryLimit
    BY <1>1, <2>1
  <2> QED BY <1>1, <2>2, <2>3 DEF r
<1> QED BY <1>2, <1>3

(* A thread in a callback has the job it calls in front of it.              *)
HeartTypes ==
  /\ HeartTypeOK
  /\ \A w \in Workers : worker[w].phase = "callback" => worker[w].todo # <<>>

LEMMA HeartTypesInit == Init => HeartTypes
<1> SUFFICES ASSUME Init PROVE HeartTypes
  OBVIOUS
<1>1. Free \in WorkerState /\ Free.phase = "free"
  BY DEF Free, WorkerState, Phases
<1>2. worker \in [Workers -> WorkerState] /\ \A w \in Workers : worker[w].phase = "free"
  BY <1>1 DEF Init
<1>3. /\ history \in Seq(Outputs) /\ Len(history) <= HistoryLimit
      /\ jobs \in Seq(Jobs) /\ frame \in Outputs
  BY HistoryLimitAssumption DEF Init, Outputs
<1>4. due \subseteq Registered
  BY DEF Init
<1> QED BY <1>2, <1>3, <1>4 DEF Init, HeartTypes, HeartTypeOK

\* A step that changes one thread, and the due jobs and the history with it.
LEMMA WorkerTypes ==
  ASSUME HeartTypes, NEW w \in Workers, NEW x \in WorkerState,
         worker' = [worker EXCEPT ![w] = x],
         x.phase = "callback" => x.todo # <<>>,
         UNCHANGED <<stop_event, jobs, caller>>,
         thread' \in Workers \union {NoThread}, due' \subseteq due,
         history' \in Seq(Outputs), Len(history') <= HistoryLimit,
         frame' \in Outputs, shown_running' \in BOOLEAN, unpublished' \in BOOLEAN
  PROVE  HeartTypes'
<1>1. worker' \in [Workers -> WorkerState]
  BY DEF HeartTypes, HeartTypeOK
<1>2. \A v \in Workers : worker'[v] = IF v = w THEN x ELSE worker[v]
  BY DEF HeartTypes, HeartTypeOK
<1>3. due' \subseteq Registered'
  BY DEF HeartTypes, HeartTypeOK, Registered
<1>4. \A v \in Workers : worker'[v].phase = "callback" => worker'[v].todo # <<>>
  BY <1>2 DEF HeartTypes
<1> QED BY <1>1, <1>3, <1>4 DEF HeartTypes, HeartTypeOK

LEMMA WorkTypes ==
  ASSUME HeartTypes, NEW w \in Workers, Work(w) \/ Pulse(w)
  PROVE  HeartTypes'
<1> USE DEF WorkerState, Phases
<1>0. /\ worker[w] \in WorkerState /\ jobs \in Seq(Jobs)
      /\ history \in Seq(Outputs) /\ Len(history) <= HistoryLimit
      /\ thread \in Workers \union {NoThread}
      /\ frame \in Outputs /\ shown_running \in BOOLEAN /\ unpublished \in BOOLEAN
      /\ worker \in [Workers -> WorkerState]
  BY DEF HeartTypes, HeartTypeOK
<1>a. Running' \in BOOLEAN
  BY DEF Running
<1>b. Raising(w) \in WorkerState /\ Raising(w).phase # "callback"
  BY <1>0 DEF Raising
<1>c. status' = status => UNCHANGED <<shown_running, unpublished>>
  BY DEF status
<1>1. CASE Check(w)
  <2> DEFINE x == IF stop_event THEN Free ELSE [worker[w] EXCEPT !.phase = "collect"]
  <2>1. worker' = [worker EXCEPT ![w] = x]
        /\ UNCHANGED <<thread, stop_event, jobs, due, history, frame, status, caller>>
    BY <1>1 DEF Check
  <2>2. x \in WorkerState /\ x.phase # "callback"
    <3>1. Free \in WorkerState /\ Free.phase # "callback"
      BY DEF Free
    <3>2. /\ [worker[w] EXCEPT !.phase = "collect"] \in WorkerState
          /\ [worker[w] EXCEPT !.phase = "collect"].phase # "callback"
      BY <1>0
    <3> QED BY <3>1, <3>2
  <2> HIDE DEF x
  <2> QED BY <1>0, <1>c, <2>1, <2>2, WorkerTypes
<1>2. CASE Collect(w)
  <2> DEFINE x == [worker[w] EXCEPT !.phase = "run", !.todo = DueAmong[Len(jobs)]]
  <2>1. worker' = [worker EXCEPT ![w] = x]
        /\ UNCHANGED <<thread, stop_event, jobs, due, history, frame, status, caller>>
    BY <1>2 DEF Collect
  <2>2. DueAmong[Len(jobs)] \in Seq(Jobs)
    BY <1>0, DueType
  <2>3. x \in WorkerState /\ x.phase # "callback"
    BY <1>0, <2>2
  <2> HIDE DEF x
  <2> QED BY <1>0, <1>c, <2>1, <2>3, WorkerTypes
<1>3. CASE Call(w)
  <2> DEFINE x == [worker[w] EXCEPT !.phase = "callback"]
  <2>1. worker' = [worker EXCEPT ![w] = x] /\ worker[w].todo # <<>>
        /\ UNCHANGED <<thread, stop_event, jobs, due, history, frame, status, caller>>
    BY <1>3 DEF Call
  <2>2. x \in WorkerState /\ x.todo # <<>>
    BY <1>0, <2>1
  <2> HIDE DEF x
  <2> QED BY <1>0, <1>c, <2>1, <2>2, WorkerTypes
<1>4. ASSUME NEW result \in Results, NEW written \in BOOLEAN, Return(w, result, written)
      PROVE  HeartTypes'
  <2> DEFINE y == [worker[w] EXCEPT !.phase = "run", !.todo = Tail(worker[w].todo)]
             x == IF written THEN y ELSE Raising(w)
             e == OutputOf(result)
  <2>1. /\ worker[w].phase = "callback"
        /\ due' \subseteq due /\ history' = Latest(Append(history, e))
        /\ frame' = frame \/ (frame' = result /\ result # "failed")
        /\ UNCHANGED <<thread, stop_event, jobs, caller>>
    BY <1>4 DEF Return
  <2>a. worker' = [worker EXCEPT ![w] = x]
    <3>1. CASE written
      BY <1>4, <3>1 DEF Return
    <3>2. CASE ~written
      BY <1>4, <3>2 DEF Return
    <3> QED BY <3>1, <3>2
  <2>b. shown_running' \in BOOLEAN /\ unpublished' \in BOOLEAN
    BY <1>0, <1>a, <1>4 DEF Return, PersistStatus
  <2>2. worker[w].todo \in Seq(Jobs) /\ worker[w].todo # <<>>
    BY <1>0, <2>1 DEF HeartTypes
  <2>3. Tail(worker[w].todo) \in Seq(Jobs)
    BY <2>2
  <2>4. y \in WorkerState /\ y.phase # "callback"
    BY <1>0, <2>3
  <2>5. e \in Outputs /\ frame' \in Outputs
    BY <1>0, <2>1 DEF OutputOf, Results, Outputs
  <2> HIDE DEF e, y
  <2>6. x \in WorkerState /\ x.phase # "callback"
    BY <1>b, <2>4
  <2>7. history' \in Seq(Outputs) /\ Len(history') <= HistoryLimit
    BY <1>0, <2>1, <2>5, LatestType
  <2> HIDE DEF x
  <2> QED BY <1>0, <2>1, <2>a, <2>b, <2>5, <2>6, <2>7, WorkerTypes
<1>5. ASSUME NEW written \in BOOLEAN, Tick(w, written) PROVE HeartTypes'
  <2> DEFINE y == [worker[w] EXCEPT !.phase = "check"]
             x == IF ~written THEN Raising(w) ELSE IF worker[w].once THEN Free ELSE y
  <2>1. /\ worker' = [worker EXCEPT ![w] = x]
        /\ UNCHANGED <<thread, stop_event, jobs, due, history, frame, caller>>
        /\ shown_running' \in BOOLEAN /\ unpublished' \in BOOLEAN
    BY <1>0, <1>a, <1>5 DEF Tick, PersistStatus
  <2>2. Free \in WorkerState /\ Free.phase # "callback"
    BY DEF Free
  <2>3. y \in WorkerState /\ y.phase # "callback"
    BY <1>0
  <2> HIDE DEF y
  <2>4. x \in WorkerState /\ x.phase # "callback"
    BY <1>b, <2>2, <2>3
  <2> HIDE DEF x
  <2> QED BY <1>0, <1>c, <2>1, <2>4, WorkerTypes
<1>6. CASE Escape(w)
  <2>1. worker' = [worker EXCEPT ![w] = Raising(w)]
        /\ UNCHANGED <<thread, stop_event, jobs, due, history, frame, status, caller>>
    BY <1>6 DEF Escape
  <2> QED BY <1>0, <1>b, <1>c, <2>1, WorkerTypes
<1>8. CASE Die(w)
  <2>1. worker' = [worker EXCEPT ![w] = Free]
        /\ UNCHANGED <<thread, stop_event, jobs, due, history, frame, shown_running, caller>>
        /\ unpublished' \in BOOLEAN
    BY <1>8 DEF Die
  <2>2. Free \in WorkerState /\ Free.phase # "callback"
    BY DEF Free
  <2> QED BY <1>0, <1>c, <2>1, <2>2, WorkerTypes
<1>7. CASE Pulse(w)
  <2>1. worker' = [worker EXCEPT ![w] = Once]
        /\ UNCHANGED <<thread, stop_event, jobs, due, history, frame, status, caller>>
    BY <1>7 DEF Pulse
  <2>2. Once \in WorkerState /\ Once.phase # "callback"
    BY DEF Once
  <2> QED BY <1>0, <1>c, <2>1, <2>2, WorkerTypes
<1> QED BY <1>1, <1>2, <1>3, <1>4, <1>5, <1>6, <1>7, <1>8 DEF Work

LEMMA HeartTypesNext == HeartTypes /\ [Next]_vars => HeartTypes'
<1> SUFFICES ASSUME HeartTypes, [Next]_vars PROVE HeartTypes'
  OBVIOUS
<1> USE DEF HeartTypes, HeartTypeOK
<1>a. Running' \in BOOLEAN
  BY DEF Running
<1>1. ASSUME NEW c \in Callers, NEW j \in Jobs, NEW immediately \in BOOLEAN,
             NEW written \in BOOLEAN, RegisterJob(c, j, immediately, written)
      PROVE  HeartTypes'
  <2>1. /\ jobs' = Append(jobs, j) /\ due' \subseteq due \union {j}
        /\ UNCHANGED <<thread, stop_event, history, frame, worker, caller>>
        /\ shown_running' \in BOOLEAN /\ unpublished' \in BOOLEAN
    BY <1>1, <1>a DEF RegisterJob, PersistStatus
  <2>2. /\ jobs' \in Seq(Jobs) /\ DOMAIN jobs = 1 .. Len(jobs) /\ Len(jobs) \in Nat
        /\ DOMAIN jobs' = 1 .. (Len(jobs) + 1)
        /\ jobs'[Len(jobs) + 1] = j
        /\ \A i \in 1 .. Len(jobs) : jobs'[i] = jobs[i]
    BY <2>1
  <2>3. Registered \subseteq Registered' /\ j \in Registered'
    <3>1. ASSUME NEW i \in DOMAIN jobs PROVE jobs[i] \in Registered'
      <4>1. i \in DOMAIN jobs' /\ jobs'[i] = jobs[i]
        BY <2>2
      <4> QED BY <4>1 DEF Registered
    <3>2. j \in Registered'
      <4>1. Len(jobs) + 1 \in DOMAIN jobs'
        BY <2>2
      <4> QED BY <2>2, <4>1 DEF Registered
    <3> QED BY <3>1, <3>2 DEF Registered
  <2>4. due' \subseteq Registered'
    BY <2>1, <2>3
  <2> QED BY <2>1, <2>2, <2>4
<1>2. ASSUME NEW c \in Callers, NEW w \in Workers, NEW written \in BOOLEAN,
             Start(c, w, written)
      PROVE  HeartTypes'
  <2>1. /\ stop_event' = FALSE /\ thread' = w /\ worker' = [worker EXCEPT ![w] = Loop]
        /\ UNCHANGED <<jobs, due, history, frame, caller>>
        /\ shown_running' \in BOOLEAN /\ unpublished' \in BOOLEAN
    BY <1>2, <1>a DEF Start, PersistStatus
  <2>2. Loop \in WorkerState /\ Loop.phase # "callback"
    BY DEF Loop, WorkerState, Phases
  <2>3. worker' \in [Workers -> WorkerState]
    BY <2>1, <2>2
  <2>4. \A v \in Workers : worker'[v].phase = "callback" => worker'[v].todo # <<>>
    BY <2>1, <2>2
  <2>5. due' \subseteq Registered'
    BY <2>1 DEF Registered
  <2> QED BY <2>1, <2>3, <2>4, <2>5
<1>3. ASSUME NEW c \in Callers, NEW written \in BOOLEAN, Stop(c) \/ Stopped(c, written)
      PROVE  HeartTypes'
  <2>1. /\ stop_event' \in BOOLEAN /\ thread' \in Workers \union {NoThread}
        /\ \E x \in Workers \union {NoThread} : caller' = [caller EXCEPT ![c] = x]
        /\ UNCHANGED <<jobs, due, history, frame, worker>>
        /\ shown_running' \in BOOLEAN /\ unpublished' \in BOOLEAN
    BY <1>3, <1>a DEF Stop, Stopped, PersistStatus, status
  <2>2. caller' \in [Callers -> Workers \union {NoThread}]
    BY <2>1
  <2>3. due' \subseteq Registered'
    BY <2>1 DEF Registered
  <2> QED BY <2>1, <2>2, <2>3
<1>4. ASSUME NEW j \in Jobs, Elapse(j) PROVE HeartTypes'
  <2>1. due' \subseteq Registered'
    BY <1>4 DEF Elapse, Registered
  <2> QED BY <1>4, <2>1 DEF Elapse, status
<1>5. CASE UNCHANGED vars
  <2>1. due' \subseteq Registered'
    BY <1>5 DEF vars, Registered
  <2> QED BY <1>5, <2>1 DEF vars, status
<1> QED BY <1>1, <1>2, <1>3, <1>4, <1>5, WorkTypes DEF Next

\* Whatever is registered and run by however many threads: what is due is
\* registered, what is called was collected, and the history stays bounded.
THEOREM HeartTypeCorrect == Spec => []HeartTypeOK
<1>1. HeartTypes => HeartTypeOK
  BY DEF HeartTypes
<1> QED BY <1>1, HeartTypesInit, HeartTypesNext, PTL DEF Spec

=============================================================================
