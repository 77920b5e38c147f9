------------------------------- MODULE Heart -------------------------------
(***************************************************************************)
(* The heartbeat scheduler (heart.py).  start() spawns a background loop;  *)
(* stop() sets the one stop event all loops share, waits for the current   *)
(* loop outside the lock for a bounded time, and then forgets it, whether  *)
(* it has ended or not.  A loop collects the due jobs under the lock and   *)
(* runs their callbacks outside it, so callers, loops and callbacks        *)
(* interleave everywhere between the critical sections, which are the      *)
(* actions below.  Most of them end by rewriting the status file, outside  *)
(* any handler: when that raises, the state has changed, the file has not, *)
(* and the thread unwinds, out of its loop if it is one.                   *)
(***************************************************************************)
EXTENDS Naturals, Sequences

CONSTANTS
  Callers,       \* threads of the application that use the service
  Workers,       \* bound on the threads running jobs at one time
  Jobs,          \* names of the jobs that may be registered
  MetricsJob,    \* the job named "collect_metrics"
  HistoryLimit   \* history_limit

ASSUME HistoryLimitAssumption == HistoryLimit \in Nat \ {0}

VARIABLES
  thread,        \* _thread: the loop the service knows of
  stop_event,    \* _stop_event
  jobs,          \* _jobs, in the order they were registered
  due,           \* the jobs whose next_run_monotonic has passed
  history,       \* _history: the outputs of the jobs run last
  frame,         \* _last_coherence_frame
  shown_running, \* the "running" flag of heart_status.json
  unpublished,   \* since that file was written, a write of it or the known
                 \* loop has ended in an exception (auxiliary)
  worker,        \* per thread running jobs: where it is and what is left to run
  caller         \* per caller: the loop its stop() is waiting for

status == <<shown_running, unpublished>>
vars == <<thread, stop_event, jobs, due, history, frame, status, worker, caller>>

NoThread == "no thread"

ASSUME ThreadAssumption == NoThread \notin Workers

-----------------------------------------------------------------------------
(* A thread running jobs is either the loop of a start() or a caller in its *)
(* own run_due_jobs_once, which ends after one round.                      *)

Phases == {"free", "check", "collect", "run", "callback", "raise"}

WorkerState == [phase : Phases, todo : Seq(Jobs), once : BOOLEAN]

Free == [phase |-> "free", todo |-> <<>>, once |-> FALSE]
Loop == [phase |-> "check", todo |-> <<>>, once |-> FALSE]
Once == [phase |-> "collect", todo |-> <<>>, once |-> TRUE]

\* A thread that an exception unwinds, with the rest of its round dropped.
Raising(w) == [phase |-> "raise", todo |-> <<>>, once |-> worker[w].once]

Alive(w) == worker[w].phase # "free"
LoopAlive(w) == Alive(w) /\ ~worker[w].once

Registered == {jobs[i] : i \in DOMAIN jobs}

\* The `running` property.
Running == thread # NoThread /\ LoopAlive(thread) /\ ~stop_event

\* A callback returns a dict that json can write, or one that it cannot, or
\* raises, which counts as a failed job with an empty output.
Outputs == {"plain", "unwritable"}
Results == Outputs \union {"failed"}

OutputOf(result) == IF result = "failed" THEN "plain" ELSE result

\* The status quotes the last outputs and the last metrics.
Writable ==
  /\ frame # "unwritable"
  /\ \A i \in DOMAIN history : history[i] # "unwritable"

\* Variant of PersistStatus that writes nothing once the heart is stopped.
PersistWhileRunning(written) ==
  /\ written => Writable'
  /\ shown_running' = IF written /\ Running' THEN TRUE ELSE shown_running
  /\ unpublished' = ~written

\* _persist_status, at the end of a critical section: the file is replaced, or
\* json or the file system raises and leaves the file as it was.
PersistStatus(written) ==
  /\ written => Writable'
  /\ shown_running' = IF written THEN Running' ELSE shown_running
  /\ unpublished' = ~written

Init ==
  /\ thread = NoThread
  /\ stop_event = FALSE
  /\ jobs = <<>>
  /\ due = {}
  /\ history = <<>>
  /\ frame = "plain"
  /\ shown_running = FALSE
  /\ unpublished = FALSE
  /\ worker = [w \in Workers |-> Free]
  /\ caller = [c \in Callers |-> NoThread]

-----------------------------------------------------------------------------
(* Callers.  A status that is not written raises to the caller, who finds   *)
(* the job registered, the loop started or forgotten all the same.         *)

\* A job is due from the start if it is to run immediately.
RegisterJob(c, j, immediately, written) ==
  /\ caller[c] = NoThread
  /\ j \notin Registered
  /\ jobs' = Append(jobs, j)
  /\ due' = IF immediately THEN due \union {j} ELSE due
  /\ UNCHANGED <<thread, stop_event, history, frame, worker, caller>>
  /\ PersistStatus(written)

Start(c, w, written) ==
  /\ caller[c] = NoThread
  /\ ~Running
  /\ ~Alive(w)
  /\ stop_event' = FALSE
  /\ thread' = w
  /\ worker' = [worker EXCEPT ![w] = Loop]
  /\ UNCHANGED <<jobs, due, history, frame, caller>>
  /\ PersistStatus(written)

\* Variant of Stop that waits for the loop without telling it to stop.
StopUnsignalled(c) ==
  /\ caller[c] = NoThread
  /\ Running
  /\ caller' = [caller EXCEPT ![c] = thread]
  /\ UNCHANGED <<thread, stop_event, jobs, due, history, frame, status, worker>>

\* stop, up to its join.
Stop(c) ==
  /\ caller[c] = NoThread
  /\ Running
  /\ stop_event' = TRUE
  /\ caller' = [caller EXCEPT ![c] = thread]
  /\ UNCHANGED <<thread, jobs, due, history, frame, status, worker>>

\* The join returns, because the loop has ended or because it timed out.
Stopped(c, written) ==
  /\ caller[c] # NoThread
  /\ thread' = NoThread
  /\ caller' = [caller EXCEPT ![c] = NoThread]
  /\ UNCHANGED <<stop_event, jobs, due, history, frame, worker>>
  /\ PersistStatus(written)

\* run_due_jobs_once called directly.
Pulse(w) ==
  /\ ~Alive(w)
  /\ worker' = [worker EXCEPT ![w] = Once]
  /\ UNCHANGED <<thread, stop_event, jobs, due, history, frame, status, caller>>

-----------------------------------------------------------------------------
(* Threads running jobs.                                                   *)

\* Variant of Check that never looks at the stop event.
CheckNothing(w) ==
  /\ worker[w].phase = "check"
  /\ worker' = [worker EXCEPT ![w].phase = "collect"]
  /\ UNCHANGED <<thread, stop_event, jobs, due, history, frame, status, caller>>

\* The wait between two rounds, which a stop cuts short, and the head of
\* _run_loop.
Check(w) ==
  /\ worker[w].phase = "check"
  /\ worker' = [worker EXCEPT ![w] =
                  IF stop_event THEN Free ELSE [@ EXCEPT !.phase = "collect"]]
  /\ UNCHANGED <<thread, stop_event, jobs, due, history, frame, status, caller>>

\* The due jobs among the first n, in the order they were registered.
DueAmong[n \in 0 .. Len(jobs)] ==
  IF n = 0 THEN <<>>
  ELSE IF jobs[n] \in due THEN Append(DueAmong[n - 1], jobs[n])
  ELSE DueAmong[n - 1]

Collect(w) ==
  /\ worker[w].phase = "collect"
  /\ worker' = [worker EXCEPT ![w].phase = "run", ![w].todo = DueAmong[Len(jobs)]]
  /\ UNCHANGED <<thread, stop_event, jobs, due, history, frame, status, caller>>

\* _execute_job up to the callback.
Call(w) ==
  /\ worker[w].phase = "run"
  /\ worker[w].todo # <<>>
  /\ worker' = [worker EXCEPT ![w].phase = "callback"]
  /\ UNCHANGED <<thread, stop_event, jobs, due, history, frame, status, caller>>

\* Variant of Latest that keeps one result too many.
LatestAndOne(results) ==
  IF Len(results) <= HistoryLimit + 1 THEN results
  ELSE SubSeq(results, Len(results) - HistoryLimit, Len(results))

Latest(results) ==
  IF Len(results) <= HistoryLimit THEN results
  ELSE SubSeq(results, Len(results) - HistoryLimit + 1, Len(results))

\* Variant of Return that does not reschedule a job that failed.
ReturnUnscheduled(w, result, written) ==
  LET j == Head(worker[w].todo) IN
  /\ worker[w].phase = "callback"
  /\ due' = IF result = "failed" THEN due ELSE due \ {j}
  /\ history' = Latest(Append(history, OutputOf(result)))
  /\ frame' = IF j = MetricsJob /\ result # "failed" THEN result ELSE frame
  /\ worker' = [worker EXCEPT ![w] =
                  IF written
                  THEN [@ EXCEPT !.phase = "run", !.todo = Tail(worker[w].todo)]
                  ELSE Raising(w)]
  /\ UNCHANGED <<thread, stop_event, jobs, caller>>
  /\ PersistStatus(written)

\* The callback has returned or raised; the job is rescheduled either way, and
\* its result kept, also when the status that quotes it cannot be written.
Return(w, result, written) ==
  LET j == Head(worker[w].todo) IN
  /\ worker[w].phase = "callback"
  /\ due' = due \ {j}
  /\ history' = Latest(Append(history, OutputOf(result)))
  /\ frame' = IF j = MetricsJob /\ result # "failed" THEN result ELSE frame
  /\ worker' = [worker EXCEPT ![w] =
                  IF written
                  THEN [@ EXCEPT !.phase = "run", !.todo = Tail(worker[w].todo)]
                  ELSE Raising(w)]
  /\ UNCHANGED <<thread, stop_event, jobs, caller>>
  /\ PersistStatus(written)

\* The callback leaves by an exception that is no Exception (SystemExit).
Escape(w) ==
  /\ worker[w].phase = "callback"
  /\ worker' = [worker EXCEPT ![w] = Raising(w)]
  /\ UNCHANGED <<thread, stop_event, jobs, due, history, frame, status, caller>>

\* The end of run_due_jobs_once.
Tick(w, written) ==
  /\ worker[w].phase = "run"
  /\ worker[w].todo = <<>>
  /\ worker' = [worker EXCEPT ![w] =
                  IF ~written THEN Raising(w)
                  ELSE IF @.once THEN Free ELSE [@ EXCEPT !.phase = "check"]]
  /\ UNCHANGED <<thread, stop_event, jobs, due, history, frame, caller>>
  /\ PersistStatus(written)

\* The exception has unwound the thread: a loop is dead, a direct call is over.
Die(w) ==
  /\ worker[w].phase = "raise"
  /\ worker' = [worker EXCEPT ![w] = Free]
  /\ unpublished' = (unpublished \/ (thread = w /\ ~worker[w].once))
  /\ UNCHANGED <<thread, stop_event, jobs, due, history, frame, shown_running, caller>>

Work(w) ==
  \/ Check(w)
  \/ Collect(w)
  \/ Call(w)
  \/ \E result \in Results, written \in BOOLEAN : Return(w, result, written)
  \/ Escape(w)
  \/ \E written \in BOOLEAN : Tick(w, written)
  \/ Die(w)

\* The monotonic clock passes a job's next run.
Elapse(j) ==
  /\ j \in Registered \ due
  /\ due' = due \union {j}
  /\ UNCHANGED <<thread, stop_event, jobs, history, frame, status, worker, caller>>

Next ==
  \/ \E c \in Callers :
       \/ \E j \in Jobs, immediately \in BOOLEAN, written \in BOOLEAN :
            RegisterJob(c, j, immediately, written)
       \/ \E w \in Workers, written \in BOOLEAN : Start(c, w, written)
       \/ Stop(c)
       \/ \E written \in BOOLEAN : Stopped(c, written)
  \/ \E w \in Workers : Pulse(w) \/ Work(w)
  \/ \E j \in Jobs : Elapse(j)

\* The operating system runs every thread, and every callback returns.
Fairness == \A w \in Workers : WF_vars(Work(w))

Spec == Init /\ [][Next]_vars /\ Fairness

-----------------------------------------------------------------------------
(* Correctness.                                                            *)

\* Every variable of the model has its type; the history stays bounded.
HeartTypeOK ==
  /\ thread \in Workers \union {NoThread}
  /\ stop_event \in BOOLEAN
  /\ jobs \in Seq(Jobs)
  /\ due \subseteq Registered
  /\ history \in Seq(Outputs) /\ Len(history) <= HistoryLimit
  /\ frame \in Outputs
  /\ shown_running \in BOOLEAN
  /\ unpublished \in BOOLEAN
  /\ worker \in [Workers -> WorkerState]
  /\ caller \in [Callers -> Workers \union {NoThread}]

\* stop() is refused only "while the heart is inactive" (HeartNotRunningError):
\* outside a stop() in progress, a loop that has not been told to stop is one
\* that stop() can reach, even one that an earlier stop() gave up waiting for,
\* as long as the loop the service knows has not died of an exception.  If it
\* has, start() may be called, and the stop() after it reaches them all.
LiveLoopIsStoppable ==
  (\A c \in Callers : caller[c] = NoThread) /\ ~stop_event
    /\ (\E w \in Workers : LoopAlive(w))
  => Running \/ (thread # NoThread /\ ~LoopAlive(thread))

\* With no stop() in progress, heart_status.json tells whether the heart runs,
\* although every job and every tick of every loop rewrites it; it may be wrong
\* only after a write of it, or the loop itself, has ended in an exception, and
\* only until the next write that succeeds.
StatusIsTrue ==
  (\A c \in Callers : caller[c] = NoThread) /\ ~unpublished
  => shown_running = Running

\* stop() settles: unless the heart is started again every loop ends, also the
\* ones earlier stop() calls gave up waiting for.
StopSettles == <>[]stop_event => <>[](\A w \in Workers : ~LoopAlive(w))

\* A due job of a running heart is run, whatever the jobs before it raise or
\* return, unless the heart ceases to run: by a stop(), or because a result or
\* the status could not be written and the exception has ended its loop.
DueJobsRun == \A j \in Jobs : j \in due /\ Running ~> j \notin due \/ ~Running
=============================================================================
