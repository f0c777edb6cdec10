------------------------------ MODULE EventLoop ------------------------------
(***************************************************************************)
(* One IJJS runtime: the program that runs in it, the queue of pending     *)
(* jobs (promise reactions), the libuv loop that ijRun drives and the      *)
(* timers of the timers module (ijvm.c, ijtimers.c, the end of main.c, and *)
(* the parts of libuv's uv_run and timer.c that they rely on).             *)
(*                                                                         *)
(* A piece of JavaScript that runs (the script, a job, a timer's callback, *)
(* an I/O handler) is a frame `js' in which the program may take any of    *)
(* the operations below, in any order, before it returns to C.             *)
(***************************************************************************)
EXTENDS Integers, Sequences

CONSTANTS
  Timers,    \* one element per call of setTimeout or setInterval
  NoTimer,   \* not a timer
  MaxDelay,  \* bound: the longest delay the program asks for
  MaxJobs,   \* bound: the most jobs that are pending at once
  MaxOps,    \* bound: how many operations the program performs
  IsWorker   \* qrt->is_worker: the runtime of a worker thread

ASSUME EventLoopAssumption ==
  /\ NoTimer \notin Timers
  /\ MaxDelay \in Nat
  /\ MaxJobs \in Nat \ {0}
  /\ MaxOps \in Nat
  /\ IsWorker \in BOOLEAN

VARIABLES
  phase,     \* where C is: a step of uv_run, or of main and ijWorkerEntry
  js,        \* the JavaScript frame on the stack, if there is one
  cur,       \* the timer uvTimerCb was called for
  jobs,      \* how many jobs rt->job_list holds
  idle,      \* whether jobs.idle is started
  io,        \* whether another referenced handle or request is active
  stopSent,  \* the stop async was sent and its callback has not run
  stopFlag,  \* loop->stop_flag
  own,       \* the prepare, idle, check and stop handles of the runtime
  heap,      \* the armed timers, in the order libuv fires them
  due,       \* time to the deadline of an armed timer, from loop->time
  late,      \* how far the clock is ahead of loop->time
  mem,       \* the IJJSTimer struct and its handle
  interval,  \* the timers with th->interval set
  repeat,    \* handle->repeat
  bound,     \* the timers whose th->obj and th->func hold references
  refs,      \* who else references the Timer object
  ops,       \* operations the program has performed
  called,    \* history: timers whose callback was called
  cleared,   \* history: timers given to clearTimeout
  tries      \* iterations of ijFreeRuntime's loop

timerVars == <<heap, due, late, mem, interval, repeat, bound, refs>>
loopVars  == <<idle, io, stopSent, stopFlag, own>>
histVars  == <<called, cleared>>
vars == <<phase, js, cur, jobs, ops, tries, timerVars, loopVars, histVars>>

\* A negative delay becomes a uint64_t that uv_timer_start clamps to the end
\* of time: its deadline never comes.
Forever == MaxDelay + 1

\* Mutant: a negative delay reaches the heap as it is.
DeadlineUnclamped(delay) == delay

Deadline(delay) == IF delay < 0 THEN Forever ELSE delay

Armed == {heap[i] : i \in DOMAIN heap}

Phases == {"script", "run", "top", "timers", "timerJobs", "fire", "callback",
           "prepare", "poll", "polled", "check", "maybeIdle", "closing",
           "failed", "returned", "closeLoop", "done", "aborted",
           "crashed"}

JSFrames == {"none", "script", "job", "timer", "io"}

-----------------------------------------------------------------------------
(***************************************************************************)
(* libuv                                                                   *)
(***************************************************************************)

\* uv_timer_start: t goes behind every timer whose deadline is not later.
Arm(h, t, d) ==
  \E n \in 0..Len(h) :
    /\ \A i \in 1..n : due[h[i]] <= d
    /\ \A i \in (n + 1)..Len(h) : due[h[i]] > d
    /\ heap' = [i \in 1..(Len(h) + 1) |-> IF i <= n THEN h[i]
                                           ELSE IF i = n + 1 THEN t ELSE h[i - 1]]
    /\ due' = [due EXCEPT ![t] = d]

\* uv_timer_stop: nothing to do for a timer that is not armed.
Disarmed(h, t, h2) ==
  \/ /\ \A i \in DOMAIN h : h[i] # t
     /\ h2 = h
  \/ \E i \in DOMAIN h :
       /\ h[i] = t
       /\ h2 = [j \in 1..(Len(h) - 1) |-> IF j < i THEN h[j] ELSE h[j + 1]]

\* uv__update_time: the deadlines move closer by the time that has passed.
UpdateTime ==
  /\ due' = [t \in Timers |-> IF due[t] = Forever THEN Forever
                              ELSE IF due[t] > late THEN due[t] - late ELSE 0]
  /\ late' = 0

\* uv__has_active_handles or uv__has_active_reqs. The prepare and check
\* handles are unreferenced; the stop handle is, except in a worker.
HasActive ==
  \/ io
  \/ idle
  \/ heap # <<>>
  \/ IsWorker /\ own = "open"

Closing == {t \in Timers : mem[t] = "closing"}

\* uv__loop_alive
LoopAlive == HasActive \/ Closing # {} \/ own = "closing"

\* uv_backend_timeout = 0: uv__io_poll returns at once.
NoWait ==
  \/ stopFlag
  \/ ~HasActive
  \/ idle
  \/ Closing # {}
  \/ heap # <<>> /\ due[Head(heap)] = 0

-----------------------------------------------------------------------------
(***************************************************************************)
(* References to a Timer object. th->obj is one; the program's are the     *)
(* others. "closure": only the timer's own callback can still reach it.    *)
(***************************************************************************)

\* Mutant: the finalizer frees the struct without waiting for the close
\* callback.
FinalizedFreesNow(t) ==
  /\ mem' = [mem EXCEPT ![t] = "freed"]
  /\ Disarmed(heap, t, heap')

\* The object dies with its last reference: ijTimerFinalizer closes the
\* handle, which disarms it. The struct stays until the close callback.
Finalized(t) ==
  /\ mem' = [mem EXCEPT ![t] = "closing"]
  /\ Disarmed(heap, t, heap')

\* t's references become r and its bindings b, and the object dies when
\* nothing is left.
Settle(t, b, r) ==
  /\ bound' = b
  /\ refs' = [refs EXCEPT ![t] = r]
  /\ IF mem[t] = "open" /\ t \notin b /\ r = "none"
     THEN Finalized(t)
     ELSE UNCHANGED <<mem, heap>>

-----------------------------------------------------------------------------
(***************************************************************************)
(* What the program may do while one of its frames runs                    *)
(***************************************************************************)

Operation == js # "none" /\ ops < MaxOps /\ ops' = ops + 1

\* ijSetTimeout; `magic' tells setInterval from setTimeout.
SetTimeout(t, delay, magic) ==
  /\ Operation
  /\ mem[t] = "none"
  /\ mem' = [mem EXCEPT ![t] = "open"]
  /\ interval' = IF magic THEN interval \cup {t} ELSE interval
  /\ repeat' = [repeat EXCEPT ![t] = IF magic THEN Deadline(delay) ELSE 0]
  /\ bound' = bound \cup {t}
  /\ refs' = [refs EXCEPT ![t] = "held"]
  /\ Arm(heap, t, Deadline(delay))
  /\ UNCHANGED <<phase, js, cur, jobs, late, tries, loopVars, histVars>>

\* The program can name t: it holds it, or t's own callback is running.
Reaches(t) ==
  \/ refs[t] = "held"
  \/ refs[t] = "closure" /\ js = "timer" /\ cur = t

\* Mutant: clearTimeout without uv_timer_stop.
StopTimerSkipped(t) == UNCHANGED heap

StopTimer(t) == Disarmed(heap, t, heap')

\* Mutant: clearTimeout without ijClearTimer.
UnbindSkipped(t) == UNCHANGED bound

\* ijClearTimer lets go of th->func, the arguments and th->obj.
Unbind(t) == bound' = bound \ {t}

\* ijClearTimeout. Its caller holds a reference, so the object does not die
\* here.
ClearTimeout(t) ==
  /\ Operation
  /\ Reaches(t)
  /\ StopTimer(t)
  /\ Unbind(t)
  /\ cleared' = cleared \cup {t}
  /\ UNCHANGED <<phase, js, cur, jobs, due, late, mem, interval, repeat, refs,
                 called, tries, loopVars>>

\* The program lets go of t, or keeps it only in the callback's closure.
DropRef(t, r) ==
  /\ Operation
  /\ refs[t] = "held"
  /\ r = "closure" => t \in bound
  /\ Settle(t, bound, r)
  /\ UNCHANGED <<phase, js, cur, jobs, due, late, interval, repeat,
                 tries, loopVars, histVars>>

\* A promise is settled or awaited: JS_EnqueueJob.
EnqueueJob ==
  /\ Operation
  /\ jobs < MaxJobs
  /\ jobs' = jobs + 1
  /\ UNCHANGED <<phase, js, cur, tries, timerVars, loopVars, histVars>>

\* A socket, a request, a child process: something else to wait for.
StartIo ==
  /\ Operation
  /\ ~io
  /\ io' = TRUE
  /\ UNCHANGED <<phase, js, cur, jobs, idle, stopSent, stopFlag, own, tries,
                 timerVars, histVars>>

Program ==
  \/ \E t \in Timers, delay \in -1..MaxDelay, magic \in BOOLEAN :
       SetTimeout(t, delay, magic)
  \/ \E t \in Timers : ClearTimeout(t)
  \/ \E t \in Timers, r \in {"none", "closure"} : DropRef(t, r)
  \/ EnqueueJob
  \/ StartIo

-----------------------------------------------------------------------------
(***************************************************************************)
(* Starting the loop                                                       *)
(***************************************************************************)

\* main: the script was evaluated. When it threw, main skips ijRun.
EndScript(ok) ==
  /\ phase = "script"
  /\ js' = "none"
  /\ phase' = IF ok THEN "run" ELSE "failed"
  /\ UNCHANGED <<cur, jobs, ops, tries, timerVars, loopVars, histVars>>

\* Mutant: the idle handle is never started.
MaybeIdleNever == UNCHANGED idle

\* uvMaybeIdle: the loop must not sleep while a job is pending.
MaybeIdle == idle' = (jobs > 0)

\* ijRun up to uv_run
Run ==
  /\ phase = "run"
  /\ MaybeIdle
  /\ phase' = "top"
  /\ UNCHANGED <<js, cur, jobs, ops, io, stopSent, stopFlag, own, tries,
                 timerVars, histVars>>

\* The head of uv_run's loop
Iterate ==
  /\ phase = "top"
  /\ LoopAlive
  /\ ~stopFlag
  /\ UpdateTime
  /\ phase' = "timers"
  /\ UNCHANGED <<js, cur, jobs, ops, tries, heap, mem, interval, repeat, bound,
                 refs, loopVars, histVars>>

LeaveLoop ==
  /\ phase = "top"
  /\ ~LoopAlive \/ stopFlag
  /\ phase' = "returned"
  /\ UNCHANGED <<js, cur, jobs, ops, tries, timerVars, loopVars, histVars>>

-----------------------------------------------------------------------------
(***************************************************************************)
(* Timers: uv__run_timers and uvTimerCb                                    *)
(***************************************************************************)

\* uv__run_timers takes the first expired timer off the heap, arms it again
\* if it repeats, and calls uvTimerCb.
RunTimer ==
  /\ phase = "timers"
  /\ heap # <<>>
  /\ due[Head(heap)] = 0
  /\ cur' = Head(heap)
  /\ \/ /\ repeat[Head(heap)] # 0
        /\ Arm(Tail(heap), Head(heap), repeat[Head(heap)])
     \/ /\ repeat[Head(heap)] = 0
        /\ heap' = Tail(heap)
        /\ UNCHANGED due
  /\ phase' = "timerJobs"
  /\ UNCHANGED <<js, jobs, ops, tries, late, mem, interval, repeat, bound, refs,
                 loopVars, histVars>>

TimersDone ==
  /\ phase = "timers"
  /\ heap # <<>> => due[Head(heap)] > 0
  /\ phase' = "prepare"
  /\ UNCHANGED <<js, cur, jobs, ops, tries, timerVars, loopVars, histVars>>

\* ijCallTimer: a timer cleared by one of the jobs has no function left to
\* call; JS_Call throws and the error is dumped.
CallTimer ==
  /\ phase = "fire"
  /\ cur \in bound
  /\ js' = "timer"
  /\ phase' = "callback"
  /\ called' = called \cup {cur}
  /\ UNCHANGED <<cur, jobs, ops, tries, cleared, timerVars, loopVars>>

CallCleared ==
  /\ phase = "fire"
  /\ cur \notin bound
  /\ cur' = NoTimer
  /\ phase' = "timers"
  /\ UNCHANGED <<js, jobs, ops, tries, timerVars, loopVars, histVars>>

\* The callback returns. A callback that was cleared meanwhile is freed with
\* the references in its closure, and ijClearTimer is next unless the timer
\* is an interval.
EndCallback ==
  /\ phase = "callback"
  /\ LET b == IF cur \in interval THEN bound ELSE bound \ {cur}
         r == IF refs[cur] = "closure" /\ cur \notin b THEN "none" ELSE refs[cur]
     IN  Settle(cur, b, r)
  /\ js' = "none"
  /\ cur' = NoTimer
  /\ phase' = "timers"
  /\ UNCHANGED <<jobs, ops, tries, due, late, interval, repeat, loopVars,
                 histVars>>

-----------------------------------------------------------------------------
(***************************************************************************)
(* ijExecuteJobs, from uvTimerCb and from uvCheckCb                        *)
(***************************************************************************)

\* Mutant: uvTimerCb returns after the jobs without calling the timer.
AfterJobsNoCall == IF phase = "timerJobs" THEN "timers" ELSE "maybeIdle"

AfterJobs == IF phase = "timerJobs" THEN "fire" ELSE "maybeIdle"

StartJob ==
  /\ phase \in {"timerJobs", "check"}
  /\ js = "none"
  /\ jobs > 0
  /\ jobs' = jobs - 1
  /\ js' = "job"
  /\ UNCHANGED <<phase, cur, ops, tries, timerVars, loopVars, histVars>>

EndJob ==
  /\ js = "job"
  /\ js' = "none"
  /\ UNCHANGED <<phase, cur, jobs, ops, tries, timerVars, loopVars, histVars>>

\* JS_ExecutePendingJob fails: the error is dumped and the jobs behind it
\* stay in the queue.
FailJob ==
  /\ js = "job"
  /\ js' = "none"
  /\ phase' = AfterJobs
  /\ UNCHANGED <<cur, jobs, ops, tries, timerVars, loopVars, histVars>>

JobsDrained ==
  /\ phase \in {"timerJobs", "check"}
  /\ js = "none"
  /\ jobs = 0
  /\ phase' = AfterJobs
  /\ UNCHANGED <<js, cur, jobs, ops, tries, timerVars, loopVars, histVars>>

-----------------------------------------------------------------------------
(***************************************************************************)
(* Prepare, poll, check and closing handles                                *)
(***************************************************************************)

\* uvPrepareCb
Prepare ==
  /\ phase = "prepare"
  /\ MaybeIdle
  /\ phase' = "poll"
  /\ UNCHANGED <<js, cur, jobs, ops, tries, io, stopSent, stopFlag, own,
                 timerVars, histVars>>

\* An event of another handle arrives; its handler may run JavaScript.
PollIo ==
  /\ phase \in {"poll", "polled"}
  /\ js = "none"
  /\ io
  /\ io' \in BOOLEAN
  /\ UpdateTime
  /\ js' = "io"
  /\ phase' = "polled"
  /\ UNCHANGED <<cur, jobs, ops, tries, idle, stopSent, stopFlag, own, heap, mem,
                 interval, repeat, bound, refs, histVars>>

EndIo ==
  /\ js = "io"
  /\ js' = "none"
  /\ UNCHANGED <<phase, cur, jobs, ops, tries, timerVars, loopVars, histVars>>

\* The stop async wakes the loop: uvStop calls uv_stop.
PollStop ==
  /\ phase \in {"poll", "polled"}
  /\ js = "none"
  /\ stopSent
  /\ stopSent' = FALSE
  /\ stopFlag' = TRUE
  /\ UpdateTime
  /\ phase' = "polled"
  /\ UNCHANGED <<js, cur, jobs, ops, tries, idle, io, own, heap, mem, interval,
                 repeat, bound, refs, histVars>>

\* uv__io_poll returns: an event was handled, it may not wait, or the first
\* timer expired while it waited.
PollDone ==
  /\ phase \in {"poll", "polled"}
  /\ js = "none"
  /\ \/ phase = "polled"
     \/ NoWait
     \/ heap # <<>> /\ due[Head(heap)] <= late
  /\ UpdateTime
  /\ phase' = "check"
  /\ UNCHANGED <<js, cur, jobs, ops, tries, heap, mem, interval, repeat, bound,
                 refs, loopVars, histVars>>

\* The end of uvCheckCb
CheckIdle ==
  /\ phase = "maybeIdle"
  /\ MaybeIdle
  /\ phase' = "closing"
  /\ UNCHANGED <<js, cur, jobs, ops, tries, io, stopSent, stopFlag, own,
                 timerVars, histVars>>

\* uv__run_closing_handles calls uvTimerClose, which frees the struct.
FreeClosed == mem' = [t \in Timers |-> IF mem[t] = "closing" THEN "freed" ELSE mem[t]]

CloseHandles ==
  /\ phase = "closing"
  /\ FreeClosed
  /\ phase' = "top"
  /\ UNCHANGED <<js, cur, jobs, ops, tries, heap, due, late, interval, repeat,
                 bound, refs, loopVars, histVars>>

-----------------------------------------------------------------------------
(***************************************************************************)
(* ijFreeRuntime                                                           *)
(***************************************************************************)

\* Mutant: ijFreeRuntime forgets to close one of the runtime's handles.
CloseOwnForgotten == UNCHANGED own

\* uv_close of the prepare, idle, check and stop handles
CloseOwn == own' = "closing"

\* The runtime's handles are closed, the JSContext and JSRuntime freed. Every
\* Timer object that only the program references is finalized; an object that
\* th->obj references is not, because ijTimerMark does not show that reference
\* to the collector.
FreeRuntime ==
  /\ phase \in {"returned", "failed"}
  /\ CloseOwn
  /\ idle' = FALSE
  /\ io' = FALSE
  /\ stopSent' = FALSE
  /\ stopFlag' = FALSE
  /\ jobs' = 0
  /\ refs' = [t \in Timers |-> "none"]
  /\ mem' = [t \in Timers |->
               IF mem[t] = "open" /\ t \notin bound THEN "closing" ELSE mem[t]]
  /\ phase' = "closeLoop"
  /\ UNCHANGED <<js, cur, ops, tries, heap, due, late, interval, repeat, bound,
                 histVars>>

\* uv_loop_close succeeds when no handle is left.
LoopEmpty == own = "closed" /\ \A t \in Timers : mem[t] \in {"none", "freed"}

CloseLoop ==
  /\ phase = "closeLoop"
  /\ tries < 5
  /\ LoopEmpty
  /\ phase' = "done"
  /\ UNCHANGED <<js, cur, jobs, ops, tries, timerVars, loopVars, histVars>>

\* uv_loop_close returned UV_EBUSY: one uv_run(UV_RUN_NOWAIT).
Expired == heap # <<>> /\ due[Head(heap)] <= late

RunNoWait ==
  /\ phase = "closeLoop"
  /\ tries < 5
  /\ ~LoopEmpty
  /\ ~Expired
  /\ tries' = tries + 1
  /\ IF LoopAlive
     THEN /\ UpdateTime
          /\ FreeClosed
          /\ own' = IF own = "closing" THEN "closed" ELSE own
     ELSE UNCHANGED <<due, late, mem, own>>
  /\ UNCHANGED <<phase, js, cur, jobs, ops, heap, interval, repeat, bound, refs,
                 idle, io, stopSent, stopFlag, histVars>>

\* A timer that is still armed and has expired runs uvTimerCb in the freed
\* JSContext. What a program does after that is not modelled.
RunStale ==
  /\ phase = "closeLoop"
  /\ tries < 5
  /\ ~LoopEmpty
  /\ Expired
  /\ phase' = "crashed"
  /\ UNCHANGED <<js, cur, jobs, ops, tries, timerVars, loopVars, histVars>>

\* CHECK_EQ(closed, 1) fails.
AbortClose ==
  /\ phase = "closeLoop"
  /\ tries = 5
  /\ phase' = "aborted"
  /\ UNCHANGED <<js, cur, jobs, ops, tries, timerVars, loopVars, histVars>>

-----------------------------------------------------------------------------
(***************************************************************************)
(* The environment                                                         *)
(***************************************************************************)

\* ijStop, from the parent's thread or from ijWorkerEval
Stop ==
  /\ IsWorker
  /\ phase \notin {"returned", "closeLoop", "done", "aborted", "crashed"}
  /\ ~stopSent
  /\ stopSent' = TRUE
  /\ UNCHANGED <<phase, js, cur, jobs, ops, tries, idle, io, stopFlag, own,
                 timerVars, histVars>>

Tick ==
  /\ phase \notin {"done", "aborted", "crashed"}
  /\ late < MaxDelay
  /\ late' = late + 1
  /\ UNCHANGED <<phase, js, cur, jobs, ops, tries, heap, due, mem, interval,
                 repeat, bound, refs, loopVars, histVars>>

\* uv__io_poll waits. Only a timer that never expires may be what it waits
\* for.
Sleep ==
  /\ phase = "poll"
  /\ ~NoWait
  /\ UNCHANGED vars

Finished ==
  /\ phase \in {"done", "aborted", "crashed"}
  /\ UNCHANGED vars

-----------------------------------------------------------------------------
\* A worker's script is its first job; main evaluates the script itself.
Init ==
  /\ phase = IF IsWorker THEN "run" ELSE "script"
  /\ js = IF IsWorker THEN "none" ELSE "script"
  /\ cur = NoTimer
  /\ jobs = IF IsWorker THEN 1 ELSE 0
  /\ idle = FALSE
  /\ io = FALSE
  /\ stopSent = FALSE
  /\ stopFlag = FALSE
  /\ own = "open"
  /\ heap = <<>>
  /\ due = [t \in Timers |-> 0]
  /\ late = 0
  /\ mem = [t \in Timers |-> "none"]
  /\ interval = {}
  /\ repeat = [t \in Timers |-> 0]
  /\ bound = {}
  /\ refs = [t \in Timers |-> "none"]
  /\ ops = 0
  /\ called = {}
  /\ cleared = {}
  /\ tries = 0

Loop ==
  \/ Run \/ Iterate \/ LeaveLoop
  \/ RunTimer \/ TimersDone \/ CallTimer \/ CallCleared \/ EndCallback
  \/ StartJob \/ EndJob \/ FailJob \/ JobsDrained
  \/ Prepare \/ EndIo \/ PollStop \/ PollDone \/ CheckIdle \/ CloseHandles
  \/ FreeRuntime \/ CloseLoop \/ RunNoWait \/ RunStale \/ AbortClose
  \/ \E ok \in BOOLEAN : EndScript(ok)

Next == Loop \/ PollIo \/ Program \/ Stop \/ Tick \/ Sleep \/ Finished

Spec == Init /\ [][Next]_vars

\* The thread keeps running, the program's frames return, the clock advances,
\* and uv__io_poll returns after a bounded number of events. Nothing says that
\* an I/O event ever arrives.
FairSpec ==
  Spec /\ WF_vars(Loop) /\ WF_vars(Tick) /\ SF_vars(PollDone)

-----------------------------------------------------------------------------
(***************************************************************************)
(* Properties                                                              *)
(***************************************************************************)

TypeOK ==
  /\ phase \in Phases
  /\ js \in JSFrames
  /\ cur \in Timers \cup {NoTimer}
  /\ jobs \in 0..MaxJobs
  /\ idle \in BOOLEAN
  /\ io \in BOOLEAN
  /\ stopSent \in BOOLEAN
  /\ stopFlag \in BOOLEAN
  /\ own \in {"open", "closing", "closed"}
  /\ heap \in Seq(Timers)
  /\ due \in [Timers -> 0..Forever]
  /\ late \in 0..MaxDelay
  /\ mem \in [Timers -> {"none", "open", "closing", "freed"}]
  /\ interval \in SUBSET Timers
  /\ repeat \in [Timers -> 0..Forever]
  /\ bound \in SUBSET Timers
  /\ refs \in [Timers -> {"none", "held", "closure"}]
  /\ ops \in 0..MaxOps
  /\ called \in SUBSET Timers
  /\ cleared \in SUBSET Timers
  /\ tries \in 0..5

\* The loop never sleeps in uv__io_poll while a job is pending, although a
\* failing job makes ijExecuteJobs leave jobs behind (uvMaybeIdle).
NeverSleepsOnJobs == phase = "poll" /\ ~NoWait => jobs = 0

\* Unless it was stopped, uv_run returns to ijRun only with an empty job
\* queue: no promise reaction is silently lost at the end of the program.
ReturnsDrained == phase = "returned" /\ ~stopFlag => jobs = 0

\* An armed timer still owns its Timer object and its callback: the object is
\* not finalized, and the handle not closed, before the timer fires or is
\* cleared, whatever references the program drops.
ArmedIsOwned == \A t \in Armed : t \in bound /\ mem[t] = "open"

\* The struct that uvTimerCb is working on is not freed under it, although
\* the jobs and the callback it runs can clear and finalize that very timer.
CurrentNotFreed == cur # NoTimer => mem[cur] \in {"open", "closing"}

\* ijFreeRuntime gives up on closing the loop only when a timer is still
\* bound; otherwise the first uv_run closes every handle.
ClosesUnlessBound ==
  /\ phase \in {"aborted", "crashed"} => bound # {}
  /\ phase = "closeLoop" /\ bound = {} => tries <= 1

\* No callback is called for a timer after clearTimeout, even when a job that
\* runs between the expiry and the call clears it (uvTimerCb runs the jobs
\* first), and a one-shot timer calls its callback once.
NoLateCall ==
  [][\A t \in Timers :
       js # "timer" /\ js' = "timer" /\ cur' = t =>
         t \notin cleared /\ (t \in called => t \in interval)]_vars

\* A pending job runs, unless the runtime goes away.
JobsRun == jobs > 0 ~> jobs = 0 \/ phase \in {"closeLoop", "done", "aborted", "crashed"}

\* An armed one-shot timer with a deadline that can come fires or is cleared,
\* unless the runtime goes away.
TimerFires ==
  \A t \in Timers :
    (t \in Armed /\ due[t] # Forever) ~>
       \/ t \in called \cup cleared
       \/ phase \in {"closeLoop", "done", "aborted", "crashed"}

\* A finalized timer's struct is freed: its close callback runs.
TimerFreed ==
  \A t \in Timers : mem[t] = "closing" ~> mem[t] = "freed" \/ phase \in {"aborted", "crashed"}

\* Every timer comes to its end: it fires or is cleared, and once it is
\* finalized uvTimerClose frees it.
TimerEnds == TimerFires /\ TimerFreed

-----------------------------------------------------------------------------
(***************************************************************************)
(* The inductive invariant behind the safety properties                    *)
(***************************************************************************)

Distinct(h) == \A i, j \in DOMAIN h : h[i] = h[j] => i = j

\* Which frame can run in which phase, and when uvTimerCb has a timer.
FrameInv ==
  /\ js = "script" <=> phase = "script"
  /\ js = "timer" <=> phase = "callback"
  /\ js = "job" => phase \in {"timerJobs", "check"}
  /\ js = "io" => phase = "polled"
  /\ cur # NoTimer <=> phase \in {"timerJobs", "fire", "callback"}

\* Pending jobs keep the idle handle started wherever the loop may sleep or
\* end.
IdleInv ==
  phase \in {"top", "poll", "closing"} /\ jobs > 0 => idle

\* Only intervals are armed again; only timers that were set have a history.
TimerInv ==
  /\ Distinct(heap)
  /\ \A t \in Timers : repeat[t] # 0 => t \in interval
  /\ phase \in {"timerJobs", "fire", "callback"} /\ cur \in Armed => cur \in interval
  /\ \A t \in bound \cup called \cup cleared \cup interval : mem[t] # "none"
  /\ \A t \in Timers : refs[t] # "none" => mem[t] # "none"
  /\ bound \cap cleared = {}
  /\ \A t \in (called \cap bound) \ interval : phase = "callback" /\ cur = t

\* While the runtime is freed: the first uv_run closes all that is closing.
CloseInv ==
  /\ phase \in {"closeLoop", "done", "aborted", "crashed"} =>
       /\ \A t \in Timers : mem[t] = "open" => t \in bound
       /\ tries = 0 => own = "closing"
       /\ tries > 0 => own = "closed" /\ Closing = {}
  /\ phase \notin {"closeLoop", "done", "aborted", "crashed"} => tries = 0

\* The inductive invariant: with what each phase of uv_run and ijFreeRuntime
\* relies on, jobs are not stranded, timers own their memory and the loop
\* closes.
IInv ==
  /\ TypeOK
  /\ FrameInv
  /\ IdleInv
  /\ TimerInv
  /\ CloseInv
  /\ NeverSleepsOnJobs
  /\ ReturnsDrained
  /\ ArmedIsOwned
  /\ CurrentNotFreed
  /\ ClosesUnlessBound

=============================================================================
