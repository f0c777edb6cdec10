-------------------------- MODULE EventLoopProofs --------------------------
(***************************************************************************)
(* What holds of every EventLoop, for any number of timers and any bounds. *)
(***************************************************************************)
EXTENDS EventLoop, TLAPS

USE EventLoopAssumption

-----------------------------------------------------------------------------
(***************************************************************************)
(* The timer heap                                                          *)
(***************************************************************************)

Elements(h) == {h[i] : i \in DOMAIN h}

\* uv_timer_start adds exactly one timer and keeps the others.
LEMMA ArmHeap ==
  ASSUME TypeOK, NEW h \in Seq(Timers), NEW t \in Timers, NEW d \in 0..Forever,
         Arm(h, t, d)
  PROVE  /\ heap' \in Seq(Timers)
         /\ due' \in [Timers -> 0..Forever]
         /\ Elements(heap)' = Elements(h) \cup {t}
         /\ Distinct(h) /\ t \notin Elements(h) => Distinct(heap')
  <1>1. PICK n \in 0..Len(h) :
          heap' = [i \in 1..(Len(h) + 1) |-> IF i <= n THEN h[i]
                                             ELSE IF i = n + 1 THEN t ELSE h[i - 1]]
    BY DEF Arm
  <1>2. heap' \in Seq(Timers) /\ Len(heap') = Len(h) + 1
    BY <1>1
  <1>3. due' \in [Timers -> 0..Forever]
    BY DEF Arm, TypeOK
  <1>4. Elements(heap)' = Elements(h) \cup {t}
    <2>1. \A i \in DOMAIN heap' : heap'[i] \in Elements(h) \cup {t}
      BY <1>1 DEF Elements
    <2>2. t \in Elements(heap)'
      <3>1. n + 1 \in DOMAIN heap' /\ heap'[n + 1] = t
        BY <1>1
      <3>2. QED
        BY <3>1 DEF Elements
    <2>3. ASSUME NEW i \in DOMAIN h
          PROVE  h[i] \in Elements(heap)'
      <3>1. CASE i <= n
        <4>1. i \in DOMAIN heap' /\ heap'[i] = h[i]
          BY <1>1, <3>1
        <4>2. QED
          BY <4>1 DEF Elements
      <3>2. CASE i > n
        <4>1. i + 1 \in DOMAIN heap' /\ heap'[i + 1] = h[i]
          BY <1>1, <3>2
        <4>2. QED
          BY <4>1 DEF Elements
      <3>3. QED
        BY <3>1, <3>2
    <2>4. QED
      BY <2>1, <2>2, <2>3 DEF Elements
  <1>5. ASSUME Distinct(h), t \notin Elements(h)
        PROVE  Distinct(heap')
    BY <1>1, <1>5 DEF Distinct, Elements
  <1>6. QED
    BY <1>2, <1>3, <1>4, <1>5

\* uv_timer_stop takes out exactly the timer that is stopped.
LEMMA DisarmHeap ==
  ASSUME NEW t \in Timers, heap \in Seq(Timers), Disarmed(heap, t, heap')
  PROVE  /\ heap' \in Seq(Timers)
         /\ Elements(heap)' \subseteq Elements(heap)
         /\ Distinct(heap) => Distinct(heap') /\ t \notin Elements(heap)'
  <1>1. CASE /\ \A i \in DOMAIN heap : heap[i] # t
             /\ heap' = heap
    BY <1>1 DEF Elements, Distinct
  <1>2. CASE \E i \in DOMAIN heap :
               /\ heap[i] = t
               /\ heap' = [j \in 1..(Len(heap) - 1) |-> IF j < i THEN heap[j]
                                                        ELSE heap[j + 1]]
    <2>1. PICK i \in DOMAIN heap :
               /\ heap[i] = t
               /\ heap' = [j \in 1..(Len(heap) - 1) |-> IF j < i THEN heap[j]
                                                        ELSE heap[j + 1]]
      BY <1>2
    <2>2. heap' \in Seq(Timers) /\ Len(heap') = Len(heap) - 1
      BY <2>1
    <2>3. Elements(heap)' \subseteq Elements(heap)
      BY <2>1 DEF Elements
    <2>4. ASSUME Distinct(heap)
          PROVE  Distinct(heap') /\ t \notin Elements(heap)'
      <3>1. \A j \in DOMAIN heap' :
              /\ j < i => heap'[j] = heap[j]
              /\ ~(j < i) => heap'[j] = heap[j + 1]
        BY <2>1
      <3>2. DOMAIN heap' = 1..(Len(heap) - 1) /\ DOMAIN heap = 1..Len(heap)
            /\ Len(heap) \in Nat
        BY <2>1
      <3>3. Distinct(heap')
        BY <2>4, <3>1, <3>2 DEF Distinct
      <3>4. \A j \in DOMAIN heap' : heap'[j] # t
        BY <2>1, <2>4, <3>1, <3>2 DEF Distinct
      <3>5. QED
        BY <3>3, <3>4 DEF Elements
    <2>5. QED
      BY <2>2, <2>3, <2>4
  <1>3. QED
    BY <1>1, <1>2 DEF Disarmed

\* uv__run_timers takes the first timer off the heap.
LEMMA TailHeap ==
  ASSUME heap \in Seq(Timers), heap # <<>>
  PROVE  /\ Head(heap) \in Timers
         /\ Head(heap) \in Elements(heap)
         /\ Tail(heap) \in Seq(Timers)
         /\ Elements(Tail(heap)) \subseteq Elements(heap)
         /\ Distinct(heap) =>
              Distinct(Tail(heap)) /\ Head(heap) \notin Elements(Tail(heap))
  BY DEF Distinct, Elements

\* uv__update_time keeps the clock and the deadlines in range.
LEMMA UpdateTimeType ==
  ASSUME TypeOK, UpdateTime
  PROVE  late' \in 0..MaxDelay /\ due' \in [Timers -> 0..Forever]
  BY DEF UpdateTime, TypeOK, Forever

\* Dropping references, and the finalizer it may run, keep the types.
LEMMA SettleType ==
  ASSUME TypeOK, NEW t \in Timers, NEW b \in SUBSET Timers,
         NEW r \in {"none", "held", "closure"}, Settle(t, b, r)
  PROVE  /\ bound' \in SUBSET Timers
         /\ refs' \in [Timers -> {"none", "held", "closure"}]
         /\ mem' \in [Timers -> {"none", "open", "closing", "freed"}]
         /\ heap' \in Seq(Timers)
  BY DisarmHeap DEF Settle, Finalized, TypeOK

-----------------------------------------------------------------------------
(***************************************************************************)
(* Type correctness                                                        *)
(***************************************************************************)

\* The values the variables take in the initial state.
LEMMA InitType == Init => TypeOK
  <1> SUFFICES ASSUME Init
               PROVE  TypeOK
    OBVIOUS
  <1>1. phase \in Phases /\ js \in JSFrames /\ jobs \in 0..MaxJobs
    BY DEF Init, Phases, JSFrames
  <1>2. due \in [Timers -> 0..Forever] /\ repeat \in [Timers -> 0..Forever]
    BY DEF Init, Forever
  <1>3. late \in 0..MaxDelay /\ ops \in 0..MaxOps /\ tries \in 0..5 /\ heap \in Seq(Timers)
    BY DEF Init
  <1>4. QED
    BY <1>1, <1>2, <1>3, Zenon DEF Init, TypeOK

\* Every operation of the program, and every step of the loop, keeps the types.
LEMMA NextType == TypeOK /\ FrameInv /\ [Next]_vars => TypeOK'
  <1> SUFFICES ASSUME TypeOK, FrameInv, [Next]_vars
               PROVE  TypeOK'
    OBVIOUS
  <1> USE DEF Phases, JSFrames, timerVars, loopVars, histVars
  <1>1. ASSUME NEW t \in Timers, NEW delay \in -1..MaxDelay, NEW magic \in BOOLEAN,
               SetTimeout(t, delay, magic)
        PROVE  TypeOK'
    <2>1. Deadline(delay) \in 0..Forever
      BY DEF Deadline, Forever
    <2>2. heap' \in Seq(Timers) /\ due' \in [Timers -> 0..Forever]
      BY <1>1, <2>1, ArmHeap DEF SetTimeout, TypeOK
    <2>3. repeat' \in [Timers -> 0..Forever]
      BY <1>1, <2>1 DEF SetTimeout, TypeOK, Forever
    <2>4. QED
      BY <1>1, <2>2, <2>3 DEF SetTimeout, Operation, TypeOK
  <1>2. ASSUME NEW t \in Timers, ClearTimeout(t)
        PROVE  TypeOK'
    <2>1. heap' \in Seq(Timers)
      BY <1>2, DisarmHeap DEF ClearTimeout, StopTimer, Unbind, TypeOK
    <2>2. QED
      BY <1>2, <2>1 DEF ClearTimeout, StopTimer, Unbind, Operation, TypeOK
  <1>3. ASSUME NEW t \in Timers, NEW r \in {"none", "closure"}, DropRef(t, r)
        PROVE  TypeOK'
    <2>1. Settle(t, bound, r) /\ bound \in SUBSET Timers
      BY <1>3 DEF DropRef, TypeOK
    <2>2. /\ bound' \in SUBSET Timers
          /\ refs' \in [Timers -> {"none", "held", "closure"}]
          /\ mem' \in [Timers -> {"none", "open", "closing", "freed"}]
          /\ heap' \in Seq(Timers)
      BY <2>1, SettleType
    <2>3. QED
      BY <1>3, <2>2 DEF DropRef, Operation, TypeOK
  <1>4. CASE EnqueueJob \/ StartIo
    <2>1. jobs' \in 0..MaxJobs /\ ops' \in 0..MaxOps
      BY <1>4 DEF EnqueueJob, StartIo, Operation, TypeOK
    <2>2. CASE EnqueueJob
      BY <2>1, <2>2 DEF EnqueueJob, TypeOK
    <2>3. CASE StartIo
      <3>1. io' \in BOOLEAN
        BY <2>3, Zenon DEF StartIo
      <3>2. QED
        BY <2>1, <2>3, <3>1 DEF StartIo, TypeOK
    <2>4. QED
      BY <1>4, <2>2, <2>3
  <1>5. CASE \/ Run \/ LeaveLoop \/ TimersDone \/ CallTimer \/ CallCleared
             \/ StartJob \/ EndJob \/ FailJob \/ JobsDrained
             \/ Prepare \/ EndIo \/ CheckIdle
             \/ CloseLoop \/ RunStale \/ AbortClose
             \/ \E ok \in BOOLEAN : EndScript(ok)
    <2>1. CASE Run \/ Prepare \/ CheckIdle
      <3>1. idle' \in BOOLEAN
        <4>1. MaybeIdle
          BY <2>1 DEF Run, Prepare, CheckIdle
        <4>2. QED
          BY <4>1, SMTT(30) DEF MaybeIdle
      <3>2. CASE Run
        <4>1. /\ phase' = "top"
              /\ UNCHANGED <<js, cur, jobs, ops, tries, io, stopSent, stopFlag, own,
                             timerVars, histVars>>
          BY <3>2 DEF Run
        <4>2. QED
          BY <3>1, <4>1 DEF TypeOK
      <3>3. CASE Prepare
        BY <3>1, <3>3 DEF Prepare, TypeOK
      <3>4. CASE CheckIdle
        BY <3>1, <3>4 DEF CheckIdle, TypeOK
      <3>5. QED
        BY <2>1, <3>2, <3>3, <3>4
    <2>2. CASE LeaveLoop \/ TimersDone
      <3>1. /\ phase' \in Phases
            /\ UNCHANGED <<js, cur, jobs, ops, tries, timerVars, loopVars, histVars>>
        BY <2>2, Zenon DEF LeaveLoop, TimersDone
      <3>2. QED
        BY <3>1 DEF TypeOK
    <2>3. CASE CallTimer \/ CallCleared
      BY <2>3 DEF CallTimer, CallCleared, TypeOK
    <2>4. CASE StartJob
      BY <2>4 DEF StartJob, TypeOK
    <2>5. CASE EndJob
      BY <2>5 DEF EndJob, TypeOK
    <2>6. CASE FailJob
      BY <2>6 DEF FailJob, AfterJobs, TypeOK
    <2>7. CASE JobsDrained
      BY <2>7 DEF JobsDrained, AfterJobs, TypeOK
    <2>8. CASE EndIo
      BY <2>8 DEF EndIo, TypeOK
    <2>9. CASE CloseLoop \/ RunStale \/ AbortClose
      BY <2>9 DEF CloseLoop, RunStale, AbortClose, TypeOK
    <2>10. CASE \E ok \in BOOLEAN : EndScript(ok)
      BY <2>10 DEF EndScript, TypeOK
    <2>11. QED
      BY <1>5, <2>1, <2>2, <2>3, <2>4, <2>5, <2>6, <2>7, <2>8, <2>9, <2>10
  <1>6. CASE Iterate \/ PollIo \/ PollStop \/ PollDone
    <2>1. late' \in 0..MaxDelay /\ due' \in [Timers -> 0..Forever]
      BY <1>6, UpdateTimeType DEF Iterate, PollIo, PollStop, PollDone
    <2>2. CASE Iterate
      BY <2>1, <2>2 DEF Iterate, TypeOK
    <2>3. CASE PollIo
      BY <2>1, <2>3 DEF PollIo, TypeOK
    <2>4. CASE PollStop
      BY <2>1, <2>4 DEF PollStop, TypeOK
    <2>5. CASE PollDone
      BY <2>1, <2>5 DEF PollDone, TypeOK
    <2>6. QED
      BY <1>6, <2>2, <2>3, <2>4, <2>5
  <1>7. CASE RunTimer
    <2>1. Head(heap) \in Timers /\ Tail(heap) \in Seq(Timers)
      BY <1>7, TailHeap DEF RunTimer, TypeOK
    <2>2. heap' \in Seq(Timers) /\ due' \in [Timers -> 0..Forever]
      <3>1. CASE repeat[Head(heap)] # 0
        <4>1. repeat[Head(heap)] \in 0..Forever
          BY <2>1 DEF TypeOK
        <4>2. QED
          BY <1>7, <2>1, <3>1, <4>1, ArmHeap DEF RunTimer
      <3>2. CASE repeat[Head(heap)] = 0
        BY <1>7, <2>1, <3>2 DEF RunTimer, TypeOK
      <3>3. QED
        BY <3>1, <3>2
    <2>3. QED
      BY <1>7, <2>1, <2>2 DEF RunTimer, TypeOK
  <1>8. CASE EndCallback
    <2> DEFINE b == IF cur \in interval THEN bound ELSE bound \ {cur}
               r == IF refs[cur] = "closure" /\ cur \notin b
                    THEN "none" ELSE refs[cur]
    <2>1. CASE cur \in Timers
      <3>1. b \in SUBSET Timers /\ r \in {"none", "held", "closure"}
        BY <2>1 DEF TypeOK
      <3>2. Settle(cur, b, r)
        BY <1>8 DEF EndCallback
      <3>3. /\ bound' \in SUBSET Timers
            /\ refs' \in [Timers -> {"none", "held", "closure"}]
            /\ mem' \in [Timers -> {"none", "open", "closing", "freed"}]
            /\ heap' \in Seq(Timers)
        BY <2>1, <3>1, <3>2, SettleType
      <3>4. QED
        BY <1>8, <3>3 DEF EndCallback, TypeOK
    <2>2. QED
      BY <1>8, <2>1 DEF EndCallback, FrameInv, TypeOK
  <1>9. CASE CloseHandles
    BY <1>9 DEF CloseHandles, FreeClosed, TypeOK
  <1>10. CASE FreeRuntime
    <2>1. jobs' \in 0..MaxJobs
      BY <1>10 DEF FreeRuntime
    <2>2. /\ refs' \in [Timers -> {"none", "held", "closure"}]
          /\ mem' \in [Timers -> {"none", "open", "closing", "freed"}]
      BY <1>10 DEF FreeRuntime, CloseOwn, TypeOK
    <2>3. QED
      BY <1>10, <2>1, <2>2, Zenon DEF FreeRuntime, CloseOwn, TypeOK
  <1>11. CASE RunNoWait
    <2>1. late' \in 0..MaxDelay /\ due' \in [Timers -> 0..Forever]
      BY <1>11, UpdateTimeType DEF RunNoWait, TypeOK
    <2>2. mem' \in [Timers -> {"none", "open", "closing", "freed"}]
      BY <1>11 DEF RunNoWait, FreeClosed, TypeOK
    <2>3. own' \in {"open", "closing", "closed"}
      BY <1>11 DEF RunNoWait, TypeOK
    <2>4. tries' \in 0..5
      BY <1>11 DEF RunNoWait, TypeOK
    <2>5. UNCHANGED <<phase, js, cur, jobs, ops, heap, interval, repeat, bound, refs,
                      idle, io, stopSent, stopFlag, called, cleared>>
      BY <1>11 DEF RunNoWait
    <2>6. QED
      BY <2>1, <2>2, <2>3, <2>4, <2>5 DEF TypeOK
  <1>12. CASE Stop \/ Tick
    <2>1. CASE Stop
      <3>1. stopSent' \in BOOLEAN
        BY <2>1, Zenon DEF Stop
      <3>2. QED
        BY <2>1, <3>1 DEF Stop, TypeOK
    <2>2. CASE Tick
      BY <2>2 DEF Tick, TypeOK
    <2>3. QED
      BY <1>12, <2>1, <2>2
  <1>13. CASE Sleep \/ Finished \/ UNCHANGED vars
    BY <1>13 DEF Sleep, Finished, vars, TypeOK
  <1>14. QED
    BY <1>1, <1>2, <1>3, <1>4, <1>5, <1>6, <1>7, <1>8, <1>9, <1>10, <1>11,
       <1>12, <1>13 DEF Next, Loop, Program

-----------------------------------------------------------------------------
(***************************************************************************)
(* Frames and phases                                                       *)
(***************************************************************************)

\* A frame is only ever on the stack in the phase that called it.
LEMMA NextFrame == TypeOK /\ FrameInv /\ [Next]_vars => FrameInv'
  <1> SUFFICES ASSUME TypeOK, FrameInv, [Next]_vars
               PROVE  FrameInv'
    OBVIOUS
  <1> USE DEF FrameInv
  <1>1. CASE Program
    BY <1>1 DEF Program, SetTimeout, ClearTimeout, DropRef, EnqueueJob, StartIo
  <1>2. CASE RunTimer
    <2>1. cur' \in Timers
      BY <1>2, TailHeap DEF RunTimer, TypeOK
    <2>2. QED
      BY <1>2, <2>1 DEF RunTimer
  <1>3. CASE \/ Run \/ Iterate \/ LeaveLoop \/ TimersDone \/ CallTimer
             \/ CallCleared \/ EndCallback
             \/ \E ok \in BOOLEAN : EndScript(ok)
    BY <1>3 DEF Run, Iterate, LeaveLoop, TimersDone, CallTimer, CallCleared,
       EndCallback, EndScript, TypeOK, Phases, JSFrames
  <1>4. CASE StartJob \/ EndJob \/ FailJob \/ JobsDrained
    BY <1>4 DEF StartJob, EndJob, FailJob, JobsDrained, AfterJobs
  <1>5. CASE \/ Prepare \/ PollIo \/ EndIo \/ PollStop \/ PollDone
             \/ CheckIdle \/ CloseHandles
    BY <1>5 DEF Prepare, PollIo, EndIo, PollStop, PollDone, CheckIdle, CloseHandles
  <1>6. CASE FreeRuntime \/ CloseLoop \/ RunNoWait \/ RunStale \/ AbortClose
    BY <1>6 DEF FreeRuntime, CloseOwn, CloseLoop, RunNoWait, RunStale, AbortClose
  <1>7. CASE Stop \/ Tick \/ Sleep \/ Finished \/ UNCHANGED vars
    BY <1>7 DEF Stop, Tick, Sleep, Finished, vars
  <1>8. QED
    BY <1>1, <1>2, <1>3, <1>4, <1>5, <1>6, <1>7 DEF Next, Loop

-----------------------------------------------------------------------------
(***************************************************************************)
(* Pending jobs and the idle handle                                        *)
(***************************************************************************)

\* No step makes the loop forget a pending job: where it may sleep or end, the
\* idle handle is started.
LEMMA NextIdle ==
  TypeOK /\ FrameInv /\ IdleInv /\ ReturnsDrained /\ [Next]_vars
    => IdleInv' /\ ReturnsDrained'
  <1> SUFFICES ASSUME TypeOK, FrameInv, IdleInv, ReturnsDrained, [Next]_vars
               PROVE  IdleInv' /\ ReturnsDrained'
    OBVIOUS
  <1> USE DEF IdleInv, ReturnsDrained, loopVars
  <1>1. CASE Program
    BY <1>1 DEF Program, Operation, SetTimeout, ClearTimeout, DropRef,
       EnqueueJob, StartIo, FrameInv, TypeOK, JSFrames
  <1>2. CASE Run \/ Prepare \/ CheckIdle
    BY <1>2 DEF Run, Prepare, CheckIdle, MaybeIdle
  <1>3. CASE LeaveLoop
    <2>1. ~stopFlag => ~idle
      BY <1>3 DEF LeaveLoop, LoopAlive, HasActive
    <2>2. QED
      BY <1>3, <2>1 DEF LeaveLoop, TypeOK
  <1>4. CASE \/ Iterate \/ RunTimer \/ TimersDone \/ CallTimer
             \/ CallCleared \/ EndCallback
             \/ \E ok \in BOOLEAN : EndScript(ok)
    BY <1>4 DEF Iterate, RunTimer, TimersDone, CallTimer, CallCleared,
       EndCallback, EndScript
  <1>5. CASE StartJob \/ EndJob \/ FailJob \/ JobsDrained
    BY <1>5 DEF StartJob, EndJob, FailJob, JobsDrained, AfterJobs, FrameInv
  <1>6. CASE PollIo \/ EndIo \/ PollStop \/ PollDone \/ CloseHandles
    BY <1>6 DEF PollIo, EndIo, PollStop, PollDone, CloseHandles, FrameInv
  <1>7. CASE FreeRuntime \/ CloseLoop \/ RunNoWait \/ RunStale \/ AbortClose
    BY <1>7 DEF FreeRuntime, CloseOwn, CloseLoop, RunNoWait, RunStale, AbortClose
  <1>8. CASE Stop \/ Tick \/ Sleep \/ Finished \/ UNCHANGED vars
    BY <1>8 DEF Stop, Tick, Sleep, Finished, vars
  <1>9. QED
    BY <1>1, <1>2, <1>3, <1>4, <1>5, <1>6, <1>7, <1>8 DEF Next, Loop

\* With the idle handle started, uv__io_poll does not wait.
LEMMA IdleNoSleep == TypeOK /\ IdleInv => NeverSleepsOnJobs
  BY DEF TypeOK, IdleInv, NeverSleepsOnJobs, NoWait

-----------------------------------------------------------------------------
(***************************************************************************)
(* The life of a timer                                                     *)
(***************************************************************************)

\* Armed is the set of elements of the heap, before and after a step.
LEMMA ArmedElements == Armed = Elements(heap) /\ Armed' = Elements(heap)'
  BY DEF Armed, Elements

\* What the end of a reference leaves behind: a timer that loses its last one
\* is off the heap.
LEMMA SettleTimer ==
  ASSUME TypeOK, TimerInv, NEW t \in Timers, NEW b \in SUBSET Timers,
         NEW r \in {"none", "held", "closure"}, Settle(t, b, r)
  PROVE  /\ Distinct(heap')
         /\ Armed' \subseteq Armed
         /\ \A u \in Timers : u # t => mem'[u] = mem[u]
         /\ \/ mem'[t] = mem[t]
            \/ mem[t] = "open" /\ mem'[t] = "closing" /\ t \notin Armed'
         /\ bound' = b
         /\ \A u \in Timers : u # t => refs'[u] = refs[u]
         /\ refs'[t] = r
  <1>1. CASE mem[t] = "open" /\ t \notin b /\ r = "none"
    <2>1. /\ mem' = [mem EXCEPT ![t] = "closing"]
          /\ Disarmed(heap, t, heap')
      BY <1>1 DEF Settle, Finalized
    <2>2. Distinct(heap') /\ Armed' \subseteq Armed /\ t \notin Armed'
      BY <2>1, DisarmHeap, ArmedElements DEF TypeOK, TimerInv
    <2>3. QED
      BY <1>1, <2>1, <2>2 DEF Settle, TypeOK
  <1>2. CASE ~(mem[t] = "open" /\ t \notin b /\ r = "none")
    BY <1>2 DEF Settle, TimerInv, Armed, TypeOK
  <1>3. QED
    BY <1>1, <1>2

\* The steps that leave the timers, their owners and their history alone.
LEMMA NextTimerUnchanged ==
  ASSUME TypeOK, FrameInv, TimerInv, ArmedIsOwned, CurrentNotFreed,
         UNCHANGED <<heap, mem, interval, repeat, bound, refs, cleared>>,
         called' = called, cur' \in {cur, NoTimer},
         phase' = "callback" <=> phase = "callback",
         phase' \in {"timerJobs", "fire", "callback"} =>
           cur' = cur /\ phase \in {"timerJobs", "fire", "callback"}
  PROVE  TimerInv' /\ ArmedIsOwned' /\ CurrentNotFreed'
  <1>1. Armed' = Armed /\ Distinct(heap')
    BY DEF Armed, TimerInv
  <1>2. CurrentNotFreed'
    BY DEF CurrentNotFreed
  <1>3. ArmedIsOwned'
    BY <1>1 DEF ArmedIsOwned
  <1>4. TimerInv'
    BY <1>1 DEF TimerInv
  <1>5. QED
    BY <1>2, <1>3, <1>4

\* Setting, clearing and dropping timers, firing them and closing them keep
\* every armed timer owned and every timer in use in memory.
LEMMA NextTimer ==
  TypeOK /\ FrameInv /\ TimerInv /\ ArmedIsOwned /\ CurrentNotFreed /\ [Next]_vars
    => TimerInv' /\ ArmedIsOwned' /\ CurrentNotFreed'
  <1> SUFFICES ASSUME TypeOK, FrameInv, TimerInv, ArmedIsOwned, CurrentNotFreed,
                      [Next]_vars
               PROVE  TimerInv' /\ ArmedIsOwned' /\ CurrentNotFreed'
    OBVIOUS
  <1> USE DEF timerVars, histVars
  <1>1. ASSUME NEW t \in Timers, NEW delay \in -1..MaxDelay, NEW magic \in BOOLEAN,
               SetTimeout(t, delay, magic)
        PROVE  TimerInv' /\ ArmedIsOwned' /\ CurrentNotFreed'
    <2>1. Deadline(delay) \in 0..Forever
      BY DEF Deadline, Forever
    <2>2. t \notin Armed
      BY <1>1 DEF SetTimeout, ArmedIsOwned
    <2>3. Armed' = Armed \cup {t} /\ Distinct(heap')
      BY <1>1, <2>1, <2>2, ArmHeap, ArmedElements DEF SetTimeout, TypeOK, TimerInv
    <2>4. t \notin called \cup cleared \cup interval /\ cur # t
      BY <1>1 DEF SetTimeout, TimerInv, CurrentNotFreed
    <2>5. ArmedIsOwned' /\ CurrentNotFreed'
      BY <1>1, <2>3 DEF SetTimeout, ArmedIsOwned, CurrentNotFreed, TypeOK
    <2>6. \A u \in Timers : repeat'[u] # 0 => u \in interval'
      BY <1>1 DEF SetTimeout, TimerInv, TypeOK
    <2>7. QED
      BY <1>1, <2>3, <2>4, <2>5, <2>6 DEF SetTimeout, TimerInv, TypeOK
  <1>2. ASSUME NEW t \in Timers, ClearTimeout(t)
        PROVE  TimerInv' /\ ArmedIsOwned' /\ CurrentNotFreed'
    <2>1. Armed' \subseteq Armed \ {t} /\ Distinct(heap')
      BY <1>2, DisarmHeap, ArmedElements DEF ClearTimeout, StopTimer, Unbind, TypeOK, TimerInv
    <2>2. mem[t] # "none"
      BY <1>2 DEF ClearTimeout, StopTimer, Unbind, Reaches, TimerInv
    <2>3. ArmedIsOwned' /\ CurrentNotFreed'
      BY <1>2, <2>1 DEF ClearTimeout, StopTimer, Unbind, ArmedIsOwned, CurrentNotFreed
    <2>4. QED
      BY <1>2, <2>1, <2>2, <2>3 DEF ClearTimeout, StopTimer, Unbind, TimerInv
  <1>3. ASSUME NEW t \in Timers, NEW r \in {"none", "closure"}, DropRef(t, r)
        PROVE  TimerInv' /\ ArmedIsOwned' /\ CurrentNotFreed'
    <2>1. /\ Distinct(heap')
          /\ Armed' \subseteq Armed
          /\ \A u \in Timers : u # t => mem'[u] = mem[u]
          /\ \/ mem'[t] = mem[t]
             \/ mem[t] = "open" /\ mem'[t] = "closing" /\ t \notin Armed'
          /\ bound' = bound
          /\ \A u \in Timers : u # t => refs'[u] = refs[u]
          /\ refs'[t] = r
      BY <1>3, SettleTimer DEF DropRef, TypeOK
    <2>2. ArmedIsOwned' /\ CurrentNotFreed'
      BY <1>3, <2>1 DEF DropRef, ArmedIsOwned, CurrentNotFreed, TypeOK
    <2>3. QED
      BY <1>3, <2>1, <2>2 DEF DropRef, TimerInv, TypeOK
  <1>4. CASE RunTimer
    <2>1. /\ Head(heap) \in Timers
          /\ Head(heap) \in Armed
          /\ Tail(heap) \in Seq(Timers)
          /\ Elements(Tail(heap)) \subseteq Armed
          /\ Distinct(Tail(heap))
          /\ Head(heap) \notin Elements(Tail(heap))
      BY <1>4, TailHeap, ArmedElements DEF RunTimer, TypeOK, TimerInv
    <2>2. /\ Armed' \subseteq Armed
          /\ Distinct(heap')
          /\ Head(heap) \in Armed' => repeat[Head(heap)] # 0
      <3>1. CASE repeat[Head(heap)] # 0
        <4>1. repeat[Head(heap)] \in 0..Forever
          BY <2>1 DEF TypeOK
        <4>2. Arm(Tail(heap), Head(heap), repeat[Head(heap)])
          BY <1>4, <3>1 DEF RunTimer
        <4>3. Armed' = Elements(Tail(heap)) \cup {Head(heap)} /\ Distinct(heap')
          BY <2>1, <4>1, <4>2, ArmHeap, ArmedElements
        <4>4. QED
          BY <2>1, <3>1, <4>3
      <3>2. CASE repeat[Head(heap)] = 0
        <4>1. heap' = Tail(heap)
          BY <1>4, <3>2 DEF RunTimer
        <4>2. QED
          BY <2>1, <4>1, ArmedElements DEF Elements
      <3>3. QED
        BY <3>1, <3>2
    <2>3. ArmedIsOwned' /\ CurrentNotFreed'
      BY <1>4, <2>1, <2>2 DEF RunTimer, ArmedIsOwned, CurrentNotFreed
    <2>4. QED
      BY <1>4, <2>1, <2>2, <2>3 DEF RunTimer, TimerInv, FrameInv
  <1>5. CASE CallTimer
    BY <1>5 DEF CallTimer, TimerInv, ArmedIsOwned, CurrentNotFreed, FrameInv, Armed
  <1>6. CASE EndCallback
    <2> DEFINE b == IF cur \in interval THEN bound ELSE bound \ {cur}
               r == IF refs[cur] = "closure" /\ cur \notin b
                    THEN "none" ELSE refs[cur]
    <2>1. /\ cur \in Timers
          /\ b \in SUBSET Timers
          /\ r \in {"none", "held", "closure"}
          /\ Settle(cur, b, r)
      BY <1>6 DEF EndCallback, FrameInv, TypeOK
    <2>2. /\ Distinct(heap')
          /\ Armed' \subseteq Armed
          /\ \A u \in Timers : u # cur => mem'[u] = mem[u]
          /\ \/ mem'[cur] = mem[cur]
             \/ mem[cur] = "open" /\ mem'[cur] = "closing" /\ cur \notin Armed'
          /\ bound' = b
          /\ \A u \in Timers : u # cur => refs'[u] = refs[u]
          /\ refs'[cur] = r
      BY <2>1, SettleTimer
    <2>3. cur \in Armed => cur \in interval
      BY <1>6 DEF EndCallback, TimerInv
    <2>4. ArmedIsOwned' /\ CurrentNotFreed'
      BY <1>6, <2>1, <2>2, <2>3 DEF EndCallback, ArmedIsOwned, CurrentNotFreed, TypeOK
    <2>5. /\ phase = "callback" /\ phase' # "callback" /\ cur' = NoTimer
          /\ phase' \notin {"timerJobs", "fire", "callback"}
          /\ UNCHANGED <<repeat, interval, called, cleared>>
      BY <1>6 DEF EndCallback
    <2>6. \A t \in Timers : mem[t] # "none" => mem'[t] # "none"
      BY <2>1, <2>2
    <2>7. \A t \in Timers : refs'[t] # "none" => mem'[t] # "none"
      BY <2>1, <2>2, <2>6 DEF TimerInv
    <2>8. \A t \in bound' \cup called' \cup cleared' \cup interval' : mem'[t] # "none"
      BY <2>1, <2>2, <2>5, <2>6 DEF TimerInv, TypeOK
    <2>9. bound' \cap cleared' = {} /\ (called' \cap bound') \ interval' = {}
      BY <2>2, <2>5 DEF TimerInv
    <2>10. TimerInv'
      BY <2>2, <2>5, <2>7, <2>8, <2>9 DEF TimerInv
    <2>11. QED
      BY <2>4, <2>10
  <1>7. CASE CloseHandles \/ RunNoWait \/ FreeRuntime
    <2>1. /\ UNCHANGED <<heap, interval, repeat, bound, called, cleared, cur>>
          /\ cur = NoTimer
          /\ phase \notin {"timerJobs", "fire", "callback"}
          /\ phase' \notin {"timerJobs", "fire", "callback"}
      BY <1>7 DEF CloseHandles, RunNoWait, FreeRuntime, FrameInv
    <2>2. \A t \in Timers :
            /\ mem[t] = "open" /\ t \in bound => mem'[t] = "open"
            /\ mem[t] # "none" => mem'[t] # "none"
            /\ refs'[t] # "none" => refs[t] # "none"
      BY <1>7 DEF CloseHandles, RunNoWait, FreeRuntime, FreeClosed, TypeOK
    <2>3. Armed' = Armed /\ Armed \subseteq Timers
      BY <2>1 DEF Armed, TypeOK
    <2>4. ArmedIsOwned' /\ CurrentNotFreed'
      BY <2>1, <2>2, <2>3 DEF ArmedIsOwned, CurrentNotFreed
    <2>5. QED
      BY <2>1, <2>2, <2>3, <2>4 DEF TimerInv, TypeOK
  <1>8. CASE \/ EnqueueJob \/ StartIo \/ Run \/ Iterate \/ LeaveLoop
             \/ TimersDone \/ CallCleared
             \/ StartJob \/ EndJob \/ FailJob \/ JobsDrained
             \/ Prepare \/ PollIo \/ EndIo \/ PollStop \/ PollDone
             \/ CheckIdle \/ CloseLoop \/ RunStale \/ AbortClose
             \/ Stop \/ Tick \/ Sleep \/ Finished \/ UNCHANGED vars
             \/ \E ok \in BOOLEAN : EndScript(ok)
    <2>1. /\ UNCHANGED <<heap, mem, interval, repeat, bound, refs, called, cleared>>
          /\ cur' \in {cur, NoTimer}
      BY <1>8 DEF EnqueueJob, StartIo, Run, Iterate, LeaveLoop, TimersDone,
         CallCleared, StartJob, EndJob, FailJob, JobsDrained, Prepare, PollIo,
         EndIo, PollStop, PollDone, CheckIdle, CloseLoop, RunStale, AbortClose,
         Stop, Tick, Sleep, Finished, vars, EndScript
    <2>2. /\ phase' = "callback" <=> phase = "callback"
          /\ phase' \in {"timerJobs", "fire", "callback"} =>
               cur' = cur /\ phase \in {"timerJobs", "fire", "callback"}
      BY <1>8 DEF EnqueueJob, StartIo, Run, Iterate, LeaveLoop, TimersDone,
         CallCleared, StartJob, EndJob, FailJob, JobsDrained, AfterJobs, Prepare,
         PollIo, EndIo, PollStop, PollDone, CheckIdle, CloseLoop, RunStale,
         AbortClose, Stop, Tick, Sleep, Finished, vars, EndScript, FrameInv
    <2>3. QED
      BY <2>1, <2>2, NextTimerUnchanged
  <1>9. QED
    BY <1>1, <1>2, <1>3, <1>4, <1>5, <1>6, <1>7, <1>8 DEF Next, Loop, Program

-----------------------------------------------------------------------------
(***************************************************************************)
(* Closing the loop                                                        *)
(***************************************************************************)

\* ijFreeRuntime fails only over a timer that is still bound.
LEMMA NextClose ==
  TypeOK /\ FrameInv /\ ArmedIsOwned /\ CloseInv /\ ClosesUnlessBound /\ [Next]_vars
    => CloseInv' /\ ClosesUnlessBound'
  <1> SUFFICES ASSUME TypeOK, FrameInv, ArmedIsOwned, CloseInv, ClosesUnlessBound,
                      [Next]_vars
               PROVE  CloseInv' /\ ClosesUnlessBound'
    OBVIOUS
  <1> DEFINE Ending == {"closeLoop", "done", "aborted", "crashed"}
  <1> USE DEF timerVars, loopVars, histVars
  <1>1. ASSUME heap # <<>>
        PROVE  bound # {}
    <2>1. Head(heap) \in Armed
      BY <1>1, TailHeap, ArmedElements DEF TypeOK
    <2>2. QED
      BY <2>1 DEF ArmedIsOwned
  <1>2. CASE FreeRuntime
    BY <1>2 DEF FreeRuntime, CloseOwn, CloseInv, ClosesUnlessBound, TypeOK
  <1>3. CASE RunNoWait
    <2>1. tries = 0 => LoopAlive
      BY <1>3 DEF RunNoWait, CloseInv, LoopAlive
    <2>2. own' = "closed" /\ Closing' = {}
      <3>1. CASE LoopAlive
        <4>1. own \in {"closing", "closed"}
          BY <1>3 DEF RunNoWait, CloseInv, TypeOK
        <4>2. QED
          BY <1>3, <3>1, <4>1 DEF RunNoWait, FreeClosed, Closing
      <3>2. CASE ~LoopAlive
        <4>1. tries > 0
          BY <2>1, <3>2 DEF TypeOK
        <4>2. QED
          BY <1>3, <3>2, <4>1 DEF RunNoWait, CloseInv, Closing
      <3>3. QED
        BY <3>1, <3>2
    <2>3. \A t \in Timers : mem'[t] = "open" => t \in bound'
      BY <1>3 DEF RunNoWait, FreeClosed, CloseInv, TypeOK
    <2>4. tries > 0 => bound # {}
      BY <1>3 DEF RunNoWait, CloseInv, LoopEmpty, Closing, TypeOK
    <2>5. QED
      BY <1>3, <2>2, <2>3, <2>4 DEF RunNoWait, CloseInv, ClosesUnlessBound, TypeOK
  <1>4. CASE RunStale
    BY <1>4, <1>1 DEF RunStale, Expired, CloseInv, ClosesUnlessBound, Closing
  <1>5. CASE CloseLoop \/ AbortClose
    BY <1>5 DEF CloseLoop, AbortClose, CloseInv, ClosesUnlessBound, Closing
  <1>6. CASE Tick \/ Sleep \/ Finished \/ UNCHANGED vars
    BY <1>6 DEF Tick, Sleep, Finished, vars, CloseInv, ClosesUnlessBound, Closing
  <1>7. CASE \/ Program \/ PollIo \/ Stop \/ Run \/ Iterate \/ LeaveLoop
             \/ RunTimer \/ TimersDone \/ CallTimer \/ CallCleared \/ EndCallback
             \/ StartJob \/ EndJob \/ FailJob \/ JobsDrained
             \/ Prepare \/ EndIo \/ PollStop \/ PollDone \/ CheckIdle
             \/ CloseHandles \/ \E ok \in BOOLEAN : EndScript(ok)
    <2>1. phase \notin Ending /\ phase' \notin Ending /\ tries' = tries
      BY <1>7 DEF Program, Operation, SetTimeout, ClearTimeout, DropRef,
         EnqueueJob, StartIo, PollIo, Stop, Run, Iterate, LeaveLoop, RunTimer,
         TimersDone, CallTimer, CallCleared, EndCallback, StartJob, EndJob,
         FailJob, JobsDrained, AfterJobs, Prepare, EndIo, PollStop, PollDone,
         CheckIdle, CloseHandles, EndScript, FrameInv, TypeOK, JSFrames
    <2>2. QED
      BY <2>1 DEF CloseInv, ClosesUnlessBound
  <1>8. QED
    BY <1>2, <1>3, <1>4, <1>5, <1>6, <1>7 DEF Next, Loop

-----------------------------------------------------------------------------
(***************************************************************************)
(* The theorems                                                            *)
(***************************************************************************)

\* A runtime starts in a state that satisfies the inductive invariant.
LEMMA InitIInv == Init => IInv
  <1> SUFFICES ASSUME Init
               PROVE  IInv
    OBVIOUS
  <1>1. TypeOK
    BY InitType
  <1>2. FrameInv /\ IdleInv /\ CloseInv
    BY DEF Init, FrameInv, IdleInv, CloseInv
  <1>3. TimerInv /\ ArmedIsOwned /\ CurrentNotFreed
    BY DEF Init, TimerInv, ArmedIsOwned, CurrentNotFreed, Armed, Distinct
  <1>4. NeverSleepsOnJobs /\ ReturnsDrained /\ ClosesUnlessBound
    BY DEF Init, NeverSleepsOnJobs, ReturnsDrained, ClosesUnlessBound
  <1>5. QED
    BY <1>1, <1>2, <1>3, <1>4 DEF IInv

\* Every step keeps the inductive invariant: the lemmas above, put together.
LEMMA NextIInv == IInv /\ [Next]_vars => IInv'
  <1> SUFFICES ASSUME IInv, [Next]_vars
               PROVE  IInv'
    OBVIOUS
  <1>1. TypeOK' /\ FrameInv'
    BY NextType, NextFrame DEF IInv
  <1>2. IdleInv' /\ ReturnsDrained'
    BY NextIdle DEF IInv
  <1>3. TimerInv' /\ ArmedIsOwned' /\ CurrentNotFreed'
    BY NextTimer DEF IInv
  <1>4. CloseInv' /\ ClosesUnlessBound'
    BY NextClose DEF IInv
  <1>5. NeverSleepsOnJobs'
    BY <1>1, <1>2 DEF NeverSleepsOnJobs, NoWait, IdleInv, TypeOK
  <1>6. QED
    BY <1>1, <1>2, <1>3, <1>4, <1>5 DEF IInv

\* IInv holds in every reachable state of the runtime.
THEOREM Invariance == Spec => []IInv
  <1>1. QED
    BY InitIInv, NextIInv, PTL DEF Spec

\* Every variable of the runtime keeps its type, for any set of timers.
THEOREM TypeCorrect == Spec => []TypeOK
  BY Invariance, PTL DEF IInv

\* The loop never sleeps, and never ends by itself, with a job pending.
THEOREM JobsNotStranded == Spec => [](NeverSleepsOnJobs /\ ReturnsDrained)
  BY Invariance, PTL DEF IInv

\* An armed timer owns its object and callback, and uvTimerCb never works on a
\* freed struct.
THEOREM TimerMemorySafe == Spec => [](ArmedIsOwned /\ CurrentNotFreed)
  BY Invariance, PTL DEF IInv

\* Closing the loop fails only over a timer that is still bound.
THEOREM CloseFailureCause == Spec => []ClosesUnlessBound
  BY Invariance, PTL DEF IInv

\* A cleared timer is not called any more, and a one-shot timer is called once.
THEOREM NoLateCalls == Spec => NoLateCall
  <1> DEFINE Ok == \A t \in Timers :
                     js # "timer" /\ js' = "timer" /\ cur' = t =>
                       t \notin cleared /\ (t \in called => t \in interval)
  <1>1. IInv /\ [Next]_vars => [Ok]_vars
    <2> SUFFICES ASSUME IInv, Next, NEW t \in Timers,
                        js # "timer", js' = "timer", cur' = t
                 PROVE  t \notin cleared /\ (t \in called => t \in interval)
      OBVIOUS
    <2>1. CallTimer
      BY DEF Next, Loop, Program, SetTimeout, ClearTimeout, DropRef, EnqueueJob,
         StartIo, PollIo, Stop, Tick, Sleep, Finished, vars, Run, Iterate,
         LeaveLoop, RunTimer, TimersDone, CallCleared, EndCallback, StartJob,
         EndJob, FailJob, JobsDrained, Prepare, EndIo, PollStop, PollDone,
         CheckIdle, CloseHandles, FreeRuntime, CloseLoop, RunNoWait, RunStale,
         AbortClose, EndScript
    <2>2. t \in bound /\ phase = "fire"
      BY <2>1 DEF CallTimer
    <2>3. QED
      BY <2>2 DEF IInv, TimerInv
  <1>2. QED
    BY <1>1, Invariance, PTL DEF Spec, NoLateCall

=============================================================================
