------------------------------- MODULE Worker --------------------------------
(***************************************************************************)
(* A Worker (ijworker.c): the thread that creates it, the thread that runs *)
(* it, the handshake that starts it, the socket pair between them and      *)
(* terminate(). Each thread runs the loop of module EventLoop, seen here   *)
(* as an iteration of two phases: "poll", in which libuv calls back, and   *)
(* "check", in which jobs and with them the program run.                   *)
(*                                                                         *)
(* A message is its number and its size. Bytes are counted in units: a     *)
(* read takes at most Chunk of them (the 64 KiB libuv suggests to          *)
(* uvAllocCb) and the socket holds at most Capacity.                       *)
(*                                                                         *)
(* uvReadCb decodes all of the buffer that uvAllocCb got from js_malloc,   *)
(* however little of it the read has filled. `Leftover' is whatever the    *)
(* rest of it makes of the message.                                        *)
(*                                                                         *)
(* `fault' names a use of freed memory. What the process does after one    *)
(* is undefined, and the model stops there.                                *)
(***************************************************************************)
EXTENDS Integers, Sequences, FiniteSets

CONSTANTS
  Sizes,     \* sizes of the messages the programs post
  Chunk,     \* units one read returns at most
  Capacity,  \* units the socket holds at most, in each direction
  MaxReads,  \* reads libuv makes in a row while each fills its buffer
  MaxPosts,  \* bound: messages posted, both ways together
  Burst,     \* may a program post before its last message was received?
  MayFail    \* may the worker's script throw?

ASSUME WorkerAssumption ==
  /\ Sizes \subseteq Nat \ {0}
  /\ Chunk \in Nat \ {0}
  /\ Capacity \in Nat \ {0}
  /\ MaxReads \in Nat \ {0}
  /\ MaxPosts \in Nat
  /\ Burst \in BOOLEAN
  /\ MayFail \in BOOLEAN

Sides == {"main", "worker"}
Peer(s) == IF s = "main" THEN "worker" ELSE "main"

VARIABLES
  pc,        \* where each thread is
  sem,       \* the semaphore of the constructor
  wdWrt,     \* worker_data.wrt was set, in the constructor's frame
  ptr,       \* w->wrt, the constructing side's pointer to the runtime
  rt,        \* the worker's IJJSRuntime
  stopSent,  \* its stop async was sent and the callback has not run
  stopFlag,  \* loop->stop_flag of its loop
  handle,    \* each side's end of the channel
  reading,   \* each side's uv_read_start is in force
  readsLeft, \* reads left to a side that is inside uv__read, or 0
  out,       \* units in a side's libuv write queue
  pollout,   \* a side's loop watches for the socket to become writable
  net,       \* units a side has written and the peer has not read
  unacked,   \* the messages whose uvWriteCb has not run
  broken,    \* of these, the ones that failed
  jobs,      \* a side's pending jobs
  posted,    \* history: sizes of the messages a side posted
  received,  \* history: what a side's message handler was called with
  peak,      \* history: most units a side had posted that were not yet read
  held,      \* the program still references the Worker object
  failed,    \* history: the worker's script threw
  fault

threadVars == <<pc, sem, wdWrt, ptr, rt, stopSent, stopFlag, held, failed>>
chanVars   == <<handle, reading, readsLeft, out, pollout, net, unacked, broken>>
msgVars    == <<jobs, posted, received, peak>>
vars == <<threadVars, chanVars, msgVars, fault>>

Min2(a, b) == IF a < b THEN a ELSE b

\* What the handler is called with: message m, which the read has brought, or
\* what was decoded from memory that no read has filled. js_malloc does not
\* clear it and it may have been an earlier buffer, so that the leftover is an
\* exception, a value nobody posted or a message the handler had before.
MessageJob(m) == [kind |-> "message", msg |-> m]
Leftover == 0
Eval == [kind |-> "eval"]
ErrorJob == [kind |-> "error"]

Running == fault = "none" /\ pc["main"] # "exited"

-----------------------------------------------------------------------------
(***************************************************************************)
(* The start: ijWorkerConstructor and ijWorkerEntry                        *)
(***************************************************************************)

\* The channel and this side's Worker exist, the thread is created and the
\* constructor waits for the semaphore.
Construct ==
  /\ Running
  /\ pc["main"] = "check"
  /\ pc["worker"] = "none"
  /\ pc' = [main |-> "construct", worker |-> "boot"]
  /\ handle' = [handle EXCEPT !["main"] = "open"]
  /\ reading' = [reading EXCEPT !["main"] = TRUE]
  /\ held' = TRUE
  /\ UNCHANGED <<sem, wdWrt, ptr, rt, stopSent, stopFlag, failed, readsLeft,
                 out, pollout, net, unacked, broken, msgVars, fault>>

\* Mutant: the semaphore is posted as soon as the runtime exists.
WorkerBootPostsEarly ==
  /\ Running
  /\ pc["worker"] = "boot"
  /\ pc' = [pc EXCEPT !["worker"] = "booted"]
  /\ rt' = "live"
  /\ sem' = 1
  /\ handle' = [handle EXCEPT !["worker"] = "open"]
  /\ reading' = [reading EXCEPT !["worker"] = TRUE]
  /\ jobs' = [jobs EXCEPT !["worker"] = <<Eval>>]
  /\ UNCHANGED <<wdWrt, ptr, stopSent, stopFlag, held, failed, readsLeft,
                 out, pollout, net, unacked, broken, posted, received, peak, fault>>

\* ijWorkerEntry: the runtime, the other Worker and the job that evaluates
\* the script.
WorkerBoot ==
  /\ Running
  /\ pc["worker"] = "boot"
  /\ pc' = [pc EXCEPT !["worker"] = "booted"]
  /\ rt' = "live"
  /\ handle' = [handle EXCEPT !["worker"] = "open"]
  /\ reading' = [reading EXCEPT !["worker"] = TRUE]
  /\ jobs' = [jobs EXCEPT !["worker"] = <<Eval>>]
  /\ UNCHANGED <<sem, wdWrt, ptr, stopSent, stopFlag, held, failed, readsLeft,
                 out, pollout, net, unacked, broken, posted, received, peak, fault>>

\* wd->wrt = wrt; uv_sem_post(wd->sem); then ijRun.
WorkerPost ==
  /\ Running
  /\ pc["worker"] = "booted"
  /\ wdWrt' = TRUE
  /\ sem' = 1
  /\ pc' = [pc EXCEPT !["worker"] = "poll"]
  /\ UNCHANGED <<ptr, rt, stopSent, stopFlag, held, failed, chanVars,
                 msgVars, fault>>

\* The rest of the constructor. CHECK_NOT_NULL(w->wrt)
Constructed ==
  /\ Running
  /\ pc["main"] = "construct"
  /\ sem = 1
  /\ sem' = 0
  /\ ptr' = wdWrt
  /\ pc' = [pc EXCEPT !["main"] = "check"]
  /\ UNCHANGED <<wdWrt, rt, stopSent, stopFlag, held, failed, chanVars,
                 msgVars, fault>>

-----------------------------------------------------------------------------
(***************************************************************************)
(* Writing                                                                 *)
(***************************************************************************)

Units(m, size) == [i \in 1..size |-> [msg |-> m, part |-> i, of |-> size]]

\* The requests that have units in a write queue
Queued(q) == {q[i].msg : i \in DOMAIN q}

\* uv__write: the first request of queue q, as far as the socket takes it
Write(s, q) ==
  LET n == Min2(q[1].of - q[1].part + 1, Capacity - Len(net[s]))
  IN  /\ out' = [out EXCEPT ![s] = SubSeq(q, n + 1, Len(q))]
      /\ net' = [net EXCEPT ![s] = @ \o SubSeq(q, 1, n)]
      /\ pollout' = [pollout EXCEPT ![s] = n < Len(q)]

\* uv__write to a closed peer: the first request fails, and the socket is no
\* longer watched for the others.
WriteFails(s, q) ==
  /\ out' = [out EXCEPT ![s] = SubSeq(q, q[1].of - q[1].part + 2, Len(q))]
  /\ pollout' = [pollout EXCEPT ![s] = FALSE]
  /\ UNCHANGED net

\* uv__write_callbacks: uvWriteCb for the requests that are not queued any
\* more. Those that failed tell the program through a job (ijMaybeEmitEvent).
WriteCb(s, failing, js) ==
  /\ unacked' = [unacked EXCEPT ![s] = @ \cap Queued(out'[s])]
  /\ broken' = [broken EXCEPT ![s] = {}]
  /\ jobs' = [jobs EXCEPT ![s] =
                js \o [i \in 1..Cardinality(broken[s] \cup failing) |-> ErrorJob]]

AllReceived(s) ==
  \A m \in DOMAIN posted[s] :
    \E i \in DOMAIN received[Peer(s)] : received[Peer(s)][i] = m

\* The program of side s runs: in the worker, once its script was started.
InProgram(s) ==
  /\ pc[s] = "check"
  /\ handle[s] = "open"
  /\ s = "main" => held
  /\ s = "worker" => \A i \in DOMAIN jobs[s] : jobs[s][i] # Eval

\* ijWorkerPostMessage. uv_write writes at once when nothing is waiting; the
\* callback runs in a later iteration.
PostMessage(s, size) ==
  /\ Running
  /\ InProgram(s)
  /\ Len(posted[s]) + Len(posted[Peer(s)]) < MaxPosts
  /\ Burst \/ AllReceived(s)
  /\ LET m == Len(posted[s]) + 1
         q == out[s] \o Units(m, size)
         now == out[s] = <<>> /\ broken[s] = {}
         unread == Len(net[s]) + Len(q)
     IN  /\ posted' = [posted EXCEPT ![s] = Append(@, size)]
         /\ peak' = [peak EXCEPT ![s] = IF unread > @ THEN unread ELSE @]
         /\ unacked' = [unacked EXCEPT ![s] = @ \cup {m}]
         /\ \/ /\ now
               /\ handle[Peer(s)] # "closed"
               /\ Write(s, q)
               /\ UNCHANGED broken
            \/ /\ now
               /\ handle[Peer(s)] = "closed"
               /\ WriteFails(s, q)
               /\ broken' = [broken EXCEPT ![s] = @ \cup {m}]
            \/ /\ ~now
               /\ out' = [out EXCEPT ![s] = q]
               /\ pollout' = [pollout EXCEPT ![s] = TRUE]
               /\ UNCHANGED <<net, broken>>
  /\ UNCHANGED <<threadVars, handle, reading, readsLeft, jobs, received, fault>>

\* The socket is writable, or its peer is gone: one request is written, then
\* the callbacks of the finished requests run.
Writable(s) ==
  /\ Running
  /\ pc[s] = "poll"
  /\ readsLeft[s] = 0
  /\ handle[s] = "open"
  /\ pollout[s]
  /\ \/ /\ handle[Peer(s)] # "closed"
        /\ Len(net[s]) < Capacity
        /\ Write(s, out[s])
        /\ WriteCb(s, {}, jobs[s])
     \/ /\ handle[Peer(s)] = "closed"
        /\ WriteFails(s, out[s])
        /\ WriteCb(s, {out[s][1].msg}, jobs[s])
  /\ UNCHANGED <<threadVars, handle, reading, readsLeft, posted, received, peak, fault>>

-----------------------------------------------------------------------------
(***************************************************************************)
(* Reading: uvReadCb                                                       *)
(***************************************************************************)

\* Mutant: a later part of a message counts as the message.
DecodeAnyPart(buf) == IF Len(buf) > 0 THEN buf[1].msg ELSE Leftover

\* Mutant: a message that ends with the buffer counts as incomplete.
DecodeWantsMore(buf) ==
  IF buf[1].part = 1 /\ Len(buf) > buf[1].of THEN buf[1].msg ELSE Leftover

\* JS_ReadObject decodes one message from the start of the buffer and ignores
\* what follows it. The read has brought a message when it starts with one and
\* holds all of it; else what comes out depends on the rest of the buffer.
Decode(buf) ==
  IF buf[1].part = 1 /\ Len(buf) >= buf[1].of THEN buf[1].msg ELSE Leftover

\* Every read is taken for one message. uv__read goes on after a read that
\* filled its buffer, MaxReads times at most.
ReadMessage(s) ==
  /\ Running
  /\ pc[s] = "poll"
  /\ reading[s]
  /\ net[Peer(s)] # <<>>
  /\ LET n == Min2(Len(net[Peer(s)]), Chunk)
         left == IF readsLeft[s] = 0 THEN MaxReads ELSE readsLeft[s]
     IN  /\ jobs' = [jobs EXCEPT ![s] =
                       Append(@, MessageJob(Decode(SubSeq(net[Peer(s)], 1, n))))]
         /\ net' = [net EXCEPT ![Peer(s)] = SubSeq(@, n + 1, Len(@))]
         /\ readsLeft' = [readsLeft EXCEPT ![s] = IF n < Chunk THEN 0 ELSE left - 1]
  /\ UNCHANGED <<threadVars, handle, reading, out, pollout, unacked, broken,
                 posted, received, peak, fault>>

\* uv__read goes on and nothing is there (EAGAIN): uvReadCb is called with 0
\* bytes, which it takes for a message as well.
ReadNothing(s) ==
  /\ Running
  /\ pc[s] = "poll"
  /\ reading[s]
  /\ readsLeft[s] > 0
  /\ net[Peer(s)] = <<>>
  /\ handle[Peer(s)] # "closed"
  /\ jobs' = [jobs EXCEPT ![s] = Append(@, MessageJob(Leftover))]
  /\ readsLeft' = [readsLeft EXCEPT ![s] = 0]
  /\ UNCHANGED <<threadVars, handle, reading, out, pollout, net, unacked, broken,
                 posted, received, peak, fault>>

\* The end of the stream. When the peer closed with messages unread the error
\* is ECONNRESET, which the program is told. The same event makes libuv try to
\* write.
ReadEnd(s) ==
  /\ Running
  /\ pc[s] = "poll"
  /\ reading[s]
  /\ net[Peer(s)] = <<>>
  /\ handle[Peer(s)] = "closed"
  /\ reading' = [reading EXCEPT ![s] = FALSE]
  /\ readsLeft' = [readsLeft EXCEPT ![s] = 0]
  /\ LET js == IF net[s] = <<>> THEN jobs[s] ELSE Append(jobs[s], ErrorJob)
     IN  IF out[s] # <<>>
         THEN /\ WriteFails(s, out[s])
              /\ WriteCb(s, {out[s][1].msg}, js)
         ELSE /\ jobs' = [jobs EXCEPT ![s] = js]
              /\ UNCHANGED <<out, pollout, net, unacked, broken>>
  /\ UNCHANGED <<threadVars, handle, posted, received, peak, fault>>

-----------------------------------------------------------------------------
(***************************************************************************)
(* The loops of both threads                                               *)
(***************************************************************************)

\* uv__io_poll is done; uvCheckCb runs the jobs.
Poll(s) ==
  /\ Running
  /\ pc[s] = "poll"
  /\ readsLeft[s] = 0
  /\ pc' = [pc EXCEPT ![s] = "check"]
  /\ UNCHANGED <<sem, wdWrt, ptr, rt, stopSent, stopFlag, held, failed,
                 chanVars, msgVars, fault>>

\* ijEmitEvent calls the handler.
EmitEvent(s) ==
  /\ Running
  /\ pc[s] = "check"
  /\ jobs[s] # <<>>
  /\ Head(jobs[s]) # Eval
  /\ jobs' = [jobs EXCEPT ![s] = Tail(@)]
  /\ received' = IF Head(jobs[s]).kind = "message"
                 THEN [received EXCEPT ![s] = Append(@, Head(jobs[s]).msg)]
                 ELSE received
  /\ UNCHANGED <<threadVars, chanVars, posted, peak, fault>>

\* ijWorkerEval: a script that fails to load or throws stops its own runtime.
WorkerEval(ok) ==
  /\ Running
  /\ pc["worker"] = "check"
  /\ jobs["worker"] # <<>>
  /\ Head(jobs["worker"]) = Eval
  /\ ok \/ MayFail
  /\ jobs' = [jobs EXCEPT !["worker"] = Tail(@)]
  /\ stopSent' = (stopSent \/ ~ok)
  /\ failed' = ~ok
  /\ UNCHANGED <<pc, sem, wdWrt, ptr, rt, stopFlag, held, chanVars, posted,
                 received, peak, fault>>

\* uvStop
StopCb ==
  /\ Running
  /\ pc["worker"] = "poll"
  /\ readsLeft["worker"] = 0
  /\ stopSent
  /\ stopSent' = FALSE
  /\ stopFlag' = TRUE
  /\ UNCHANGED <<pc, sem, wdWrt, ptr, rt, held, failed, chanVars, msgVars,
                 fault>>

\* The jobs are done and the next iteration begins with the callbacks of the
\* writes that were finished at once (uv__run_pending).
NextIteration(s) ==
  /\ Running
  /\ pc[s] = "check"
  /\ jobs[s] = <<>>
  /\ s = "worker" => ~stopFlag
  /\ pc' = [pc EXCEPT ![s] = "poll"]
  /\ UNCHANGED <<out, net, pollout>>
  /\ WriteCb(s, {}, jobs[s])
  /\ UNCHANGED <<sem, wdWrt, ptr, rt, stopSent, stopFlag, held, failed,
                 handle, reading, readsLeft, posted, received, peak, fault>>

\* Mutant: the channel stays open when the worker ends.
LeaveLoopKeepsChannel ==
  /\ Running
  /\ pc["worker"] = "check"
  /\ jobs["worker"] = <<>>
  /\ stopFlag
  /\ pc' = [pc EXCEPT !["worker"] = "free"]
  /\ rt' = "closing"
  /\ UNCHANGED <<sem, wdWrt, ptr, stopSent, stopFlag, held, failed, chanVars,
                 msgVars, fault>>

\* uv_run returns to ijWorkerEntry, which frees the runtime: the context, and
\* with it the Worker object, whose finalizer closes the channel.
LeaveLoop ==
  /\ Running
  /\ pc["worker"] = "check"
  /\ jobs["worker"] = <<>>
  /\ stopFlag
  /\ pc' = [pc EXCEPT !["worker"] = "free"]
  /\ rt' = "closing"
  /\ handle' = [handle EXCEPT !["worker"] = "closed"]
  /\ reading' = [reading EXCEPT !["worker"] = FALSE]
  /\ UNCHANGED <<sem, wdWrt, ptr, stopSent, stopFlag, held, failed, readsLeft,
                 out, pollout, net, unacked, broken, msgVars, fault>>

\* ijFreeRuntime runs the loop once more. A write that still waits for its
\* callback gets it now, in a context that is freed.
FreeRuntime ==
  /\ Running
  /\ pc["worker"] = "free"
  /\ IF unacked["worker"] # {}
     THEN fault' = "lateWrite" /\ UNCHANGED <<pc, rt>>
     ELSE /\ pc' = [pc EXCEPT !["worker"] = "ended"]
          /\ rt' = "freed"
          /\ UNCHANGED fault
  /\ UNCHANGED <<sem, wdWrt, ptr, stopSent, stopFlag, held, failed, chanVars,
                 msgVars>>

-----------------------------------------------------------------------------
(***************************************************************************)
(* The end: terminate(), the finalizer and the end of the main loop        *)
(***************************************************************************)

\* Mutant: terminate() joins without a stop.
TerminateOnlyJoins ==
  /\ Running
  /\ InProgram("main")
  /\ ptr
  /\ pc' = [pc EXCEPT !["main"] = "join"]
  /\ UNCHANGED <<sem, wdWrt, ptr, rt, stopSent, stopFlag, held, failed, chanVars,
                 msgVars, fault>>

\* ijWorkerTerminate: ijStop, then uv_thread_join. The runtime behind w->wrt
\* may have gone by itself.
Terminate ==
  /\ Running
  /\ InProgram("main")
  /\ ptr
  /\ IF rt = "live"
     THEN /\ stopSent' = TRUE
          /\ pc' = [pc EXCEPT !["main"] = "join"]
          /\ UNCHANGED fault
     ELSE fault' = "staleStop" /\ UNCHANGED <<stopSent, pc>>
  /\ UNCHANGED <<sem, wdWrt, ptr, rt, stopFlag, held, failed, chanVars, msgVars>>

Joined ==
  /\ Running
  /\ pc["main"] = "join"
  /\ pc["worker"] = "ended"
  /\ ptr' = FALSE
  /\ pc' = [pc EXCEPT !["main"] = "check"]
  /\ UNCHANGED <<sem, wdWrt, rt, stopSent, stopFlag, held, failed, chanVars,
                 msgVars, fault>>

\* The program lets go of the Worker.
Drop ==
  /\ Running
  /\ InProgram("main")
  /\ held' = FALSE
  /\ UNCHANGED <<pc, sem, wdWrt, ptr, rt, stopSent, stopFlag, failed, chanVars,
                 msgVars, fault>>

\* ijWorkerFinalizer frees the handlers and closes the channel (a pending job
\* references the object through its handler). The writes that were not
\* finished are cancelled: uvWriteCb then looks at a handler that is freed.
Finalize ==
  /\ Running
  /\ pc["main"] \in {"poll", "check"}
  /\ ~held
  /\ handle["main"] = "open"
  /\ jobs["main"] = <<>>
  /\ handle' = [handle EXCEPT !["main"] = "closed"]
  /\ reading' = [reading EXCEPT !["main"] = FALSE]
  /\ unacked' = [unacked EXCEPT !["main"] = {}]
  /\ broken' = [broken EXCEPT !["main"] = {}]
  /\ out' = [out EXCEPT !["main"] = <<>>]
  /\ pollout' = [pollout EXCEPT !["main"] = FALSE]
  /\ fault' = IF out["main"] # <<>> \/ broken["main"] # {} THEN "freedHandler" ELSE fault
  /\ UNCHANGED <<threadVars, readsLeft, net, msgVars>>

\* The collector runs while uvReadCb decodes a message for this very Worker.
FinalizeInRead ==
  /\ Running
  /\ pc["main"] = "poll"
  /\ ~held
  /\ reading["main"]
  /\ net["worker"] # <<>>
  /\ jobs["main"] = <<>>
  /\ fault' = "freedHandler"
  /\ UNCHANGED <<threadVars, chanVars, msgVars>>

\* Nothing keeps the main loop alive any more, and main returns.
Exit ==
  /\ Running
  /\ pc["main"] = "poll"
  /\ ~reading["main"]
  /\ unacked["main"] = {}
  /\ jobs["main"] = <<>>
  /\ pc' = [pc EXCEPT !["main"] = "exited"]
  /\ UNCHANGED <<sem, wdWrt, ptr, rt, stopSent, stopFlag, held, failed,
                 chanVars, msgVars, fault>>

Stopped ==
  /\ ~Running
  /\ UNCHANGED vars

-----------------------------------------------------------------------------
Init ==
  /\ pc = [main |-> "check", worker |-> "none"]
  /\ sem = 0
  /\ wdWrt = FALSE
  /\ ptr = FALSE
  /\ rt = "none"
  /\ stopSent = FALSE
  /\ stopFlag = FALSE
  /\ handle = [s \in Sides |-> "none"]
  /\ reading = [s \in Sides |-> FALSE]
  /\ readsLeft = [s \in Sides |-> 0]
  /\ out = [s \in Sides |-> <<>>]
  /\ pollout = [s \in Sides |-> FALSE]
  /\ net = [s \in Sides |-> <<>>]
  /\ unacked = [s \in Sides |-> {}]
  /\ broken = [s \in Sides |-> {}]
  /\ jobs = [s \in Sides |-> <<>>]
  /\ posted = [s \in Sides |-> <<>>]
  /\ received = [s \in Sides |-> <<>>]
  /\ peak = [s \in Sides |-> 0]
  /\ held = FALSE
  /\ failed = FALSE
  /\ fault = "none"

MainThread ==
  \/ Constructed \/ Joined \/ Exit
  \/ Poll("main") \/ NextIteration("main")
  \/ ReadMessage("main") \/ ReadNothing("main") \/ ReadEnd("main")
  \/ Writable("main") \/ EmitEvent("main")

WorkerThread ==
  \/ WorkerBoot \/ WorkerPost \/ StopCb \/ LeaveLoop \/ FreeRuntime
  \/ \E ok \in BOOLEAN : WorkerEval(ok)
  \/ Poll("worker") \/ NextIteration("worker")
  \/ ReadMessage("worker") \/ ReadNothing("worker") \/ ReadEnd("worker")
  \/ Writable("worker") \/ EmitEvent("worker")

Program ==
  \/ Construct \/ Terminate \/ Drop \/ Finalize \/ FinalizeInRead
  \/ \E s \in Sides, size \in Sizes : PostMessage(s, size)

Next == MainThread \/ WorkerThread \/ Program \/ Stopped

Spec == Init /\ [][Next]_vars

\* Both threads are scheduled, a program's frames return, and a poll reports
\* every socket that stays ready and an async that was sent.
FairSpec ==
  /\ Spec
  /\ WF_vars(MainThread)
  /\ WF_vars(WorkerThread)
  /\ SF_vars(StopCb)
  /\ \A s \in Sides : SF_vars(ReadMessage(s)) /\ SF_vars(ReadEnd(s)) /\ SF_vars(Writable(s))

-----------------------------------------------------------------------------
(***************************************************************************)
(* Properties                                                              *)
(***************************************************************************)

Unit == [msg : 1..MaxPosts, part : Nat \ {0}, of : Sizes]
Job == {Eval, ErrorJob} \cup {MessageJob(m) : m \in 0..MaxPosts}

TypeOK ==
  /\ pc["main"] \in {"check", "poll", "construct", "join", "exited"}
  /\ pc["worker"] \in {"none", "boot", "booted", "poll", "check", "free", "ended"}
  /\ sem \in 0..1
  /\ {wdWrt, ptr, stopSent, stopFlag, held, failed} \subseteq BOOLEAN
  /\ rt \in {"none", "live", "closing", "freed"}
  /\ handle \in [Sides -> {"none", "open", "closed"}]
  /\ reading \in [Sides -> BOOLEAN]
  /\ readsLeft \in [Sides -> 0..(MaxReads - 1)]
  /\ out \in [Sides -> Seq(Unit)]
  /\ pollout \in [Sides -> BOOLEAN]
  /\ \A s \in Sides : pollout[s] => out[s] # <<>>
  /\ net \in [Sides -> Seq(Unit)]
  /\ \A s \in Sides : Len(net[s]) <= Capacity
  /\ unacked \in [Sides -> SUBSET (1..MaxPosts)]
  /\ broken \in [Sides -> SUBSET (1..MaxPosts)]
  /\ jobs \in [Sides -> Seq(Job)]
  /\ posted \in [Sides -> Seq(Sizes)]
  /\ received \in [Sides -> Seq(0..MaxPosts)]
  /\ peak \in [Sides -> Nat]
  /\ fault \in {"none", "staleStop", "lateWrite", "freedHandler"}

\* The new thread uses worker_data, the path and the semaphore, which live in
\* the frame of ijWorkerConstructor, only while the constructor waits; and the
\* pointer it leaves there is the one the constructor takes.
HandshakeScoped ==
  /\ pc["worker"] \in {"boot", "booted"} => pc["main"] = "construct"
  /\ pc["worker"] \notin {"none", "boot", "booted"} /\ pc["main"] # "construct" =>
       ptr \/ pc["worker"] = "ended"

\* w->wrt points to a runtime that is gone only when the worker's script
\* failed by itself, or while terminate() waits for the thread it stopped.
DanglingCause ==
  ptr /\ rt \in {"closing", "freed"} => failed \/ pc["main"] = "join"

\* The messages that the reads bring come in the order in which they were
\* posted, none of them twice. The handler is called with a leftover, which may
\* be a message once more, only if at some time as much was posted and not read
\* as fills the buffer of a read, or more than the socket holds. So a program
\* whose unread messages stay below both never gets one twice.
InOrder ==
  \A s \in Sides :
    /\ \A i, j \in DOMAIN received[s] :
         i < j /\ received[s][i] # Leftover /\ received[s][j] # Leftover =>
           received[s][i] < received[s][j]
    /\ \A i \in DOMAIN received[s] :
         received[s][i] = Leftover => peak[Peer(s)] >= Chunk \/ peak[Peer(s)] > Capacity

\* The handler of one side gets what the other side posted: every message,
\* in order, and nothing else.
ReceivedMatches ==
  \A s \in Sides : \A i \in DOMAIN received[s] : received[s][i] = i

\* A program that posts nothing and keeps its Workers uses freed memory only by
\* terminating a worker whose script has failed. A callback of a write looks at
\* freed handlers only after the program has let the Worker go, and runs in a
\* freed context only when the worker posted and ended before the write did.
FaultCause ==
  /\ fault = "staleStop" => failed
  /\ fault = "lateWrite" => posted["worker"] # <<>>
  /\ fault = "freedHandler" => ~held /\ posted["main"] \o posted["worker"] # <<>>

\* What ijWorkerConstructor shares with the new thread, and the pointer to the
\* other runtime, are used only while they are good, but for the named causes.
Inv == TypeOK /\ HandshakeScoped /\ DanglingCause /\ FaultCause

\* terminate() returns.
TerminateReturns == pc["main"] = "join" ~> pc["main"] # "join" \/ ~Running

\* A message that is posted is received, unless one of the ends is closed.
PostedArrives ==
  \A s \in Sides : \A m \in 1..MaxPosts :
    Len(posted[s]) = m ~>
      \/ \E i \in DOMAIN received[Peer(s)] : received[Peer(s)][i] = m
      \/ "closed" \in {handle["main"], handle["worker"]}
      \/ ~Running

\* When the worker's thread is gone, the other side stops reading and no
\* longer keeps its loop alive for messages.
EndIsNoticed == pc["worker"] = "ended" ~> ~reading["main"] \/ ~Running

=============================================================================
