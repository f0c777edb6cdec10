------------------------------ MODULE Process --------------------------------
(***************************************************************************)
(* Child processes (ijprocess.c) and signal handlers (ijsignals.c) of one  *)
(* loop. Both rest on libuv's signal pipe: the signal handler proper runs  *)
(* at any moment and writes one message per watcher of the signal into the *)
(* pipe; the loop reads the messages and calls the watchers. The watcher   *)
(* of SIGCHLD (loop->child_watcher) reaps the children that have exited.   *)
(*                                                                         *)
(* The function of a SignalHandler runs inside that loop over messages, so *)
(* the program's calls may come between two of them.                       *)
(*                                                                         *)
(* A call that throws changes nothing and is not a step, but for the two   *)
(* that leave something behind: SpawnFails and SignalFails.                *)
(***************************************************************************)
EXTENDS Integers, Sequences, FiniteSets

CONSTANTS
  Children,   \* the Process objects the program makes
  Handlers,   \* its SignalHandler objects
  Watcher,    \* loop->child_watcher
  None,       \* no promise, no handler
  PipeMax,    \* messages the signal pipe holds
  MaxSignals, \* bound: signals sent to the program
  MaxOps      \* bound: calls of the program

ASSUME ProcessAssumption ==
  /\ IsFiniteSet(Children)
  /\ IsFiniteSet(Handlers)
  /\ Children \cap Handlers = {}
  /\ Watcher \notin Children \cup Handlers
  /\ None \notin Handlers \cup {Watcher} \cup Nat
  /\ PipeMax \in 1..32
  /\ MaxSignals \in Nat
  /\ MaxOps \in Nat

Ops      == 1..MaxOps
Handles  == Children \cup Handlers
Watchers == Handlers \cup {Watcher}
Signums  == {"CHLD", "USR"}

VARIABLES
  \* the structs and their libuv handles
  mem,        \* the IJJSProcess or IJJSSignalHandler: "none" before it is made
  closed,     \* p->closed, sh->closed
  finalized,  \* p->finalized, sh->finalized
  held,       \* the objects the program references
  uv,         \* the libuv handle: "none", "open", "closing", "closed"
  failed,     \* handles of calls that failed: freed, and still in the loop's list
  \* children
  proc,       \* what the pid names: see Procs
  watched,    \* loop->process_handles
  exited,     \* p->status.exited
  slot,       \* p->status.result
  prom,       \* the promises of wait()
  asked,      \* history: the child a promise is about, or None
  replaced,   \* history: promises a later wait() pushed out of the slot
  ops,        \* calls so far
  \* signals
  signum,     \* handle->signum, "none" when stopped
  raised,     \* signals the kernel has not delivered
  pipe,       \* messages in the signal pipe
  batch,      \* messages uv__signal_event has read
  trapped,    \* caught_signals - dispatched_signals
  current,    \* the handler whose function runs
  signals,    \* signals so far
  lost,       \* history: a message for the child watcher did not fit the pipe
  fault

structVars == <<mem, closed, finalized, held, uv, failed>>
childVars  == <<proc, watched, exited>>
waitVars   == <<slot, prom, asked, replaced>>
pipeVars   == <<raised, pipe, batch, trapped, current, signals, lost>>
vars == <<structVars, childVars, waitVars, ops, signum, pipeVars, fault>>

\* "reaped": nobody has the pid. "foreign": another process has it.
Procs == {"none", "running", "zombie", "reaped", "foreign"}

-----------------------------------------------------------------------------
(***************************************************************************)
(* Calls of the program, from a job or from the function of a handler      *)
(***************************************************************************)

Call ==
  /\ fault = "none"
  /\ batch = <<>> \/ current # None
  /\ ops < MaxOps
  /\ ops' = ops + 1

\* A struct is made and its handle linked into the loop.
Make(x) ==
  /\ mem[x] = "none"
  /\ mem' = [mem EXCEPT ![x] = "live"]
  /\ uv' = [uv EXCEPT ![x] = "open"]
  /\ held' = held \cup {x}
  /\ UNCHANGED <<closed, finalized, failed>>

\* The call fails after its handle was linked, and frees the struct.
MakeFails(x) ==
  /\ mem[x] = "none"
  /\ mem' = [mem EXCEPT ![x] = "freed"]
  /\ failed' = failed \cup {x}
  /\ UNCHANGED <<closed, finalized, held, uv>>

\* uv_signal_start(&loop->child_watcher, uv__chld, SIGCHLD)
WatchChildren == signum' = [signum EXCEPT ![Watcher] = "CHLD"]

\* ijSpawn
Spawn(c) ==
  /\ Call
  /\ Make(c)
  /\ proc' = [proc EXCEPT ![c] = "running"]
  /\ watched' = watched \cup {c}
  /\ WatchChildren
  /\ UNCHANGED <<exited, waitVars, pipeVars, fault>>

\* uv_spawn fails before it starts the watcher; in fork() or exec(), when the
\* child, if there was one, is waited for at once; or when it opens the pipes of a
\* child that runs.
SpawnFails(c) ==
  /\ Call
  /\ MakeFails(c)
  /\ \/ UNCHANGED <<signum, raised, proc>>
     \/ WatchChildren /\ raised' \in {raised, raised \cup {"CHLD"}} /\ UNCHANGED proc
     \/ WatchChildren /\ proc' = [proc EXCEPT ![c] = "running"] /\ UNCHANGED raised
  /\ UNCHANGED <<watched, exited, waitVars, pipe, batch, trapped, current, signals,
                 lost, fault>>

\* p->status.exited
HasExited(c) == c \in exited

\* ijProcessWait. A pending promise in the slot is replaced.
Wait(c) ==
  /\ Call
  /\ c \in held
  /\ HasExited(c) \/ c \notin closed
  /\ asked' = [asked EXCEPT ![ops + 1] = c]
  /\ IF HasExited(c)
     THEN prom' = [prom EXCEPT ![ops + 1] = "resolved"] /\ UNCHANGED <<slot, replaced>>
     ELSE /\ prom' = [prom EXCEPT ![ops + 1] = "pending"]
          /\ slot' = [slot EXCEPT ![c] = ops + 1]
          /\ replaced' = replaced \cup ({slot[c]} \ {None})
  /\ UNCHANGED <<structVars, childVars, signum, pipeVars, fault>>

\* ijProcessKill with a signal that ends the process; ESRCH when the pid is free.
Kill(c) ==
  /\ Call
  /\ c \in held
  /\ proc[c] # "reaped"
  /\ proc' = IF proc[c] = "running" THEN [proc EXCEPT ![c] = "zombie"] ELSE proc
  /\ raised' = IF proc[c] = "running" THEN raised \cup {"CHLD"} ELSE raised
  /\ UNCHANGED <<structVars, watched, exited, waitVars, signum, pipe, batch, trapped,
                 current, signals, lost, fault>>

\* ijSignal
Signal(h, s) ==
  /\ Call
  /\ Make(h)
  /\ signum' = [signum EXCEPT ![h] = s]
  /\ UNCHANGED <<childVars, waitVars, pipeVars, fault>>

\* ijSignal when uv_signal_start fails (SIGKILL, for one)
SignalFails(h) ==
  /\ Call
  /\ MakeFails(h)
  /\ UNCHANGED <<childVars, waitVars, signum, pipeVars, fault>>

-----------------------------------------------------------------------------
(***************************************************************************)
(* Closing and the lifetime of the structs                                 *)
(***************************************************************************)

\* Mutant: the close of any child stops the watcher.
StopIfLastAlways(left) == signum' = [signum EXCEPT ![Watcher] = "none"]

\* uv__process_close stops the watcher with the last child.
StopIfLast(left) ==
  signum' = IF left = {} THEN [signum EXCEPT ![Watcher] = "none"] ELSE signum

\* uvMaybeClose of a child
CloseChild(c) ==
  IF uv[c] = "open"
  THEN /\ uv' = [uv EXCEPT ![c] = "closing"]
       /\ watched' = watched \ {c}
       /\ StopIfLast(watched \ {c})
  ELSE UNCHANGED <<uv, watched, signum>>

\* uv__signal_stop
SignalStop(h) == signum' = [signum EXCEPT ![h] = "none"]

\* uvMaybeClose of a handler
CloseSignal(h) ==
  /\ UNCHANGED watched
  /\ IF uv[h] = "open"
     THEN uv' = [uv EXCEPT ![h] = "closing"] /\ SignalStop(h)
     ELSE UNCHANGED <<uv, signum>>

\* ijSgnalHandlerClose
Close(h) ==
  /\ Call
  /\ h \in held
  /\ CloseSignal(h)
  /\ UNCHANGED <<mem, closed, finalized, held, failed, proc, exited, waitVars, pipeVars,
                 fault>>

\* The program lets go of an object.
Drop(x) ==
  /\ Call
  /\ x \in held
  /\ held' = held \ {x}
  /\ UNCHANGED <<mem, closed, finalized, uv, failed, childVars, waitVars, signum,
                 pipeVars, fault>>

\* Mutant: the finalizer does not wait for the close callback.
FinalizeFreesAlways(x) == mem' = [mem EXCEPT ![x] = "freed"]

\* The finalizer frees what the close callback has already left.
FinalizeFrees(x) == mem' = IF x \in closed THEN [mem EXCEPT ![x] = "freed"] ELSE mem

\* ijProcessFinalizer, ijSignalHandlerFinalizer: at once when the last reference
\* goes, also inside the function of a handler. The child itself runs on.
Collect(x) ==
  /\ fault = "none"
  /\ mem[x] = "live"
  /\ x \notin held \cup finalized
  /\ finalized' = finalized \cup {x}
  /\ FinalizeFrees(x)
  /\ IF x \in Children
     THEN /\ prom' = [p \in Ops |-> IF p = slot[x] THEN "dropped" ELSE prom[p]]
          /\ slot' = [slot EXCEPT ![x] = None]
     ELSE UNCHANGED <<prom, slot>>
  /\ IF x \in closed
     THEN UNCHANGED <<uv, watched, signum>>
     ELSE IF x \in Children THEN CloseChild(x) ELSE CloseSignal(x)
  /\ UNCHANGED <<closed, held, failed, proc, exited, asked, replaced, ops, pipeVars,
                 fault>>

\* Mutant: the close callback does not wait for the messages in the pipe.
MayFinishNow(x) == TRUE

\* uv__finish_close puts a signal handle back while messages for it are under way.
MayFinish(x) == x \in Handlers => trapped[x] = 0

\* uv__run_closing_handles, uvCloseCb, uvSignalCloseCb
CloseCb(x) ==
  /\ fault = "none"
  /\ batch = <<>>
  /\ uv[x] = "closing"
  /\ MayFinish(x)
  /\ uv' = [uv EXCEPT ![x] = "closed"]
  /\ closed' = closed \cup {x}
  /\ mem' = IF x \in finalized THEN [mem EXCEPT ![x] = "freed"] ELSE mem
  /\ UNCHANGED <<finalized, held, failed, childVars, waitVars, ops, signum, pipeVars,
                 fault>>

\* The list of the loop's handles holds a freed one: whatever makes, closes or
\* walks a handle beside it writes to freed memory.
TouchFailed ==
  /\ fault = "none"
  /\ failed # {}
  /\ fault' = "freedInList"
  /\ UNCHANGED <<structVars, childVars, waitVars, ops, signum, pipeVars>>

-----------------------------------------------------------------------------
(***************************************************************************)
(* The signal pipe                                                         *)
(***************************************************************************)

Min2(a, b) == IF a < b THEN a ELSE b

\* Every order in which the watchers ws can be told, as far as there is room.
\* (They are sorted by address.)
Tellings(ws) ==
  LET n == Min2(Cardinality(ws), PipeMax - Len(pipe))
  IN  {f \in [1..n -> ws] : \A i, j \in 1..n : i # j => f[i] # f[j]}

\* caught_signals++
Caught(ws) ==
  trapped' = [w \in Watchers |-> IF w \in ws THEN trapped[w] + 1 ELSE trapped[w]]

\* uv__signal_handler
SignalHandler(s) ==
  /\ fault = "none"
  /\ s \in raised
  /\ raised' = raised \ {s}
  /\ LET ws == {w \in Watchers : signum[w] = s}
     IN  \E told \in Tellings(ws) :
           LET rng == {told[i] : i \in DOMAIN told}
           IN  /\ pipe' = pipe \o [i \in DOMAIN told |-> [handle |-> told[i], signum |-> s]]
               /\ Caught(rng)
               /\ lost' = (lost \/ Watcher \in ws \ rng)
  /\ UNCHANGED <<structVars, childVars, waitVars, ops, signum, batch, current, signals,
                 fault>>

\* uv__signal_event reads what the pipe holds (up to 32 messages).
ReadPipe ==
  /\ fault = "none"
  /\ batch = <<>>
  /\ pipe # <<>>
  /\ batch' = pipe
  /\ pipe' = <<>>
  /\ UNCHANGED <<structVars, childVars, waitVars, ops, signum, raised, trapped, current,
                 signals, lost, fault>>

\* The message is dealt with: dispatched_signals++
Dispatched ==
  /\ batch' = Tail(batch)
  /\ trapped' = [trapped EXCEPT ![Head(batch).handle] = @ - 1]

\* Mutant: one message reaps one child.
ReapableOne ==
  LET all == {c \in watched : proc[c] = "zombie"}
  IN  {c \in all : c = CHOOSE d \in all : TRUE}

\* waitpid() returns their status.
Reapable == {c \in watched : proc[c] = "zombie"}

\* The children whose exit callback ran
ExitedNow == exited \cup Reapable

\* uv__chld and uvExitCb: every child that has exited is reaped, its wait()
\* settled and its handle closed.
Chld ==
  /\ proc' = [c \in Children |-> IF c \in Reapable THEN "reaped" ELSE proc[c]]
  /\ exited' = ExitedNow
  /\ prom' = [p \in Ops |-> IF \E c \in Reapable : slot[c] = p THEN "resolved"
                            ELSE prom[p]]
  /\ slot' = [c \in Children |-> IF c \in Reapable THEN None ELSE slot[c]]
  /\ watched' = watched \ Reapable
  /\ uv' = [x \in Handles |-> IF x \in Reapable THEN "closing" ELSE uv[x]]
  /\ IF Reapable = {} THEN UNCHANGED signum ELSE StopIfLast(watched \ Reapable)
  /\ UNCHANGED <<mem, closed, finalized, held, failed, asked, replaced>>

\* Mutant: the handler is called although it was stopped.
IsMeantAlways(m) == TRUE

\* The handle still watches the signal.
IsMeant(m) == m.signum = signum[m.handle]

\* A message in the batch of a handle that is freed
Stale == mem[Head(batch).handle] = "freed"

\* uv__signal_event: the next message of the batch
Dispatch ==
  /\ fault = "none"
  /\ batch # <<>>
  /\ current = None
  /\ LET m == Head(batch)
     IN  \/ /\ m.handle = Watcher
            /\ IsMeant(m)
            /\ Chld
            /\ Dispatched
            /\ UNCHANGED <<current, fault>>
         \/ /\ m.handle # Watcher
            /\ ~Stale
            /\ IsMeant(m)
            /\ current' = m.handle
            /\ UNCHANGED <<structVars, childVars, waitVars, signum, batch, trapped, fault>>
         \/ /\ m.handle # Watcher
            /\ Stale
            /\ fault' = "freedHandle"
            /\ UNCHANGED <<structVars, childVars, waitVars, signum, batch, trapped, current>>
         \/ /\ m.handle # Watcher => ~Stale
            /\ ~IsMeant(m)
            /\ Dispatched
            /\ UNCHANGED <<structVars, childVars, waitVars, signum, current, fault>>
  /\ UNCHANGED <<ops, raised, pipe, signals, lost>>

\* The function of the handler returns.
EndHandler ==
  /\ fault = "none"
  /\ current # None
  /\ current' = None
  /\ Dispatched
  /\ UNCHANGED <<structVars, childVars, waitVars, ops, signum, raised, pipe, signals,
                 lost, fault>>

-----------------------------------------------------------------------------
(***************************************************************************)
(* The kernel                                                              *)
(***************************************************************************)

\* A child exits. A second SIGCHLD before the first is delivered is the same one.
Exit(c) ==
  /\ fault = "none"
  /\ proc[c] = "running"
  /\ proc' = [proc EXCEPT ![c] = "zombie"]
  /\ raised' = raised \cup {"CHLD"}
  /\ UNCHANGED <<structVars, watched, exited, waitVars, ops, signum, pipe, batch, trapped,
                 current, signals, lost, fault>>

\* The pid of a reaped child is given to another process.
Recycle(c) ==
  /\ fault = "none"
  /\ proc[c] = "reaped"
  /\ proc' = [proc EXCEPT ![c] = "foreign"]
  /\ UNCHANGED <<structVars, watched, exited, waitVars, ops, signum, pipeVars, fault>>

\* A signal is sent to the program, which has a handler for it.
Raise ==
  /\ fault = "none"
  /\ signals < MaxSignals
  /\ signals' = signals + 1
  /\ \E h \in Handlers : signum[h] = "USR"
  /\ raised' = raised \cup {"USR"}
  /\ UNCHANGED <<structVars, childVars, waitVars, ops, signum, pipe, batch, trapped,
                 current, lost, fault>>

-----------------------------------------------------------------------------
Init ==
  /\ mem = [x \in Handles |-> "none"]
  /\ closed = {}
  /\ finalized = {}
  /\ held = {}
  /\ uv = [x \in Handles |-> "none"]
  /\ failed = {}
  /\ proc = [c \in Children |-> "none"]
  /\ watched = {}
  /\ exited = {}
  /\ slot = [c \in Children |-> None]
  /\ prom = [p \in Ops |-> "none"]
  /\ asked = [p \in Ops |-> None]
  /\ replaced = {}
  /\ ops = 0
  /\ signum = [w \in Watchers |-> "none"]
  /\ raised = {}
  /\ pipe = <<>>
  /\ batch = <<>>
  /\ trapped = [w \in Watchers |-> 0]
  /\ current = None
  /\ signals = 0
  /\ lost = FALSE
  /\ fault = "none"

Program ==
  \/ \E c \in Children : Spawn(c) \/ SpawnFails(c) \/ Wait(c) \/ Kill(c)
  \/ \E h \in Handlers : SignalFails(h) \/ Close(h) \/ \E s \in Signums : Signal(h, s)
  \/ \E x \in Handles : Drop(x)

Loop ==
  \/ ReadPipe
  \/ Dispatch
  \/ EndHandler
  \/ \E x \in Handles : CloseCb(x)

Environment ==
  \/ \E s \in Signums : SignalHandler(s)
  \/ \E c \in Children : Exit(c) \/ Recycle(c)
  \/ \E x \in Handles : Collect(x)
  \/ Raise
  \/ TouchFailed

Next == Program \/ Loop \/ Environment

Spec == Init /\ [][Next]_vars

\* The kernel delivers signals, the loop keeps running and the functions of
\* handlers return.
FairSpec ==
  /\ Spec
  /\ \A s \in Signums : WF_vars(SignalHandler(s))
  /\ WF_vars(ReadPipe)
  /\ WF_vars(Dispatch)
  /\ WF_vars(EndHandler)
  /\ \A x \in Handles : WF_vars(CloseCb(x))

-----------------------------------------------------------------------------
(***************************************************************************)
(* Properties                                                              *)
(***************************************************************************)

TypeOK ==
  /\ mem \in [Handles -> {"none", "live", "freed"}]
  /\ uv \in [Handles -> {"none", "open", "closing", "closed"}]
  /\ {closed, finalized, held, failed} \subseteq SUBSET Handles
  /\ proc \in [Children -> Procs]
  /\ {watched, exited} \subseteq SUBSET Children
  /\ slot \in [Children -> Ops \cup {None}]
  /\ prom \in [Ops -> {"none", "pending", "resolved", "dropped"}]
  /\ asked \in [Ops -> Children \cup {None}]
  /\ replaced \subseteq Ops
  /\ ops \in 0..MaxOps
  /\ signum \in [Watchers -> Signums \cup {"none"}]
  /\ raised \subseteq Signums
  /\ pipe \in Seq([handle : Watchers, signum : Signums])
  /\ batch \in Seq([handle : Watchers, signum : Signums])
  /\ Len(pipe) <= PipeMax
  /\ trapped \in [Watchers -> Nat]
  /\ current \in Handlers \cup {None}
  /\ signals \in 0..MaxSignals
  /\ lost \in BOOLEAN
  /\ fault \in {"none", "freedInList", "freedHandle"}

\* A message in the pipe or in the batch points to a struct that exists, although
\* close() and the collector may come at any time after it was written, and the
\* function of one handler may close another one whose message is next.
MessageTargetLive ==
  \A q \in {pipe, batch} : \A i \in DOMAIN q :
    q[i].handle # Watcher => mem[q[i].handle] = "live"

\* The function of a handler is not called after close() or collection.
NoLateSignal ==
  [][current' # current /\ current' # None => uv[current'] = "open"]_vars

\* Until an object reports the exit of its child, kill() and pid speak of that
\* child: it is not reaped, and nobody else has its pid.
PidIsOwn == \A c \in held \cap Children : c \notin exited => proc[c] \in {"running", "zombie"}

\* While a child is watched, SIGCHLD is: the close of one child does not end it
\* for the others, and a spawn that fails does not either.
ChildrenWatched == watched # {} => signum[Watcher] = "CHLD"

\* A wait() that is pending will be settled by the exit of its child, unless a
\* second wait() took its place.
WaitIsServed ==
  \A p \in Ops :
    prom[p] = "pending" => p \in replaced \/ (slot[asked[p]] = p /\ asked[p] \in watched)

\* What the loop's list of handles links is not freed, but for the handle of a
\* spawn() or signal() that failed, and nothing else leads to an undefined state.
ListIsLive ==
  /\ \A x \in Handles : uv[x] \in {"open", "closing"} => mem[x] = "live"
  /\ fault # "none" => failed # {}

\* Every child that runs is watched, reaped for its own object only and told to
\* whoever waits, and the loop's list holds no freed struct.
Inv == TypeOK /\ PidIsOwn /\ ChildrenWatched /\ WaitIsServed /\ ListIsLive

\* Child c as an instance of HandleLifetime; before spawn() it is in the initial
\* state.
Lifetime(c) == INSTANCE HandleLifetime WITH
  Promises <- Ops,
  owners <- (IF c \in finalized THEN {} ELSE {"object"})
              \cup (IF c \in closed THEN {} ELSE {"loop"}),
  mem <- IF mem[c] = "none" \/ c \in failed THEN "live" ELSE mem[c],
  prom <- [p \in Ops |-> IF asked[p] = c THEN prom[p] ELSE "none"]

\* Every Process implements HandleLifetime: its struct is freed once, by the last
\* of its two owners, and a promise of wait() is settled at most once and only
\* while the struct exists.
ImplementsLifetime ==
  /\ \A c \in Children : Lifetime(c)!Init
  /\ [][\A c \in Children : [Lifetime(c)!Next]_(Lifetime(c)!vars)]_vars

\* A child that exits is noticed, however its SIGCHLD coincides with others,
\* unless the pipe was full or the object is gone.
ExitIsNoticed ==
  \A c \in Children :
    c \in watched /\ proc[c] = "zombie" ~>
      c \in exited \/ c \in finalized \/ lost \/ fault # "none"

\* close() and the collection of a handler end with its close callback: the
\* messages that delay it are read in the end.
CloseCompletes ==
  \A h \in Handlers : uv[h] = "closing" ~> uv[h] = "closed" \/ fault # "none"

\* What the signal pipe is for comes to pass: uv__chld sees every exit, and
\* uv__finish_close is not put off for ever by messages under way.
Settles == ExitIsNoticed /\ CloseCompletes

=============================================================================
