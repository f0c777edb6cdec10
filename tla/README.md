# A TLA+ verification of the IJJS runtime

IJJS (`src/README.md`) is a JavaScript runtime for servers and devices: quickjs
executes the script, libuv waits for the outside world, and about 7,000 lines of
C (`src/code/src/ij*.c`) and JavaScript (`src/code/js/*.js`) join the two. This
directory holds TLA+ modules that model that glue, the TLC configurations that
check them on small instances, and TLAPS proofs of the most important results
for every value of the constants.

What a test reaches badly is what the modules are about: a job that runs between
the expiry of a timer and its callback, an object that the collector finalizes
while libuv still uses its struct, a thread that ends while another one stops it,
a connection that arrives between two calls of `accept()`, a handler that aborts the
request whose event it handles, a packet that arrives after the ones sent later.

## 1. Inventory

The program has one thread per runtime: the main thread, and one for each
`Worker`. Inside a thread everything is sequential, but the order in which libuv
calls back, the jobs (promise reactions) run, the program's own code runs and the
collector finalizes objects is not fixed. Components interact in four ways:

* **calls**: the program calls a C function (`setTimeout`, `socket.read`);
* **callbacks**: libuv calls the C code back from `uv_run` (`uvTimerCb`,
  `uvStreamReadCb`), which settles a promise or calls a JavaScript function;
* **jobs**: settling a promise queues jobs, which `uvCheckCb` and `uvTimerCb` run;
* **messages**: two runtimes exchange bytes over a socket pair and one of them can
  stop the other through a `uv_async_t`.

| component | source | state it keeps | operations | hard behaviour |
|---|---|---|---|---|
| runtime and event loop | `ijvm.c`, `main.c` | the jobs' prepare, idle, check and stop handles, the JSRuntime and its job queue | `ijRun`, `ijExecuteJobs`, `uvMaybeIdle`, `ijStop`, `ijFreeRuntime` | jobs that fail, jobs that queue jobs, stop from another thread, tearing down with handles open |
| timers | `ijtimers.c` | `IJJSTimer`: handle, callback, a reference to its own object | `setTimeout`, `setInterval`, `clearTimeout`, `uvTimerCb`, finalizer | jobs run inside the timer's callback, before it is called; a timer cleared there; memory after the finalizer |
| promise slots | `ijutils.c` | `IJJSPromise`: promise, resolving functions, `valid` | `ijInitPromise`, `ijSettlePromise`, `ijClearPromise`, `ijFreePromiseRT` | settling twice, settling a freed slot, a promise that is never settled |
| TCP, TTY, Pipe | `ijstreams.c` | `IJJSStream`: `closed`, `finalized`, one read slot, one accept slot; requests for write, connect and shutdown | `read`, `write`, `shutdown`, `connect`, `listen`, `accept`, `close`, finalizer | close and finalizer race over the struct; callbacks of requests after close; connections nobody accepts; partial writes |
| UDP | `ijudp.c` | `IJJSUdp`: `closed`, `finalized`, one receive slot | `recv`, `send`, `connect`, `close`, finalizer | as above; the buffer of a queued datagram |
| KCP | `ijkcp.c`, `ikcp.c` | an `ikcpcb` that an idle handle updates, over a UDP handle; one receive slot, one send request | `recv`, `send`, `close`, `uvKcpUpdateCb`, `kcpOutput`; `ikcp_send`, `ikcp_recv`, `ikcp_flush`, `ikcp_input` | lost, repeated and overtaken packets, closed windows, numbers that wrap; the idle handle outlives the session |
| child processes | `ijprocess.c` | `IJJSProcess`: `exited`, status, one wait slot, stdio pipes | `spawn`, `wait`, `kill`, `uvExitCb`, finalizer | exit before, during and after `wait()` |
| signals | `ijsignals.c` | `IJJSSignalHandler`: handle, callback | `signal`, `close`, `uvSignalCb`, finalizer | a signal while the handler closes |
| workers | `ijworker.c`, `worker-bootstrap.js`, `bootstrap2.js` | `IJJSWorker`: channel, handlers, thread, pointer to the other runtime | constructor, `postMessage`, `uvReadCb`, `terminate`, finalizer | two threads, start handshake, join, a runtime that is already gone, several messages in one read |
| files | `ijfs.c` | `IJJSFile`, `IJJSDir`, requests in the thread pool | `open`, `read`, `write`, `close`, `readdir`, `readFile` ... | requests in flight while the file is closed or collected |
| XMLHttpRequest, HTTP client | `ijxhr.c`, `ijutils.c` (curl) | `IJJSXhr`: ready state, buffers, curl handle; the multi handle and its timer | `open`, `send`, `abort`, curl callbacks | events in order, abort inside an event |
| DNS | `ijdns.c` | a request | `getaddrinfo` | - |
| modules | `ijmodules.c` | quickjs' module table | normalizer, loader, `import.meta` | - |
| WebAssembly | `ijwasm.c`, `wasm.js` | wasm3 modules and instances | compile, instantiate, call | lifetime of a module under its instances |
| EventTarget, AbortController | `event-target.js`, `abort-controller.js` | a linked list of listeners per event | add, remove, dispatch | listeners added and removed during a dispatch |
| fetch, performance, console, url, path, encoding, hashlib, uuid, crypto | `src/code/js/*.js` | little | - | - |
| command line | `main.c` | options | parse, evaluate, run | - |
| optional modules | `src/modules/**` | - | PostgreSQL, Redis, websockets, sigar, cron | - |

### What makes each component correct

* **Event loop**: the loop never sleeps and never ends with a job pending; a stop
  makes it return; the runtime can be freed.
* **Timers**: an armed timer fires once, not after it was cleared, and its struct
  stays allocated until libuv has let go of it.
* **Handles** (TCP, TTY, Pipe, UDP, Process, Signal): the struct is freed once,
  after both the close callback and the finalizer; no callback touches a freed
  struct; every promise is settled at most once, and at least once unless the
  handle is closed first; a slot that is pending has libuv working on it.
* **Streams**: the bytes of a stream are sent in the order of the writes.
* **Workers**: a message that is posted is received once, unchanged and in order (the
  code keeps to this only while each read brings one whole message);
  `terminate()` returns after the worker's thread ended and touches no runtime
  that is already freed.
* **UDP**: datagrams leave in the order of the calls, none that was read is lost,
  and every `send()` is settled.
* **Processes and signals**: every exit is noticed, `kill()` reaches nobody else, and
  a message in the signal pipe points to a struct that exists, whatever is closed
  meanwhile.
* **XMLHttpRequest**: the events come in order, every request that is kept ends, and
  libcurl never calls back into a freed struct.
* **KCP**: messages arrive whole, once and in order, and in the end at the other end's
  session; neither side stores more than its window.

`EventTarget` has its rule too (a dispatch calls the listeners that were there when it
began, unless they were removed), but it is third-party code and is left out.

## 2. Plan

The order follows what everything else rests on.

1. `EventLoop`: the runtime, its loop, jobs and timers. **Done**, checked and
   proved (`EventLoopProofs`).
2. `Worker`: two such runtimes, their channel, start and stop. It takes the loop
   as two phases and so composes two copies of what `EventLoop` details. **Done**,
   checked and proved (`WorkerProofs`).
3. `HandleLifetime`, the abstract specification of every handle class, and
   `Stream`, its first implementation. **Done**, checked and proved
   (`StreamProofs`), the refinement included.
4. `Files`: file and directory objects, whose system calls run in the thread
   pool. **Done**, checked and proved (`FilesProofs`).
5. `Udp`, and `Process` with signals, as further implementations of
   `HandleLifetime`. **Done**, checked and proved (`UdpProofs`, `ProcessProofs`).
6. `Xhr`: requests, their events, and calls made inside an event. **Done**, checked
   and proved (`XhrProofs`).
7. `Ikcp`, the session protocol between two ends. **Done**, checked and proved
   (`IkcpProofs`). The KCP object around it (`ijkcp.c`) is left out, see section 6.
8. Every safety property that a run expects to hold is now a theorem. What is left
   are the liveness properties, which the prover cannot show (section 5), and the
   parts of section 6.

## 3. The modules

### EventLoop

One runtime. `phase` is the place in C: a step of `uv_run` (`"top"`, `"timers"`,
`"prepare"`, `"poll"`, `"check"`, `"closing"`), of `uvTimerCb` (`"timerJobs"`,
`"fire"`, `"callback"`) or of `main` and `ijFreeRuntime` (`"script"`, `"returned"`,
`"closeLoop"`, `"done"`, `"aborted"`, `"crashed"`). `js` is the JavaScript frame on
the stack, in which the program may set, clear and drop timers, queue jobs and start
I/O in any order until it returns.

| state | code |
|---|---|
| `jobs`, `idle` | quickjs' job list; `qrt->jobs.idle`, which `uvMaybeIdle` starts so that `uv_run` does not sleep on pending jobs |
| `heap`, `due`, `late` | libuv's timer heap in firing order, deadlines relative to `loop->time`, and how far the clock is ahead of it |
| `mem`, `bound`, `refs`, `interval`, `repeat` | an `IJJSTimer`: the struct, its references to its own object and callback, other references to the object |
| `stopSent`, `stopFlag`, `own`, `tries` | the stop async, `loop->stop_flag`, the runtime's own handles and the rounds of `ijFreeRuntime` |

`SetTimeout` and `ClearTimeout` are the calls; `RunTimer`, `CallTimer`, `AfterJobs`
and `EndCallback` are `uv__run_timers` and `uvTimerCb` cut where JavaScript can run
in between; `StartJob`, `EndJob`, `FailJob` and `JobsDrained` are
`ijExecuteJobs`, which gives up at the first job that throws; `Prepare`, `PollDone`,
`CheckIdle` and `MaybeIdle` are the handles around the poll; `FreeRuntime`,
`CloseLoop`, `RunNoWait`, `RunStale` and `AbortClose` are `ijFreeRuntime`.

### Worker

Two threads, `"main"` and `"worker"`, each in `pc` at `"poll"` (libuv calls back) or
`"check"` (jobs and the program run), or in one of the steps of the constructor,
`ijWorkerEntry`, `terminate()` and `ijFreeRuntime`. The channel is, for each
direction, `out` (libuv's write queue), `net` (bytes in the socket, at most
`Capacity`) and the peer's reads of at most `Chunk`. A message of size n is n units,
each of which knows its message, so that `Decode` can say what `JS_ReadObject` makes
of one read. `uvReadCb` decodes `buf->len` bytes, the whole block that `uvAllocCb` got
from `js_malloc`, not the `nread` bytes that the read has filled. When the read does not
bring a whole message at the start of the buffer, the value depends on what that memory
held before: an exception, a value nobody posted, or an earlier message once more. The
model calls it a `Leftover`. And `uv__read` reads again after a read that filled its
buffer, up to 32 times (`MaxReads`, `readsLeft`); when nothing more is there it calls
`uvReadCb` with `nread = 0`, which tests for `nread < 0` only and decodes a buffer that was
not filled at all (`ReadNothing`). `peak` records how much was ever posted and not yet
read. `ptr` is `w->wrt`, and `rt` what it points to. A use of
freed memory is recorded in `fault`, and the behaviour ends there.

### HandleLifetime

What `ijstreams.c`, `ijudp.c`, `ijprocess.c` and `ijsignals.c` do alike: the struct
belongs to the object and to the loop, whoever lets go last frees it, and a promise
is settled at most once and only while the struct exists.

### Stream

One TCP object: `closed`, `finalized` and the slots are the fields of
`IJJSStream`; `uv`, `mode`, `connectReq`, `shutReq`, `writeq`, `doneq`, `reading`,
`pollin`, `pollout`, `fed` and `accepted` are the libuv stream; `backlog`, `room` and
`reset` are the kernel and the peer. Every call has a number that names its promise.
`Read`, `Accept`, `Connect`, `Listen`, `Shutdown`, `Write` and `Close` are the calls;
`Write` has the four outcomes of `uv_try_write` followed by `uv_write`.
`StreamIo`, `ConnectCb`, `ReadCb`, `ConnectionCb` and `CloseCb` are libuv's entry
points with the C callbacks they lead to. `Collect` and `FreeContext` run the
finalizer, by the collector or at the end of the runtime. The refinement mapping
takes `owners` to be what is not `finalized` and not `closed`.

A program may do what it likes with a closed object. `reused` records that it
called `connect()` or `listen()` on one, which starts the closed handle again; the
properties that this destroys say so.

### Files

The File and Directory objects of one runtime, the pool and the process's
descriptor table. Every call has a number, which also names the request, the
promise and the object it makes.

| state | code |
|---|---|
| `req`, `prom` | an `IJJSFsReq` (or the request of `readFile()`) and its promise; `fd` is the descriptor the request took at the call |
| `wq`, `running`, `worked`, `doneq` | where the request is: the pool's queue, a thread, between the system call and `loop->wq`, `loop->wq` |
| `obj`, `held` | `IJJSFile` and `IJJSDir` with the entry buffer, `done` and the `uv_dir_t`; the objects the program still references |
| `tab` | for each descriptor, the call that opened what it stands for |
| `stale`, `fault` | history; undefined behaviour that happened |

`Call`, `CallOn` and `DirNext` are the calls, all of which end in `Submit`;
`NextOfClosed` is `ijDirNext` on a directory whose `uv_dir_t` is gone. `Take`, the
`Work` actions and `Post` are a thread of the pool; the kernel gives out the lowest
free descriptor. `OpenCb`, `CloseCb`, `NextCb` and `PlainCb` are the cases of
`uvFsReqCb` and `ijReadFileAfterWorkCb`. `Finalize` is the collector, which a request
in flight holds off.

A descriptor is read at the call and used by another thread later, and a Directory
has one buffer for all its requests. `stale` records the objects with which that
goes wrong: used while a `close()` of them is in flight, a directory with two calls
at once, a File whose `close()` failed and which keeps a number that is free. The
properties hold as long as there are none. `ijLoadFile` never closes the file it
opens: the descriptors `Loaded` are never given back, and `DescriptorsOwned` leaves
them out.

### Udp

One UDP object, built like `Stream`: `closed`, `finalized` and `slot` are the fields
of `IJJSUdp`; `uv`, `sock`, `connected`, `pollin`, `pollout`, `fed`, `writeq`, `doneq`
and `mmsg` are the libuv handle; `room` and `inbox` are the kernel's buffers. `Send` has
the outcomes of `uv_udp_try_send` followed by `uv_udp_send`: sent at once (`SendNow`),
tried again and called back later (`SendAgain`), queued (`SendLater`). A string's copy is
given back before `uv_udp_send`, which may still read it at once (`SendStale`). `SendIo` is
`uv__udp_io` for a writable socket, with `OneByOne` or `Batch`: `sendmmsg` for `Width`
datagrams at a time, until the queue is empty, the kernel is full or it refuses the
first of a batch. Every request of a batch gets the status of its first. `Collect`, `FreeContext` and
`CloseCb` are the two owners of the struct; the refinement mapping to `HandleLifetime`
is that of `Stream`. `reused` records that a method used the socket of a closed handle,
which opens it again, and `unkept` the queued datagrams whose buffer nothing keeps
alive (an array the program dropped, or a string's copy).

### Process

The children and signal handlers of one loop, which share libuv's signal pipe.
`SignalHandler` is the real signal handler, which runs at any moment, writes a message
per watcher into `pipe` and counts it in `trapped`; a message that does not fit is
dropped. `ReadPipe` and `Dispatch` are `uv__signal_event`, cut where the function of a
handler runs (`current`), because the program may then close handlers whose messages
are next in `batch`. `Dispatch` of the child watcher is `uv__chld`, which reaps every
child that has exited and calls `uvExitCb`. `Spawn`, `Wait`, `Kill`, `Signal`, `Close`
and `Collect` are the calls and the collector; `SpawnFails` and `SignalFails` free a
struct that stays in the loop's list, and `TouchFailed` is the next change of that
list. `CloseCb` waits until `trapped` is 0 (`MayFinish`). `Recycle` gives the pid of a
reaped child to another process. Each child is shown to implement `HandleLifetime`.

### Xhr

The requests of a program. Every event is a synchronous call from C, and the program
may call any method inside it, so the C stack is part of the state: `stack` holds what
is left to do, innermost first (`curl_multi_socket_action`, a callback of libcurl, an
event to emit, a handler that runs, `ijCheckMultiInfo`, the cleanup after the last
event). `Open`, `SetRequestHeader`, `SendAsync`, `SendSync` and `Abort` are the calls,
enabled when the loop or a handler runs JavaScript; `StatusLine`, `EmptyLine`, `Data`,
`Progress` and `Complete` are what libcurl may do next with a transfer;
`CheckMultiInfo` and `DoneReturns` end it. `easy` is where the easy handle is, and
`in_callback` of libcurl (`InCallback`) makes it refuse `curl_multi_add_handle` and
`curl_multi_remove_handle`. The class of `bootstrap2.js` installs its handlers once, and
`open()` clears them when the object has ended a request: from then on it is silent.
Nothing roots a request that is under way; `Collect` takes one that the program has
dropped. `past` records what was done to a request that the properties excuse.
A list of headers is freed by `curlDoneCb` and by `open()` on an object that is DONE, while
CURLOPT_HTTPHEADER keeps pointing to it (`FreedHeaders`); it matters once libcurl
takes the handle again or follows a redirect.

### Ikcp

The session of a KCP socket: two ends with the same `conv` and a network that loses,
repeats and reorders. Each end has `snd_queue`, `snd_buf`, `snd_nxt`, `snd_una`,
`rmt_wnd`, `rcv_buf`, `rcv_queue`, `rcv_nxt`, `acklist` and the probe flags of `ikcpcb`.
`Send`, `Recv`, `Flush` and `Input` are `ikcp_send`, `ikcp_recv`, `ikcp_flush` and
`ikcp_input`; `Lose` and `Delay` are the network: the packets of one flush arrive in any
order before the node flushes again, but for those that `Delay` holds back, or repeats,
and that arrive whenever they like. The session starts with `Start` segments exchanged. Numbers are kept in full, and compared as the code
can: by the signed difference modulo `Modulus` (`Diff`). Three things are abstracted.
Segments travel one by one instead of packed into datagrams; `due` says that
one has come since `ikcp_recv` was last called, because `uvKcpRecvCb` calls it at most once
per datagram and nothing else does. Time is left out: which
segments a flush retransmits, and whether a probe is due, is a choice, which covers the
timers and the fast retransmission. The congestion window is any number up to the send
window. `Fresh` says that the network forgets a packet before half of the
sequence numbers have gone by, without which no such protocol works.

Operators whose comment begins with "Mutant" are not part of the model. Each is a
plausible mistake in the definition after it, kept to show that a property notices
it.

## 4. The runs

| run | module, configuration | what it shows |
|---|---|---|
| `loop_main` | `MCEventLoop`, `EventLoop_main.cfg` | the main runtime with two timers: no job is stranded (`NeverSleepsOnJobs`), armed timers own what they use (`ArmedIsOwned`), a cleared timer is never called (`NoLateCall`), the loop closes unless a timer is bound (`ClosesUnlessBound`); jobs run, timers fire and are freed in the end (`JobsRun`, `TimerEnds`) |
| `loop_worker` | `MCEventLoop`, `EventLoop_worker.cfg` | a worker's runtime, with a stop at any moment: the inductive invariant of the proofs (`IInv`), which contains the safety properties above, that `uv_run` returns without jobs unless it was stopped (`ReturnsDrained`) and that `uvTimerCb` never works on a freed struct (`CurrentNotFreed`) |
| `worker_burst` | `MCWorker`, `Worker_burst.cfg` | messages of one unit and of more than a read and more than the socket, two one way and one the other, or three one way: the messages that reads bring are neither repeated nor overtaken, and the handler is called with a leftover only after as much was posted and not read as fills a read or overfills the socket (`InOrder`); `Inv`: the handshake is scoped (`HandshakeScoped`), `w->wrt` dangles only after the script failed (`DanglingCause`), and each use of freed memory has its cause: such a stop, a write still queued when the worker ends, or when its Worker was let go (`FaultCause`) |
| `worker_live` | `MCWorker`, `Worker_live.cfg` | programs that take turns and messages that fit a read: all arrive (`PostedArrives`), `terminate()` returns (`TerminateReturns`), the end is noticed (`EndIsNoticed`) |
| `worker_lost` | `MCWorker`, `Worker_lost.cfg` | **violated**: `ReceivedMatches` when a program posts twice in a row |
| `stream_main` | `MCStream`, `Stream_main.cfg` | four calls in any order: `NoDanglingRequest`, `PendingIsOwned` with `ReadIsServed`, `WireOrder` with `WriteComplete`, and `ImplementsLifetime`; with a fair loop `Settles`: writes are (`WriteSettles`), and after `close()` all requests are (`CancelSettles`) |
| `stream_accept` | `MCStream`, `Stream_accept.cfg` | **violated**: `AcceptIsServed`, a connection between two `accept()` calls |
| `files_main` | `MCFiles`, `Files_main.cfg` | four calls in any order, two threads: a system call reaches the file it was meant for (`OwnDescriptor`), no descriptor is lost (`DescriptorsOwned`), a directory is read once and to its end (`EntriesOnce`); `Inv`: every promise has its one request (`PendingIsInFlight`), and only misuse makes the process undefined (`FaultIsMisuse`) |
| `udp_main` | `MCUdp`, `Udp_main.cfg` | four calls in any order, and queues that `sendmmsg` takes in two batches. `Inv`: `NoDanglingRequest`, `PendingIsOwned`, without `sendmmsg` the status is true (`StatusIsTrueAlone`), the causes of undefined states (`FaultCause`). `Delivery`: a pending `recv()` is watched (`RecvIsServed`), what is read is delivered (`ReadIsDelivered`), nothing overtakes (`SendOrder`). `ImplementsLifetime`; `SendSettles` |
| `process_main` | `MCProcess`, `Process_main.cfg` | messages point to live structs (`MessageTargetLive`), no closed handler is called (`NoLateSignal`), `ImplementsLifetime`. `Inv`: `kill()` reaches the child (`PidIsOwn`), running children are watched (`ChildrenWatched`), a pending `wait()` will be settled (`WaitIsServed`), the loop's list is live (`ListIsLive`). `Settles`: exits are noticed and closing ends (`ExitIsNoticed`, `CloseCompletes`) |
| `xhr_main` | `MCXhr`, `Xhr_main.cfg` | `Inv`: `NoDangling` and `FaultCause`. A request that was sent is under way (`SentIsUnderWay`), the order of the events (`EventOrder`), every kept request ends (`SendSettles`) |
| `ikcp_main` | `MCIkcp`, `Ikcp_main.cfg` | one end fills the other's window, or both send, across the end of the sequence numbers, with a packet lost, repeated or held back: `DeliveredInOrder`, `AckedIsReceived`, `Inv` with `WindowKept` although the peer believes an old window, and every segment reaches the other end and is acknowledged (`Arrives`), also when the packet that opens the window is lost |

Most of these properties are conjunctions of named parts, and the table names the
parts. `ClosesUnlessBound` also says when the runtime cannot be freed: a worker that is
stopped with a timer armed leaves it bound, `uv_loop_close` fails five times and
`CHECK_EQ(closed, 1)` in `ijFreeRuntime` aborts the process.

Several properties have an excuse: they hold unless a history variable says that
something happened before (`stale` in `Files`, `unkept` and `reused` in `Udp`, `reused` in
`Stream`, `replaced`, `failed` and `lost` in `Process`, `past` in `Xhr`, `peak` and `failed`
in `Worker`). Where the code misbehaves in that case (an array dropped while its datagram
is queued, a second `next()` of a directory before the first is answered, a second `wait()`,
an `abort()` inside an event), the property does not rule it out. It says that this is the
only way there: a program that avoids the named cause is safe.

### Bounds

* `Timers` has two elements: one to be current and one that a job or a callback
  sets, clears or drops meanwhile. `MaxDelay = 1` with the clock's `late` gives
  timers that are due at once, later and never; `MaxJobs = 2` a failing job with one
  behind it; `MaxOps = 4` every pair of set and clear. `loop_worker` treats the two
  timers as symmetric; `loop_main` cannot, for its liveness properties.
* `Sizes = {1, 3}` with `Chunk = Capacity = 2` in `worker_burst` makes reads that
  hold two messages, the end of one and the start of another, and writes that wait
  for room. A message of three units fills a buffer, so that `uv__read` reads again, and
  with `MaxReads = 2` gives up with bytes left, or finds nothing. In `worker_live` messages fit a read, without which they would not
  arrive, and `Burst = FALSE` makes the programs take turns.
* `Sizes = {1, 3}` with `Room = 2` in `Stream` gives full, partial and queued
  writes. Four calls are enough to connect, queue two writes and close, or to close
  and use the object again. `MaxConns = 2` lets a connection arrive on either side of an
  `accept()`.
* `Threads = 2` in `Files` lets two system calls return in either order and be posted
  in either order. With `MaxFds = 2` a number is used again, and `open()` fails
  when the table is full. `Entries = 2` and four calls read a directory to its end.
* `Udp`: `Room = 2` and four calls give a full buffer with datagrams queued behind it;
  `MaxArrivals = 2` one datagram that is read and one that must wait for the next
  `recv()`. `Width = 2` (20 in libuv) cuts a queue of three into two batches, of which the
  second goes, is refused or finds the kernel full.
* `Process`: two children that exit on one SIGCHLD, two handlers of which one closes
  the other, a pipe of two messages that overflows, one signal from outside.
* `Xhr`: five calls of one request (open, send, and three more, also inside events), or
  two and one of two requests; handlers inside handlers to depth two, of which the
  deepest calls nothing more.
* `Ikcp`: a send window of two and a receive window of three segments. Two messages of
  two fragments overfill the receiver, so that a window closes in the middle of a
  message; or one message goes each way, and the data acknowledges (`Plans`). A message of
  three fragments, which could fill the window, is refused. Sequence numbers have a range
  of twelve and start at ten: they wrap inside the first message. One packet (`MaxFaults`)
  is lost, repeated or held back.
* `Stream`, `Files`, `Udp`, `Process`, `Xhr` and `Ikcp` run without the deadlock
  check: an object on which nobody calls anything, or that is closed and collected,
  has nothing left to do, and the bounds end the programs. The other runs check it.

### Fairness

* `EventLoop`: weak fairness of the loop's own steps (the thread is scheduled and
  JavaScript frames return) and of the clock, and strong fairness of leaving
  `uv__io_poll`, which returns after at most 48 rounds of events. I/O is not fair.
* `Worker`: weak fairness of each thread; strong fairness of the callbacks of a
  socket that is ready again and again, and of a stop that was sent, because
  `uv__io_poll` reports every ready descriptor in each iteration.
* `Stream`: weak fairness of the close callback (`uv__run_closing_handles` runs in
  every iteration) and of the outcome of a connection, which the kernel decides by
  a timeout at the latest; strong fairness of `uv__stream_io`; and a peer that goes
  on reading (`Drain`). `WriteSettles` excuses a peer that resets the connection,
  after which libuv leaves requests behind the first in its queue.
* `Udp`: weak fairness of the close callback, of `uv__udp_io` for a writable socket, and
  of the network taking what the kernel holds.
* `Process`: weak fairness of the delivery of a pending signal, of reading and
  dispatching the pipe, of the return of a handler's function and of the close
  callback.
* `Xhr`: weak fairness of the loop's call of libcurl and of every frame on the stack
  (handlers return), strong fairness of the end of a transfer, which a timeout or the
  peer brings about.
* `Ikcp`: weak fairness, at each end, of a flush in which every timer has expired (the
  idle handle calls `ikcp_update` in every iteration), of the arrival of some packet,
  which supposes a program that always has a `recv()` pending, and of the one `ikcp_recv`
  after it; the network loses finitely many. `recv()` does not look at `rcv_queue`, so that
  no more can be assumed of it: a message that waits there is taken with the next datagram
  or never. With this fairness "every message is given to the program" fails, as it does in
  the code, when the last datagram completes two messages; `Arrives` therefore speaks of the
  other end, not of the program.

## 5. What is proved

Each theorem is for every value of the constants that the named assumption of its module
allows, and each rests on an inductive invariant, stated at the head of the module of
proofs (`IInv` of `EventLoop`, which a run also checks, is in the module itself). The proof
that a step preserves it is split by part of the invariant, and each part has one step per
action that can disturb it; `XhrProofs` is split by action first. Each module has its own lemmas about the queues and counts of its
component (`AppendQueue`, `TailQueue`, `NewHead`, `CountRepeat`, `MessagesTail` and others).

### EventLoopProofs

It proves, for any set of timers, any bounds and both kinds of
runtime, under `EventLoopAssumption` only:

| theorem | statement |
|---|---|
| `TypeCorrect` | `Spec => []TypeOK` |
| `JobsNotStranded` | `Spec => [](NeverSleepsOnJobs /\ ReturnsDrained)` |
| `TimerMemorySafe` | `Spec => [](ArmedIsOwned /\ CurrentNotFreed)` |
| `CloseFailureCause` | `Spec => []ClosesUnlessBound` |
| `NoLateCalls` | `Spec => NoLateCall` |

All follow from `Invariance == Spec => []IInv`. None of the properties is inductive
alone. That the loop does not sleep on jobs needs to know in which phase which
frame can run (`FrameInv`) and that from the check handle to the next poll pending
jobs keep the idle handle started (`IdleInv`). That a cleared timer is not called
needs the heap to be free of duplicates, only intervals to be armed again while
their callback is due, and `bound` to be disjoint from `cleared` (`TimerInv`). That
the loop closes needs every open handle of a freed runtime to belong to a bound
timer, and the first round to close all that is closing (`CloseInv`). The lemmas
`ArmHeap`, `DisarmHeap` and `TailHeap` say what insertion, removal and expiry do to
the heap; `NextType`, `NextFrame`, `NextIdle`, `NextTimer` and `NextClose` each
have one step per action.

### StreamProofs

Under `StreamAssumption`: any number of calls and connections, any sizes of writes and of
the peer's buffer, with and without the end of the runtime.

| theorem | statement |
|---|---|
| `StreamTypes` | `Spec => []TypeOK` |
| `StreamNoDangling` | `Spec => []NoDanglingRequest` |
| `StreamPending` | `Spec => []PendingIsOwned` |
| `StreamWire` | `Spec => []WireOrder` |
| `StreamLifetime` | `Spec => ImplementsLifetime` |

That a freed struct has no requests needs to know who owns it (`LifeInv`) and that a
closed handle is not watched (`ClosedInv`). A pending promise has an owner only because it
has exactly one (`OwnInv`): otherwise settling it for one request would strand the other.
That the wire is in order needs the queue to be (`QueueInv`), and no byte on the wire to
be of a call behind a queued one (`SortedInv`); that a write which is reported complete is
complete needs what a queued write has left to be what is not on the wire (`BytesInv`).
The refinement is proved action by action: each step lets go of an owner, frees the
struct, settles promises of a struct that exists, or changes nothing of it.

### UdpProofs

Under `UdpAssumption`: any number of calls, any `Width` of a `sendmmsg` and so any number of
batches, any number of arriving datagrams, any buffer.

| theorem | statement |
|---|---|
| `UdpSafety` | `Spec => []Inv` |
| `UdpDelivery` | `Spec => []Delivery` |
| `UdpLifetime` | `Spec => ImplementsLifetime` |

The invariant has the parts of `StreamInv` and, for the datagrams, `SentInv` (what left is
in order and before what is queued), `ToldInv` (a promise tells what became of its
datagram), `InboxInv` and `ServedInv` (what was read is what the calls got, in order).
`UpToRoom`, `BatchFront` and `TransmitFacts` say that a round of `uv__udp_io`, in however
many batches, completes a front of the queue and sends no more than there is room for; `NthPlaces` that the datagrams of a
round leave in the order of their places, whichever of them the kernel takes.

### ProcessProofs

Under `ProcessAssumption`: any finite sets of children and handlers, any number of calls
and signals, a pipe of up to 32 messages (what `uv__signal_event` reads at once).

| theorem | statement |
|---|---|
| `ProcessSafety` | `Spec => []Inv` |
| `ProcessMessageTargetLive` | `Spec => []MessageTargetLive` |
| `ProcessNoLateSignal` | `Spec => NoLateSignal` |
| `ProcessLifetime` | `Spec => ImplementsLifetime` |

A message points to a live struct because libuv counts: `trapped` is the number of
messages in the pipe and in the batch (`MessageInv`), and a handle with messages is not
closed to its end. This needs how struct, handle and owners go together (`LifeInv`);
`WatchInv` and `WaitInv` do the same for children and their promises.
`ProcessNoLateSignal` is an action property and follows from the same invariant.

### FilesProofs

Under `FilesAssumption`: any number of threads, descriptors, entries and calls.

| theorem | statement |
|---|---|
| `FilesSafety` | `Spec => []Inv` |
| `FilesOwnDescriptor` | `Spec => []OwnDescriptor` |
| `FilesDescriptorsOwned` | `Spec => []DescriptorsOwned` |
| `FilesEntriesOnce` | `Spec => []EntriesOnce` |

A request is in one place (`PlaceInv`) and belongs to a pending promise and to an object of
its kind (`RequestInv`). While no object is misused (`stale = {}`), requests share an object
only if it is a file that none of them closes (`ShareInv`). From this follows that an object
has its descriptor until its `close()` has returned, and every descriptor has an owner
(`FdInv`), and that the position of a directory is that of the last entry reported or
one further, if the entry is on its way (`DirInv`). None of the four can be shown without
the others.

### WorkerProofs

Under `WorkerAssumption`: messages, reads and sockets of any size, any number of messages,
any number of reads in a row.

| theorem | statement |
|---|---|
| `WorkerSafety` | `Spec => []Inv` |
| `WorkerInOrder` | `Spec => []InOrder` |

What the reads bring is received in order because it is in order all along one direction of
the channel: what the handler got, the jobs that will call it, the units in the socket and
the write queue (`Chan`). Only the first unit of a message counts, because a read that starts
in the middle of one brings none, and the write queue has the rest of every message
of which it has a unit (`Packed`). `StartInv` says how far the handshake is for each pair of
places of the two threads, `StopInv` who can have stopped the worker, and `EvalInv` that
the script runs once and first; together they give the causes of a dangling `w->wrt` and
of undefined states.

That leftovers have their cause needs a second invariant (`CalmInv`), about a side that never
had as much as a full buffer unread and never overfilled the socket: all it posted is in the
socket, message by message, its write queue is empty unless the channel is broken, and the
peer is not inside `uv__read`. So each read brings whole messages and none fills its buffer.

### IkcpProofs

Under `IkcpAssumption`: any windows, any number of messages of any length and of faults, any
even range of sequence numbers larger than twice both windows together.

| theorem | statement |
|---|---|
| `IkcpSafety` | `Spec => []Inv` |
| `IkcpDelivered` | `Spec => []DeliveredInOrder` |
| `IkcpAcked` | `Spec => []AckedIsReceived` |

Neither queue at either end says what the numbers on packets mean, so the invariant states
that for each direction there is one stream of segments with which everything agrees
(`Direction`): it is the messages cut into fragments (`Chain`); what the sender keeps is
of it, from `snd_una` on (`Sender`); what the receiver has, assembled or not, is
of it (`Receiver`); what the sender no longer keeps has arrived (`Kept`); and every packet
under way tells the truth about it (`Truthful`). Packets are compared by wrapped
differences: the lemmas about `Diff` show that under `Fresh` these agree with the
differences of the full numbers, which is where the range of the numbers is needed.

### XhrProofs

Under `XhrAssumption`: any set of requests, any bounds on the calls of each, handlers
inside handlers to any depth.

| theorem | statement |
|---|---|
| `XhrSafety` | `Spec => []Inv` |
| `XhrSentIsUnderWay` | `Spec => []SentIsUnderWay` |
| `XhrEventOrder` | `Spec => EventOrder` |

The invariant (`XhrInv`) says nothing more once memory was misused. Until then it says which
frame may be on top of which (`Stacked`): an event is delivered by a callback of libcurl, by
a method, or for an end that is further out, and `curl_easy_perform` of a request is not
entered inside itself. Over such stacks each request has its own part. `HandleInv` relates
the easy handle, `curl_h` and the frames that will use them; `DropInv` and `HeadersInv` say
that the causes of a misuse are remembered before it happens, which is what `FaultCause`
needs. `SentInv` and `UnderWay` say how far `send()` is, and `EventInv` and `TopInv` bound
the last event by what the response still allows, by the events of the end that wait on
the stack (`InOrder`) and by the event that is next. Each action touches one request, so
one lemma (`Unmoved`) does all others; the lemmas about pushing and popping frames do
the stack.

Trying the proof showed that `FaultCause` named too few causes for a freed list of headers:
with more calls than the run allows, `open()` on an object that is DONE while libcurl still
has its handle, or a `send()` that libcurl refuses, leads there too. The model and the
property now have both.

### Only model-checked

* All liveness: `JobsRun`, `TimerEnds`, `PostedArrives`, `TerminateReturns`,
  `EndIsNoticed`, `Settles` of `Stream` and `Process`, `SendSettles` of `Udp` and `Xhr`,
  `Arrives`. The prover has no support for fairness and `ENABLED`.

## 6. What is not modelled

* The components that section 1 lists and section 3 does not: they keep no state
  between calls (`ijdns.c`, `ijmodules.c`, `ijlog.c`, path, url, encoding), they are
  third-party code that the runtime only carries (event-target-shim, whatwg-fetch), or
  they are synchronous calls into another project (`ijwasm.c` into wasm3). The optional
  modules (PostgreSQL, Redis, websockets, sigar, cron) are plug-ins.
* Nearly all lines of the repository belong to vendored projects: quickjs, libuv, curl,
  mbedtls, jemalloc, wasm3, and redis, libwebsockets and libpq under `src/modules`. They
  are modelled where the runtime's own code rests on their behaviour, function by
  function, and otherwise taken as they are.
* The end of the runtime in `Files`, `Process` and `Xhr`: requests that are in
  flight when the runtime is freed, and the other threads' use of the same pool.
* In `Xhr`, the bytes of a response, the getters, and the `uv_poll_t` that
  `ijCurlHandleSocket` makes per socket. A final answer 3xx that is not followed (304)
  is taken for a redirect by `curlmHeaderCb`: `readyState` goes from 1 to 4.
* In `Ikcp`, the clock, the round-trip estimate, `setmtu`, `setwndsize`, `nodelay` and
  the stream mode, which no call of the runtime turns on. `Arrives` is about two ends
  that know each other's address and always have a `recv()` pending, and about messages
  that are not empty.
* The KCP object of `ijkcp.c`. What a reader of it should know: the close callback and the
  finalizer both release the session, and the idle callback goes on using it; when the
  socket is full the one send request is queued while it may be freed or queued again; a
  message of several fragments may be longer than the buffer of `recv()`; an empty
  message blocks those behind it (`len > 0` in `uvKcpRecvCb`), until the window is full and
  nothing arrives any more; one message is taken per datagram, and a second one that the last
  datagram completed stays in `rcv_queue` however often the program calls `recv()`; an end that has not
  called `send()` has no address, and its acks go nowhere; 16 bytes of an address are
  kept, too little for IPv6; a constructor that fails leaves its idle handle active.
  `PROJECT.json` lists those that order decides as hazards without a property.
* A dispatch of `EventTarget`, the lifetime of a WebAssembly module's bytes under its
  instances, and a child process whose object is collected before it exits, which nobody
  reaps.
* In `Stream`, what becomes of `read()` and `accept()` when the handle is closed: their
  promises stay pending. A `shutdown()` while connecting waits for `close()`.
* With `sendmmsg` a datagram that the kernel did not take is reported as sent when it was
  queued behind another; `StatusIsTrueAlone` states what holds without it.
* Memory exhaustion: a failing `js_malloc` is not an outcome of any action.
* Windows: the Unix half of libuv is the reference.
* Calls that throw: they change nothing, but for the request structs that
  `connect()` and `shutdown()` leak when libuv refuses.
* Assertions of libuv and quickjs are off in the release builds (`NDEBUG` in the
  project files), which the models follow. With assertions quickjs aborts earlier in
  the cases in which the collector leaves an object behind.
* Pipes: `uv_pipe_connect` reports every error later and never refuses. Strings
  given to `write()`: after a partial write the wrong pointer is freed.
