------------------------------- MODULE Stream --------------------------------
(***************************************************************************)
(* One IJJSStream that is a TCP socket (ijstreams.c), the promise          *)
(* slots it keeps (ijutils.c), the libuv stream below it and the kernel    *)
(* and the peer behind that. The program calls its methods in any order,   *)
(* on a closed handle too; a call that throws changes nothing and is not a *)
(* step. Writes are of typed arrays: what ijStreamWrite does to a string   *)
(* that the socket takes a part of is undefined (JS_FreeCString is given   *)
(* the pointer that was moved behind that part).                           *)
(*                                                                         *)
(* Bytes are counted in units. The n-th successful call of the program has *)
(* the number n, which also names the promise it returns.                  *)
(*                                                                         *)
(* `fault' names an error after which the process is undefined or aborted, *)
(* and the model stops.                                                    *)
(***************************************************************************)
EXTENDS Integers, Sequences, FiniteSets

CONSTANTS
  Teardown,  \* the runtime may be freed under the handle
  None,      \* not a promise
  Sizes,     \* sizes of the writes
  Room,      \* what the socket takes before it is full
  MaxConns,  \* bound: connections that arrive at a listening socket
  MaxOps     \* bound: calls of the program

ASSUME StreamAssumption ==
  /\ Teardown \in BOOLEAN
  /\ Sizes \subseteq Nat \ {0}
  /\ Room \in Nat
  /\ MaxConns \in Nat
  /\ MaxOps \in Nat
  /\ None \notin Nat

Ops == 1..MaxOps

VARIABLES
  ctx,        \* the JSContext
  mem,        \* the IJJSStream struct
  closed,     \* s->closed
  finalized,  \* s->finalized: the JavaScript object is gone
  held,       \* the program references the object
  uv,         \* the libuv handle: "open", "closing", "closed"
  mode,       \* what the socket is: see Modes
  readSlot,   \* s->read.result
  acceptSlot, \* s->accept.result
  connectReq, \* handle->connect_req
  shutReq,    \* handle->shutdown_req
  shut,       \* UV_HANDLE_SHUT
  writeq,     \* write_queue
  doneq,      \* write_completed_queue
  reading,    \* UV_HANDLE_READING
  pollin,     \* the loop watches for POLLIN
  pollout,    \* the loop watches for POLLOUT
  fed,        \* uv__io_feed: an event is due in any case
  accepted,   \* handle->accepted_fd holds a connection
  backlog,    \* connections in the kernel's queue
  room,       \* what the socket still takes
  reset,      \* the peer reset the connection
  prom,       \* the promises
  size,       \* history: what a write was asked to send
  wire,       \* history: the units the kernel took, by the write they are of
  ops,        \* calls so far
  conns,      \* connections so far
  reused,     \* history: connect() or listen() was called on a closed handle
  fault

lifeVars == <<ctx, mem, closed, finalized, held, uv>>
slotVars == <<readSlot, acceptSlot>>
outVars  == <<connectReq, shutReq, shut, writeq, doneq, pollout, fed>>
inVars   == <<reading, pollin, accepted>>
netVars  == <<backlog, room, reset, conns>>
histVars == <<size, wire, reused>>
vars == <<lifeVars, slotVars, mode, outVars, inVars, netVars, histVars, prom, ops, fault>>

\* "none": close() closed the socket. "failed": the connection could not be
\* made; the socket is still there.
Modes == {"none", "fresh", "connecting", "connected", "failed", "listening"}

Min2(a, b) == IF a < b THEN a ELSE b

-----------------------------------------------------------------------------
(***************************************************************************)
(* Calls of the program                                                    *)
(***************************************************************************)

Call == fault = "none" /\ ctx = "live" /\ held /\ ops < MaxOps /\ ops' = ops + 1

\* ijInitPromise: the call returns a pending promise.
InitPromise == prom' = [prom EXCEPT ![ops + 1] = "pending"]

\* ijSettlePromise for several promises at once
SettleAll(good, bad) ==
  prom' = [p \in Ops |-> IF p \in good THEN "resolved"
                         ELSE IF p \in bad THEN "rejected" ELSE prom[p]]

\* There is a socket, and UV_HANDLE_READABLE and UV_HANDLE_WRITABLE are set.
Connects == mode \in {"connecting", "connected", "failed"}

\* EBUSY otherwise
CanRead == readSlot = None

\* ijStreamRead
Read ==
  /\ Call
  /\ CanRead
  /\ uv = "open"
  /\ Connects
  /\ readSlot' = ops + 1
  /\ InitPromise
  /\ reading' = TRUE
  /\ pollin' = TRUE
  /\ UNCHANGED <<lifeVars, mode, acceptSlot, outVars, accepted, netVars, histVars,
                 fault>>

\* ijStreamAccept asks neither for a listening socket nor for an open one.
Accept ==
  /\ Call
  /\ acceptSlot = None
  /\ acceptSlot' = ops + 1
  /\ InitPromise
  /\ UNCHANGED <<lifeVars, mode, readSlot, outVars, inVars, netVars, histVars, fault>>

\* uv__tcp_connect makes a new socket for a handle that was closed, and refuses
\* while a connection is being made.
CanConnect ==
  /\ connectReq = None
  /\ mode \in {"none", "fresh", "failed"}

\* ijTcpConnect
Connect ==
  /\ Call
  /\ CanConnect
  /\ connectReq' = ops + 1
  /\ InitPromise
  /\ mode' = "connecting"
  /\ pollout' = TRUE
  /\ reused' = (reused \/ uv # "open")
  /\ UNCHANGED <<lifeVars, slotVars, shutReq, shut, writeq, doneq, fed, inVars,
                 netVars, size, wire, fault>>

\* ijStreamListen, on a socket the program did not connect. uv_tcp_listen, too,
\* makes a new socket for a handle that was closed.
Listen ==
  /\ Call
  /\ mode \in {"none", "fresh", "listening"}
  /\ mode' = "listening"
  /\ pollin' = TRUE
  /\ reused' = (reused \/ uv # "open")
  /\ UNCHANGED <<lifeVars, slotVars, outVars, reading, accepted, netVars, size, wire,
                 prom, fault>>

\* ijStreamShutdown
Shutdown ==
  /\ Call
  /\ uv = "open"
  /\ Connects
  /\ ~shut
  /\ shutReq = None
  /\ shutReq' = ops + 1
  /\ InitPromise
  /\ pollout' = TRUE
  /\ UNCHANGED <<lifeVars, slotVars, mode, connectReq, shut, writeq, doneq, fed,
                 inVars, netVars, histVars, fault>>

\* write() fails: a socket that was made after close() is not shut down.
Dead == reset \/ mode = "failed" \/ (shut /\ uv = "open")

\* Mutant: uv_try_write although writes are queued.
CanTryAlways == connectReq = None

\* uv_try_write: only when nothing is queued (write_queue_size also counts
\* what failed and was not called back)
CanTry ==
  /\ connectReq = None
  /\ writeq = <<>>
  /\ \A i \in DOMAIN doneq : doneq[i].ok

\* Mutant: one byte too few is left.
RestShort(n, k) == n - k - 1

\* buf += r; size -= r
Rest(n, k) == n - k

Copies(p, n) == [i \in 1..n |-> p]

\* ijStreamWrite when uv_try_write takes everything
WriteAll(n) ==
  /\ CanTry
  /\ ~Dead
  /\ n <= room
  /\ prom' = [prom EXCEPT ![ops + 1] = "resolved"]
  /\ wire' = wire \o Copies(ops + 1, n)
  /\ room' = room - n
  /\ UNCHANGED <<writeq, doneq, pollout, fed, fault>>

\* uv_try_write takes a part of it and the rest is queued.
WritePart(n) ==
  /\ CanTry
  /\ ~Dead
  /\ n > room
  /\ InitPromise
  /\ wire' = wire \o Copies(ops + 1, room)
  /\ room' = 0
  /\ writeq' = Append(writeq, [op |-> ops + 1, left |-> Rest(n, room)])
  /\ pollout' = TRUE
  /\ UNCHANGED <<doneq, fed, fault>>

\* The connection is lost: the request fails at once and is called back later.
WriteError(n) ==
  /\ CanTry
  /\ Dead
  /\ InitPromise
  /\ doneq' = Append(doneq, [op |-> ops + 1, ok |-> FALSE])
  /\ pollout' = FALSE
  /\ fed' = TRUE
  /\ UNCHANGED <<writeq, wire, room, fault>>

\* Other writes, or the connection, come first.
WriteLater(n) ==
  /\ ~CanTry
  /\ InitPromise
  /\ writeq' = Append(writeq, [op |-> ops + 1, left |-> n])
  /\ pollout' = TRUE
  /\ UNCHANGED <<doneq, fed, wire, room, fault>>

\* ijStreamWrite
Write(n) ==
  /\ Call
  /\ Connects
  /\ size' = [size EXCEPT ![ops + 1] = n]
  /\ WriteAll(n) \/ WritePart(n) \/ WriteError(n) \/ WriteLater(n)
  /\ UNCHANGED <<lifeVars, slotVars, mode, connectReq, shutReq, shut, inVars,
                 backlog, reset, conns, reused>>

-----------------------------------------------------------------------------
(***************************************************************************)
(* Closing and the lifetime of the struct                                  *)
(***************************************************************************)

CloseSocket == mode' = "none" /\ backlog' = 0 /\ room' = Room /\ reset' = FALSE

\* Mutant: uv_close leaves the watcher running.
StopIoSkipped ==
  /\ UNCHANGED <<pollin, pollout, fed, reading, accepted>>
  /\ CloseSocket

\* uv__stream_close: uv__io_close, uv_read_stop, and a connection that was
\* not accepted is closed
StopIo ==
  /\ pollin' = FALSE
  /\ pollout' = FALSE
  /\ fed' = FALSE
  /\ reading' = FALSE
  /\ accepted' = FALSE
  /\ CloseSocket

ioVars == <<pollin, pollout, fed, reading, accepted, mode, backlog, room, reset>>

\* uvMaybeClose
MaybeClose ==
  IF uv = "open"
  THEN uv' = "closing" /\ StopIo
  ELSE UNCHANGED <<uv, ioVars>>

\* ijStreamClose. Promises of read() and accept() that are pending stay so.
Close ==
  /\ Call
  /\ MaybeClose
  /\ UNCHANGED <<ctx, mem, closed, finalized, held, slotVars, connectReq, shutReq,
                 shut, writeq, doneq, conns, histVars, prom, fault>>

\* The program lets go of the object.
Drop ==
  /\ Call
  /\ held' = FALSE
  /\ UNCHANGED <<ctx, mem, closed, finalized, uv, slotVars, mode, outVars, inVars,
                 netVars, histVars, prom, fault>>

\* Mutant: the finalizer does not wait for the close callback.
FinalizeFreesAlways == mem' = "freed"

\* The finalizer frees what the close callback has already left.
FinalizeFrees == mem' = IF closed THEN "freed" ELSE mem

\* ijStreamFinalizer. ijFreePromiseRT lets go of the promises in the slots.
Finalizer ==
  /\ ~finalized
  /\ finalized' = TRUE
  /\ prom' = [p \in Ops |-> IF p \in {readSlot, acceptSlot} THEN "dropped" ELSE prom[p]]
  /\ readSlot' = None
  /\ acceptSlot' = None
  /\ FinalizeFrees
  /\ IF closed
     THEN UNCHANGED <<uv, ioVars>>
     ELSE MaybeClose
  /\ UNCHANGED <<closed, held, connectReq, shutReq, shut, writeq, doneq, conns,
                 histVars, ops>>

Collect ==
  /\ fault = "none"
  /\ ctx = "live"
  /\ ~held
  /\ Finalizer
  /\ UNCHANGED <<ctx, fault>>

\* ijFreeRuntime: the context is freed and with it the object. The resolving
\* functions of a pending slot are referenced once more than the collector
\* knows, so what waits for the promise may keep the object from being
\* finalized; then the handle stays open and CHECK_EQ(closed, 1) fails.
FreeContext ==
  /\ Teardown
  /\ fault = "none"
  /\ ctx = "live"
  /\ ctx' = "freed"
  /\ \/ /\ Finalizer
        /\ UNCHANGED fault
     \/ /\ finalized
        /\ UNCHANGED <<mem, closed, finalized, held, uv, slotVars, mode, outVars,
                       inVars, netVars, histVars, prom, ops, fault>>
     \/ /\ ~finalized
        /\ readSlot # None \/ acceptSlot # None
        /\ fault' = "unclosed"
        /\ UNCHANGED <<mem, closed, finalized, held, uv, slotVars, mode, outVars,
                       inVars, netVars, histVars, prom, ops>>

\* The requests libuv still has, and the promises they carry
Requests ==
  ({connectReq, shutReq} \ {None})
    \cup {writeq[i].op : i \in DOMAIN writeq} \cup {doneq[i].op : i \in DOMAIN doneq}

Finished == {doneq[i].op : i \in {j \in DOMAIN doneq : doneq[j].ok}}

CloseFrees == mem' = IF finalized THEN "freed" ELSE mem

Cancelled == Requests \ Finished

\* uv__finish_close: every request is called back, with ECANCELED unless it
\* was finished, and then uvStreamCloseCb.
CloseCb ==
  /\ fault = "none"
  /\ uv = "closing"
  /\ IF ctx = "freed" /\ Requests # {}
     THEN /\ fault' = "freedContext"
          /\ UNCHANGED <<mem, closed, uv, connectReq, shutReq, writeq, doneq, prom>>
     ELSE /\ SettleAll(Finished, Cancelled)
          /\ connectReq' = None
          /\ shutReq' = None
          /\ writeq' = <<>>
          /\ doneq' = <<>>
          /\ uv' = "closed"
          /\ closed' = TRUE
          /\ CloseFrees
          /\ UNCHANGED fault
  /\ UNCHANGED <<ctx, finalized, held, slotVars, mode, shut, pollout, fed, inVars,
                 netVars, histVars, ops>>

-----------------------------------------------------------------------------
(***************************************************************************)
(* Callbacks                                                               *)
(***************************************************************************)

CanConnectCb  == connectReq # None /\ pollout
CanReadCb     == connectReq = None /\ reading /\ pollin
CanStreamIo   == connectReq = None /\ (fed \/ (pollout /\ (room > 0 \/ Dead)))
CanConnection == mode = "listening" /\ pollin /\ backlog > 0

Callback == fault = "none" /\ mem = "live" /\ ctx = "live"

\* Mutant: what was written while connecting is forgotten.
WatchedAfterConnectNot(ok) == FALSE

WatchedAfterConnect(ok) == ok /\ writeq # <<>>

\* uv__stream_connect and uvStreamConnectCb. Writes that waited for a
\* connection that failed are cancelled.
ConnectCb(ok) ==
  /\ Callback
  /\ CanConnectCb
  /\ connectReq' = None
  /\ mode' = IF ok THEN "connected" ELSE "failed"
  /\ pollout' = WatchedAfterConnect(ok)
  /\ IF ok
     THEN SettleAll({connectReq}, {}) /\ UNCHANGED <<writeq, doneq>>
     ELSE /\ SettleAll(Finished, (Requests \ {shutReq}) \ Finished)
          /\ writeq' = <<>>
          /\ doneq' = <<>>
  /\ UNCHANGED <<lifeVars, slotVars, shutReq, shut, fed, inVars, netVars, histVars,
                 ops, fault>>

\* Mutant: the slot is not cleared.
ClearReadSkipped == UNCHANGED readSlot

\* ijClearPromise
ClearRead == readSlot' = None

\* uvStreamReadCb: data or the end of the stream, or an error
ReadCb(ok) ==
  /\ Callback
  /\ CanReadCb
  /\ reading' = FALSE
  /\ pollin' = FALSE
  /\ IF ok THEN SettleAll({readSlot}, {}) ELSE SettleAll({}, {readSlot})
  /\ ClearRead
  /\ UNCHANGED <<lifeVars, acceptSlot, mode, outVars, accepted, netVars, histVars,
                 ops, fault>>

\* uv__write: the first request of the queue, and what it leaves: the queue,
\* the requests that are finished, whether POLLOUT is watched, and what the
\* kernel takes.
WriteHead ==
  LET w == Head(writeq)
      k == Min2(w.left, room)
  IN  CASE writeq = <<>> ->
             [queue |-> <<>>, good |-> {}, bad |-> {}, watch |-> pollout, taken |-> 0]
        [] writeq # <<>> /\ Dead ->
             [queue |-> Tail(writeq), good |-> {}, bad |-> {w.op}, watch |-> FALSE,
              taken |-> 0]
        [] writeq # <<>> /\ ~Dead /\ k = w.left ->
             [queue |-> Tail(writeq), good |-> {w.op}, bad |-> {}, watch |-> pollout,
              taken |-> k]
        [] writeq # <<>> /\ ~Dead /\ k < w.left ->
             [queue |-> <<[w EXCEPT !.left = @ - k]>> \o Tail(writeq), good |-> {},
              bad |-> {}, watch |-> TRUE, taken |-> k]

\* uv__stream_io for POLLOUT: uv__write, uvStreamWriteCb for every request
\* that is finished, and when the queue is empty uv__drain, which shuts down.
StreamIo ==
  /\ Callback
  /\ CanStreamIo
  /\ LET r == WriteHead
         good == r.good \cup Finished
         bad == r.bad \cup ({doneq[i].op : i \in DOMAIN doneq} \ Finished)
         drained == r.queue = <<>>
         ends == IF drained /\ ~shut /\ uv = "open" THEN {shutReq} \ {None} ELSE {}
     IN  /\ writeq' = r.queue
         /\ doneq' = <<>>
         /\ fed' = (r.good \cup r.bad # {})
         /\ pollout' = (r.watch /\ ~drained)
         /\ room' = room - r.taken
         /\ wire' = wire \o Copies(Head(writeq).op, r.taken)
         /\ IF Dead THEN SettleAll(good, bad \cup ends) ELSE SettleAll(good \cup ends, bad)
         /\ shutReq' = IF ends = {} THEN shutReq ELSE None
         /\ shut' = (shut \/ (ends # {} /\ ~Dead))
  /\ UNCHANGED <<lifeVars, slotVars, mode, connectReq, inVars, backlog, reset, conns,
                 size, reused, ops, fault>>

\* uv__server_io and uvStreamConnectionCb. A connection that nobody waits for
\* stays in accepted_fd, and libuv stops watching until uv_accept takes it.
ConnectionCb(ok) ==
  /\ Callback
  /\ CanConnection
  /\ backlog' = backlog - 1
  /\ IF acceptSlot # None
     THEN /\ IF ok THEN SettleAll({acceptSlot}, {}) ELSE SettleAll({}, {acceptSlot})
          /\ acceptSlot' = None
          /\ UNCHANGED <<accepted, pollin>>
     ELSE /\ accepted' = ok
          /\ pollin' = ~ok
          /\ UNCHANGED <<acceptSlot, prom>>
  /\ UNCHANGED <<lifeVars, readSlot, mode, outVars, reading, room, reset, conns,
                 histVars, ops, fault>>

\* A callback for a struct or in a context that is freed
StaleCallback ==
  /\ fault = "none"
  /\ ~Callback
  /\ CanConnectCb \/ CanReadCb \/ CanStreamIo \/ CanConnection
  /\ fault' = IF mem = "freed" THEN "freedHandle" ELSE "freedContext"
  /\ UNCHANGED <<lifeVars, slotVars, mode, outVars, inVars, netVars, histVars, prom,
                 ops>>

-----------------------------------------------------------------------------
(***************************************************************************)
(* The peer                                                                *)
(***************************************************************************)

Arrive ==
  /\ mode = "listening"
  /\ conns < MaxConns
  /\ conns' = conns + 1
  /\ backlog' = backlog + 1
  /\ UNCHANGED <<lifeVars, slotVars, mode, outVars, inVars, room, reset, histVars,
                 prom, ops, fault>>

Drain ==
  /\ mode = "connected"
  /\ room < Room
  /\ room' = room + 1
  /\ UNCHANGED <<lifeVars, slotVars, mode, outVars, inVars, backlog, reset, conns,
                 histVars, prom, ops, fault>>

Reset ==
  /\ mode = "connected"
  /\ ~reset
  /\ reset' = TRUE
  /\ UNCHANGED <<lifeVars, slotVars, mode, outVars, inVars, backlog, room, conns,
                 histVars, prom, ops, fault>>

-----------------------------------------------------------------------------
Init ==
  /\ ctx = "live"
  /\ mem = "live"
  /\ closed = FALSE
  /\ finalized = FALSE
  /\ held = TRUE
  /\ uv = "open"
  /\ mode = "fresh"
  /\ readSlot = None
  /\ acceptSlot = None
  /\ connectReq = None
  /\ shutReq = None
  /\ shut = FALSE
  /\ writeq = <<>>
  /\ doneq = <<>>
  /\ reading = FALSE
  /\ pollin = FALSE
  /\ pollout = FALSE
  /\ fed = FALSE
  /\ accepted = FALSE
  /\ backlog = 0
  /\ room = Room
  /\ reset = FALSE
  /\ prom = [p \in Ops |-> "none"]
  /\ size = [p \in Ops |-> 0]
  /\ wire = <<>>
  /\ ops = 0
  /\ conns = 0
  /\ reused = FALSE
  /\ fault = "none"

Program ==
  \/ Read \/ Accept \/ Connect \/ Listen \/ Shutdown \/ Close \/ Drop
  \/ \E n \in Sizes : Write(n)

Loop ==
  \/ CloseCb
  \/ StreamIo
  \/ StaleCallback
  \/ \E ok \in BOOLEAN : ConnectCb(ok) \/ ReadCb(ok) \/ ConnectionCb(ok)

Environment == Arrive \/ Drain \/ Reset \/ Collect \/ FreeContext

Next == Program \/ Loop \/ Environment

Spec == Init /\ [][Next]_vars

\* The loop keeps running, a connection is made or fails in the end, and a
\* peer that did not reset the connection reads what is sent.
FairSpec ==
  /\ Spec
  /\ WF_vars(CloseCb)
  /\ SF_vars(StreamIo)
  /\ WF_vars(\E ok \in BOOLEAN : ConnectCb(ok))
  /\ WF_vars(Drain)

-----------------------------------------------------------------------------
(***************************************************************************)
(* Properties                                                              *)
(***************************************************************************)

TypeOK ==
  /\ ctx \in {"live", "freed"}
  /\ mem \in {"live", "freed"}
  /\ uv \in {"open", "closing", "closed"}
  /\ mode \in Modes
  /\ {closed, finalized, held, shut, reading, pollin, pollout, fed, accepted, reset,
    reused}
       \subseteq BOOLEAN
  /\ {readSlot, acceptSlot, connectReq, shutReq} \subseteq Ops \cup {None}
  /\ writeq \in Seq([op : Ops, left : Nat \ {0}])
  /\ doneq \in Seq([op : Ops, ok : BOOLEAN])
  /\ backlog \in 0..MaxConns
  /\ room \in 0..Room
  /\ prom \in [Ops -> {"none", "pending", "resolved", "rejected", "dropped"}]
  /\ size \in [Ops -> Sizes \cup {0}]
  /\ wire \in Seq(Ops)
  /\ ops \in 0..MaxOps
  /\ conns \in 0..MaxConns
  /\ fault \in {"none", "freedContext", "freedHandle", "unclosed"}

\* libuv never holds a request or a watcher of a struct that is freed: neither
\* order of finalizer and close callback frees it too early, although requests
\* outlive close() and the object. (Unless the handle is used again: connect()
\* and listen() do not ask whether it was closed, and give it a new socket.)
NoDanglingRequest ==
  mem = "freed" /\ ~reused => Requests = {} /\ ~pollin /\ ~pollout /\ ~fed /\ ~reading

Slots == {readSlot, acceptSlot} \ {None}

\* While a read() is pending on an open handle, libuv is reading.
ReadIsServed == readSlot # None /\ uv = "open" => reading /\ pollin

\* Every promise the program waits for is in exactly one slot or request, so
\* that something is left that can settle it; no slot holds one that is settled,
\* and a pending read() is being served.
PendingIsOwned ==
  fault = "none" =>
    /\ {p \in Ops : prom[p] = "pending"} = Slots \cup Requests
    /\ Slots \cap Requests = {}
    /\ ReadIsServed

\* While an accept() is pending on an open, listening handle, libuv is
\* watching for connections.
AcceptIsServed ==
  acceptSlot # None /\ uv = "open" /\ mode = "listening" => pollin

\* A write() whose promise is resolved gave all of its bytes to the kernel, and
\* no write() gives more than it was asked to.
WriteComplete ==
  \A p \in Ops :
    LET n == Cardinality({i \in DOMAIN wire : wire[i] = p})
    IN  n <= size[p] /\ (prom[p] = "resolved" => n = size[p])

\* The bytes of a stream leave in the order of the calls of write(), each once,
\* and no write() is resolved short of its bytes.
WireOrder ==
  /\ \A i, j \in DOMAIN wire : i < j => wire[i] <= wire[j]
  /\ \A i \in DOMAIN wire, j \in DOMAIN writeq : wire[i] <= writeq[j].op
  /\ WriteComplete

\* The struct has the two owners of HandleLifetime.
Lifetime == INSTANCE HandleLifetime WITH
  Promises <- Ops,
  owners <- (IF finalized THEN {} ELSE {"object"}) \cup (IF closed THEN {} ELSE {"loop"})

\* The stream implements HandleLifetime: the struct is freed once, by the last
\* of its two owners, and every promise is settled at most once and only while
\* the struct exists.
ImplementsLifetime == Lifetime!Spec

\* The model stops, or the handle was used again after close().
Undone == fault # "none" \/ ctx = "freed" \/ reused

\* After close(), and after the object is collected, every write, connect and
\* shutdown that was pending is settled.
CancelSettles ==
  \A p \in Ops :
    p \in Requests /\ uv # "open" ~> prom[p] \in {"resolved", "rejected"} \/ Undone

\* A write() on a connection whose peer reads is settled.
WriteSettles ==
  \A p \in Ops :
    (\E i \in DOMAIN writeq : writeq[i].op = p) ~>
      prom[p] \in {"resolved", "rejected"} \/ reset \/ Undone

\* Every write is settled by the peer that reads, and every write, connect and
\* shutdown by uv__stream_destroy when the handle is closed. (A connect or a
\* shutdown on a handle that stays open may wait for ever: a shutdown() that was
\* called while connecting does.)
Settles == WriteSettles /\ CancelSettles

=============================================================================
