-------------------------------- MODULE Udp ----------------------------------
(***************************************************************************)
(* One IJJSUdp (ijudp.c), the libuv handle below it and the kernel's two   *)
(* buffers. The program calls the methods in any order, on a closed handle *)
(* too; a call that throws changes nothing and is not a step. The n-th     *)
(* call that does not throw has the number n, which also names the promise *)
(* it returns.                                                             *)
(*                                                                         *)
(* Callbacks only settle promises, which queues jobs: no JavaScript runs   *)
(* inside libuv.                                                           *)
(*                                                                         *)
(* `fault' names an error after which the process is undefined or aborted, *)
(* and the model stops.                                                    *)
(***************************************************************************)
EXTENDS Integers, Sequences, FiniteSets

CONSTANTS
  None,         \* not a promise
  Room,         \* datagrams the kernel's send buffer takes
  Width,        \* UV__MMSG_MAXWIDTH, which is 20
  MaxArrivals,  \* bound: datagrams that reach the socket
  MaxOps        \* bound: calls of the program

ASSUME UdpAssumption ==
  /\ Room \in Nat \ {0} /\ Width \in Nat \ {0}
  /\ MaxArrivals \in Nat
  /\ MaxOps \in Nat
  /\ None \notin Nat

Ops == 1..MaxOps

VARIABLES
  ctx,        \* the JSContext
  mem,        \* the IJJSUdp struct
  closed,     \* u->closed
  finalized,  \* u->finalized: the JavaScript object is gone
  held,       \* the program references the object
  uv,         \* the libuv handle: "open", "closing", "closed"
  sock,       \* io_watcher.fd is a socket
  connected,  \* UV_HANDLE_UDP_CONNECTED
  pollin,     \* the loop watches for POLLIN
  pollout,    \* the loop watches for POLLOUT
  fed,        \* uv__io_feed: an event is due in any case
  slot,       \* u->read.result
  writeq,     \* write_queue
  doneq,      \* write_completed_queue
  mmsg,       \* uv__sendmmsg_avail: the kernel has sendmmsg
  room,       \* datagrams the kernel's send buffer still takes
  inbox,      \* datagrams in the kernel's receive buffer, numbered as they came
  prom,       \* the promises
  ops,        \* calls so far
  arrivals,   \* datagrams so far
  unkept,     \* queued sends whose buffer nothing keeps alive
  sends,      \* history: the calls of send()
  sent,       \* history: the sends whose datagram the kernel took
  taken,      \* history: the datagrams libuv read
  got,        \* history: the datagram a recv() was resolved with, or 0
  reused,     \* history: a method was called that uses the socket of a closed handle
  fault

lifeVars == <<ctx, mem, closed, finalized, held, uv>>
pollVars == <<pollin, pollout, fed>>
sockVars == <<sock, connected, mmsg>>
netVars  == <<room, inbox, arrivals>>
sendVars == <<writeq, doneq, unkept, sends, sent>>
recvVars == <<slot, taken, got>>
vars == <<lifeVars, pollVars, sockVars, netVars, sendVars, recvVars, prom, ops,
          reused, fault>>

-----------------------------------------------------------------------------
(***************************************************************************)
(* Calls of the program                                                    *)
(***************************************************************************)

Call == fault = "none" /\ ctx = "live" /\ held /\ ops < MaxOps /\ ops' = ops + 1

\* ijInitPromise: the call returns a pending promise.
InitPromise == prom' = [prom EXCEPT ![ops + 1] = "pending"]

\* ijSettlePromise for several promises at once
SettleAll(good, bad) ==
  prom' = [p \in Ops |-> IF p \in good THEN "resolved"
                         ELSE IF p \in bad THEN "rejected" ELSE prom[p]]

Reuse == reused' = (reused \/ uv # "open")

\* uv__udp_maybe_deferred_bind does not ask whether the handle is closed.
DeferredBind ==
  /\ sock' = TRUE
  /\ Reuse

\* ijUdpBind. A socket that is bound already makes it throw.
Bind ==
  /\ Call
  /\ ~sock
  /\ DeferredBind
  /\ UNCHANGED <<lifeVars, pollVars, connected, mmsg, netVars, sendVars, recvVars, prom,
                 fault>>

\* ijUdpConnect. EISCONN on a connected handle
Connect ==
  /\ Call
  /\ ~connected
  /\ connected' = TRUE
  /\ DeferredBind
  /\ UNCHANGED <<lifeVars, pollVars, mmsg, netVars, sendVars, recvVars, prom, fault>>

\* EBUSY, and EALREADY from uv__udp_recv_start
CanRecv == slot = None /\ ~pollin

\* ijUdpRecv
Recv ==
  /\ Call
  /\ CanRecv
  /\ DeferredBind
  /\ pollin' = TRUE
  /\ slot' = ops + 1
  /\ InitPromise
  /\ UNCHANGED <<lifeVars, pollout, fed, connected, mmsg, netVars, sendVars, taken, got,
                 fault>>

\* Mutant: a datagram is sent at once although others are queued.
CanTryAlways == TRUE

\* uv__udp_try_send: send_queue_count is 0.
CanTry == writeq = <<>> /\ doneq = <<>>

\* send() names a destination unless the handle is connected, and only then is
\* a socket made for a handle that has none.
Usable == sock \/ ~connected

\* uv_udp_try_send succeeds.
SendNow(fits) ==
  /\ CanTry
  /\ Usable
  /\ fits
  /\ room > 0
  /\ prom' = [prom EXCEPT ![ops + 1] = "resolved"]
  /\ sent' = Append(sent, ops + 1)
  /\ room' = room - 1
  /\ UNCHANGED <<writeq, doneq, pollout, fed, unkept, fault>>

\* uv_udp_try_send fails for whatever reason and uv_udp_send tries again at once:
\* the datagram is sent (the first error was that of an earlier datagram) or
\* fails for good, and is called back later.
SendAgain(ok) ==
  /\ CanTry
  /\ InitPromise
  /\ doneq' = <<[op |-> ops + 1, ok |-> ok]>>
  /\ fed' = TRUE
  /\ IF ok
     THEN room > 0 /\ room' = room - 1 /\ sent' = Append(sent, ops + 1)
     ELSE UNCHANGED <<room, sent>>
  /\ UNCHANGED <<writeq, pollout, unkept, fault>>

\* uv_udp_send reads the buffer of a string, which was given back before.
SendStale(fits, string) ==
  /\ CanTry
  /\ Usable
  /\ fits /\ string
  /\ room > 0
  /\ unkept' = unkept \cup {ops + 1}
  /\ fault' = "freedBuffer"
  /\ UNCHANGED <<writeq, doneq, pollout, fed, room, sent, prom>>

\* The buffer is full, or other datagrams come first: the request waits with the
\* program's own buffer. That of a string is given back before uv_udp_send.
SendLater(fits, string) ==
  /\ ~CanTry \/ (Usable /\ fits /\ room = 0)
  /\ IF Usable
     THEN /\ InitPromise
          /\ writeq' = Append(writeq, [op |-> ops + 1, fits |-> fits])
          /\ pollout' = TRUE
          /\ unkept' = IF string THEN unkept \cup {ops + 1} ELSE unkept
          /\ UNCHANGED fault
     ELSE \* uv__io_start asserts that there is a descriptor
          /\ fault' = "noDescriptor"
          /\ UNCHANGED <<prom, writeq, pollout, unkept>>
  /\ UNCHANGED <<doneq, fed, room, sent>>

\* ijUdpSend of a datagram that is not too long (fits), and of a string or an array
Send(fits, string) ==
  /\ Call
  /\ IF connected THEN Reuse /\ UNCHANGED sock ELSE DeferredBind
  /\ \/ SendNow(fits)
     \/ SendAgain(FALSE) /\ (~fits \/ ~Usable)
     \/ SendAgain(TRUE) /\ fits /\ Usable
     \/ SendStale(fits, string)
     \/ SendLater(fits, string)
  /\ sends' = sends \cup {ops + 1}
  /\ UNCHANGED <<lifeVars, pollin, connected, mmsg, inbox, arrivals, recvVars>>

\* The program drops the array of a send that is queued.
LetGo(p) ==
  /\ fault = "none"
  /\ ctx = "live"
  /\ \E i \in DOMAIN writeq : writeq[i].op = p
  /\ unkept' = unkept \cup {p}
  /\ UNCHANGED <<lifeVars, pollVars, sockVars, netVars, writeq, doneq, sends, sent,
                 recvVars, prom, ops, reused, fault>>

-----------------------------------------------------------------------------
(***************************************************************************)
(* Closing and the lifetime of the struct                                  *)
(***************************************************************************)

\* Mutant: uv_close leaves the watcher running.
StopIoSkipped ==
  /\ UNCHANGED pollVars
  /\ sock' = FALSE
  /\ inbox' = <<>>
  /\ room' = Room

\* uv__udp_close
StopIo ==
  /\ pollin' = FALSE
  /\ pollout' = FALSE
  /\ fed' = FALSE
  /\ sock' = FALSE
  /\ inbox' = <<>>
  /\ room' = Room

\* uvMaybeClose
MaybeClose ==
  IF uv = "open"
  THEN uv' = "closing" /\ StopIo
  ELSE UNCHANGED <<uv, pollVars, sock, inbox, room>>

\* close() resolves a pending recv() without data.
EndRecv == SettleAll({slot}, {}) /\ slot' = None

\* ijUdpClose
Close ==
  /\ Call
  /\ EndRecv
  /\ MaybeClose
  /\ UNCHANGED <<ctx, mem, closed, finalized, held, connected, mmsg, arrivals, sendVars,
                 taken, got, reused, fault>>

\* The program lets go of the object.
Drop ==
  /\ Call
  /\ held' = FALSE
  /\ UNCHANGED <<ctx, mem, closed, finalized, uv, pollVars, sockVars, netVars, sendVars,
                 recvVars, prom, reused, fault>>

\* Mutant: the finalizer does not wait for the close callback.
FinalizeFreesAlways == mem' = "freed"

\* The finalizer frees what the close callback has already left.
FinalizeFrees == mem' = IF closed THEN "freed" ELSE mem

\* ijUdpFinalizer. ijFreePromiseRT lets go of the promise in the slot.
Finalizer ==
  /\ ~finalized
  /\ finalized' = TRUE
  /\ prom' = [p \in Ops |-> IF p = slot THEN "dropped" ELSE prom[p]]
  /\ slot' = None
  /\ FinalizeFrees
  /\ IF closed THEN UNCHANGED <<uv, pollVars, sock, inbox, room>> ELSE MaybeClose
  /\ UNCHANGED <<closed, held, connected, mmsg, arrivals, sendVars, taken, got, ops,
                 reused>>

Collect ==
  /\ fault = "none"
  /\ ctx = "live"
  /\ ~held
  /\ Finalizer
  /\ UNCHANGED <<ctx, fault>>

\* ijFreeRuntime: the context is freed and with it the object, unless a pending
\* recv() keeps it (its resolving functions are referenced once more than the
\* collector knows): then the handle stays open and CHECK_EQ(closed, 1) fails.
FreeContext ==
  /\ fault = "none"
  /\ ctx = "live"
  /\ ctx' = "freed"
  /\ \/ Finalizer /\ UNCHANGED fault
     \/ /\ finalized \/ slot # None
        /\ fault' = IF finalized THEN fault ELSE "unclosed"
        /\ UNCHANGED <<mem, closed, finalized, held, uv, pollVars, sockVars, netVars,
                       sendVars, recvVars, prom, ops, reused>>

\* The promises of the requests libuv still has
Queued   == {writeq[i].op : i \in DOMAIN writeq}
Sent     == {doneq[i].op : i \in {j \in DOMAIN doneq : doneq[j].ok}}
Failed   == {doneq[i].op : i \in {j \in DOMAIN doneq : ~doneq[j].ok}}
Requests == Queued \cup Sent \cup Failed

CloseFrees == mem' = IF finalized THEN "freed" ELSE mem

Cancelled == Failed \cup Queued

\* uv__udp_finish_close asserts that nothing is watched and there is no socket,
\* and calls back every request, with ECANCELED when it was not sent; then
\* uvUdpCloseCb.
CloseCb ==
  /\ fault = "none"
  /\ uv = "closing"
  /\ IF sock \/ pollin \/ pollout \/ (ctx = "freed" /\ Requests # {})
     THEN /\ fault' = IF sock \/ pollin \/ pollout THEN "reopened" ELSE "freedContext"
          /\ UNCHANGED <<mem, closed, uv, writeq, doneq, unkept, prom>>
     ELSE /\ SettleAll(Sent, Cancelled)
          /\ writeq' = <<>>
          /\ doneq' = <<>>
          /\ unkept' = {}
          /\ uv' = "closed"
          /\ closed' = TRUE
          /\ CloseFrees
          /\ UNCHANGED fault
  /\ UNCHANGED <<ctx, finalized, held, pollVars, sockVars, netVars, sends, sent, recvVars,
                 ops, reused>>

-----------------------------------------------------------------------------
(***************************************************************************)
(* Callbacks                                                               *)
(***************************************************************************)

Callback == fault = "none" /\ mem = "live" /\ ctx = "live"

CanRecvCb == pollin /\ sock
CanSendIo == fed \/ (pollout /\ sock /\ room > 0)

\* ijClearPromise
ClearRecv == slot' = None

\* Mutant: the watcher goes on after a datagram.
RecvStopSkipped == UNCHANGED pollin

\* uv__udp_recv_stop
RecvStop == pollin' = FALSE

\* uv__udp_recvmsg and uvUdpRecvCb. A wake-up without a datagram changes nothing.
RecvCb(ok) ==
  /\ Callback
  /\ CanRecvCb
  /\ ok => inbox # <<>>
  /\ RecvStop
  /\ IF ok
     THEN /\ SettleAll({slot}, {})
          /\ inbox' = Tail(inbox)
          /\ taken' = Append(taken, Head(inbox))
          /\ got' = [p \in Ops |-> IF p = slot THEN Head(inbox) ELSE got[p]]
     ELSE SettleAll({}, {slot}) /\ UNCHANGED <<inbox, taken, got>>
  /\ ClearRecv
  /\ UNCHANGED <<lifeVars, pollout, fed, sockVars, room, arrivals, sendVars, ops, reused,
                 fault>>

\* The datagrams of the queue that the kernel takes before it is full
Fitting(i) == {j \in 1..i : writeq[j].fits}

\* uv__udp_sendmsg, one datagram after the other, until the kernel is full
OneByOne ==
  LET done == {i \in DOMAIN writeq : Cardinality(Fitting(i)) <= room}
      good == {i \in done : writeq[i].fits}
  IN  [done |-> done, good |-> good, sent |-> good, feed |-> done # {}]

\* Where a batch of uv__udp_sendmmsg begins, if those before it were completed
Begins == {s \in DOMAIN writeq : \E k \in 0..Len(writeq) : s = k * Width + 1}

\* The kernel stops at the first datagram of a batch that it cannot take.
Clean(i) == \A j \in 1..i : (\A s \in Begins : j < s => i < s) => writeq[j].fits

\* The datagrams up to i that the kernel takes if it has room
Taken(i) == {j \in 1..i : Clean(j)}

\* It takes the first datagram of a batch, and the whole batch is reported as sent.
Goes(s) == writeq[s].fits /\ Cardinality(Taken(s)) <= room

\* It refuses the first datagram: the whole batch fails, and no other is tried.
Refused(s) == ~writeq[s].fits /\ \A t \in Begins : t < s => Goes(t)

\* uv__udp_sendmmsg, batch after batch, until one fails or the kernel is full.
\* It feeds the watcher unless the kernel was full.
Batch ==
  LET good == {i \in DOMAIN writeq : \A s \in Begins : s <= i => Goes(s)}
      bad == {i \in DOMAIN writeq :
                \E s \in Begins : s <= i /\ i < s + Width /\ Refused(s)}
  IN  [done |-> good \cup bad,
       good |-> good,
       sent |-> {i \in good : Clean(i) /\ Cardinality(Taken(i)) <= room},
       feed |-> writeq # <<>> /\ (good = DOMAIN writeq \/ bad # {})]

Transmit == IF mmsg THEN Batch ELSE OneByOne

\* Mutant: POLLOUT is watched only while something was completed.
StillWatchedNot(left) == FALSE

\* uv__udp_run_completed stops POLLOUT when the queue is empty.
StillWatched(left) == pollout /\ left # <<>>

OpsOf(is) == {writeq[i].op : i \in is}

\* The n-th of a set of places in the queue, which is worked off from its head
Nth(is, n) == CHOOSE i \in is : Cardinality({j \in is : j <= i}) = n

\* uv__udp_io for POLLOUT, and uvUdpSendCb for every request that is completed
SendIo ==
  /\ Callback
  /\ CanSendIo
  /\ LET r == Transmit
         left == SubSeq(writeq, Cardinality(r.done) + 1, Len(writeq))
     IN  /\ sent' = sent \o [n \in 1..Cardinality(r.sent) |-> writeq[Nth(r.sent, n)].op]
         /\ writeq' = left
         /\ doneq' = <<>>
         /\ unkept' = unkept \ OpsOf(r.done)
         /\ SettleAll(Sent \cup OpsOf(r.good), Failed \cup OpsOf(r.done \ r.good))
         /\ room' = room - Cardinality(r.sent)
         /\ fed' = r.feed
         /\ pollout' = StillWatched(left)
  /\ UNCHANGED <<lifeVars, pollin, sockVars, inbox, arrivals, sends, recvVars, ops,
                 reused, fault>>

\* The kernel reads a buffer that was collected.
SendFreed ==
  /\ Callback
  /\ CanSendIo
  /\ OpsOf(Transmit.sent) \cap unkept # {}
  /\ fault' = "freedBuffer"
  /\ UNCHANGED <<lifeVars, pollVars, sockVars, netVars, sendVars, recvVars, prom, ops,
                 reused>>

\* A callback for a struct or in a context that is freed
StaleCallback ==
  /\ fault = "none"
  /\ ~Callback
  /\ (CanRecvCb /\ inbox # <<>>) \/ CanSendIo
  /\ fault' = IF mem = "freed" THEN "freedHandle" ELSE "freedContext"
  /\ UNCHANGED <<lifeVars, pollVars, sockVars, netVars, sendVars, recvVars, prom, ops,
                 reused>>

-----------------------------------------------------------------------------
(***************************************************************************)
(* The network: a datagram that is lost does not arrive, a duplicate is    *)
(* one more arrival                                                        *)
(***************************************************************************)

Arrive ==
  /\ fault = "none"
  /\ sock
  /\ arrivals < MaxArrivals
  /\ arrivals' = arrivals + 1
  /\ inbox' = Append(inbox, arrivals + 1)
  /\ UNCHANGED <<lifeVars, pollVars, sockVars, room, sendVars, recvVars, prom, ops,
                 reused, fault>>

Drain ==
  /\ fault = "none"
  /\ sock
  /\ room < Room
  /\ room' = room + 1
  /\ UNCHANGED <<lifeVars, pollVars, sockVars, inbox, arrivals, sendVars, recvVars, prom,
                 ops, reused, fault>>

-----------------------------------------------------------------------------
\* ijNewUdp: with an address family there is a socket from the start.
Init ==
  /\ ctx = "live"
  /\ mem = "live"
  /\ closed = FALSE
  /\ finalized = FALSE
  /\ held = TRUE
  /\ uv = "open"
  /\ sock \in BOOLEAN
  /\ connected = FALSE
  /\ pollin = FALSE
  /\ pollout = FALSE
  /\ fed = FALSE
  /\ slot = None
  /\ writeq = <<>>
  /\ doneq = <<>>
  /\ mmsg \in BOOLEAN
  /\ room = Room
  /\ inbox = <<>>
  /\ prom = [p \in Ops |-> "none"]
  /\ ops = 0
  /\ arrivals = 0
  /\ unkept = {}
  /\ sends = {}
  /\ sent = <<>>
  /\ taken = <<>>
  /\ got = [p \in Ops |-> 0]
  /\ reused = FALSE
  /\ fault = "none"

Program ==
  \/ Bind \/ Connect \/ Recv \/ Close \/ Drop
  \/ \E fits, string \in BOOLEAN : Send(fits, string)
  \/ \E p \in Ops : LetGo(p)

Loop ==
  \/ CloseCb
  \/ \E ok \in BOOLEAN : RecvCb(ok)
  \/ SendIo
  \/ SendFreed
  \/ StaleCallback

Environment == Arrive \/ Drain \/ Collect \/ FreeContext

Next == Program \/ Loop \/ Environment

Spec == Init /\ [][Next]_vars

\* The loop keeps running and the network takes what the kernel holds.
FairSpec ==
  /\ Spec
  /\ WF_vars(CloseCb)
  /\ WF_vars(SendIo)
  /\ WF_vars(Drain)

-----------------------------------------------------------------------------
(***************************************************************************)
(* Properties                                                              *)
(***************************************************************************)

TypeOK ==
  /\ ctx \in {"live", "freed"}
  /\ mem \in {"live", "freed"}
  /\ uv \in {"open", "closing", "closed"}
  /\ {closed, finalized, held, sock, connected, pollin, pollout, fed, mmsg, reused}
       \subseteq BOOLEAN
  /\ slot \in Ops \cup {None}
  /\ writeq \in Seq([op : Ops, fits : BOOLEAN])
  /\ doneq \in Seq([op : Ops, ok : BOOLEAN])
  /\ room \in 0..Room
  /\ inbox \in Seq(1..MaxArrivals)
  /\ prom \in [Ops -> {"none", "pending", "resolved", "rejected", "dropped"}]
  /\ ops \in 0..MaxOps
  /\ arrivals \in 0..MaxArrivals
  /\ unkept \subseteq Ops
  /\ sends \subseteq Ops
  /\ sent \in Seq(Ops)
  /\ taken \in Seq(1..MaxArrivals)
  /\ got \in [Ops -> 0..MaxArrivals]
  /\ fault \in {"none", "freedContext", "freedHandle", "freedBuffer", "noDescriptor",
                "reopened", "unclosed"}

\* libuv never holds a request or a watcher of a struct that is freed, whichever
\* of finalizer and close callback comes first, unless a closed handle was used
\* again.
NoDanglingRequest ==
  mem = "freed" /\ ~reused => Requests = {} /\ ~pollin /\ ~pollout /\ ~fed

\* Every promise the program waits for is in the slot or in exactly one request,
\* so that something is left that can settle it.
PendingIsOwned ==
  fault = "none" =>
    /\ {p \in Ops : prom[p] = "pending"} = ({slot} \ {None}) \cup Requests
    /\ slot \notin Requests
    /\ Cardinality(Requests) = Len(writeq) + Len(doneq)

\* recv() is pending exactly while libuv watches for a datagram: close(), an
\* error and a datagram end both, so that none is waited for in vain and none
\* is read that nobody waits for.
RecvIsServed == fault = "none" /\ ~reused => (slot # None <=> pollin)

\* Every datagram that libuv took from the kernel is the result of one recv(),
\* in the order of the calls.
ReadIsDelivered ==
  ~reused =>
    LET served == {p \in Ops : got[p] # 0}
    IN  /\ {taken[i] : i \in DOMAIN taken} = {got[p] : p \in served}
        /\ \A p, q \in served : p < q => got[p] < got[q]
        /\ \A p \in served : prom[p] = "resolved"

\* Datagrams leave in the order of the calls, each at most once, also when one
\* is queued and the next could be sent at once.
SendOrder ==
  /\ \A i, j \in DOMAIN sent : i < j => sent[i] < sent[j]
  /\ \A i \in DOMAIN sent, q \in Queued : sent[i] < q

\* What send() is told is what happened to its datagram.
ToldTruly ==
  \A p \in sends :
    LET left == \E i \in DOMAIN sent : sent[i] = p
    IN  /\ prom[p] = "resolved" => left
        /\ prom[p] = "rejected" => ~left

\* Without sendmmsg send() is told what happened to its datagram, whatever the
\* datagrams before and behind it do. (With it, uv__udp_sendmmsg gives the whole
\* batch the status of its first datagram.)
StatusIsTrueAlone == ~mmsg => ToldTruly

\* A program that calls nothing on a closed handle and sends arrays, which it keeps
\* until send() is settled, reaches no undefined state while its context
\* lives; freeing the context fails only over a call that is pending.
FaultCause ==
  fault # "none" =>
    \/ reused
    \/ unkept # {}
    \/ ctx = "freed" /\ (Requests # {} \/ slot # None)

\* A struct that libuv still uses exists, what the program waits for can be
\* settled and is told truly, and undefined states have their causes.
Inv == TypeOK /\ NoDanglingRequest /\ PendingIsOwned /\ StatusIsTrueAlone /\ FaultCause

\* No datagram is lost between kernel and program, waited for in vain, or
\* overtaken by a later one.
Delivery == RecvIsServed /\ ReadIsDelivered /\ SendOrder

\* The struct has the two owners of HandleLifetime.
Lifetime == INSTANCE HandleLifetime WITH
  Promises <- Ops,
  owners <- (IF finalized THEN {} ELSE {"object"}) \cup (IF closed THEN {} ELSE {"loop"})

\* The UDP handle implements HandleLifetime: the struct is freed once, by the
\* last of its two owners, and every promise is settled at most once and only
\* while the struct exists.
ImplementsLifetime == Lifetime!Spec

\* The model stops, or the handle was used again after close().
Undone == fault # "none" \/ ctx = "freed" \/ reused

\* Every send() is settled: sent, failed, or cancelled by close() or by the
\* collection of the object.
SendSettles ==
  \A p \in Ops : p \in Requests ~> prom[p] \in {"resolved", "rejected"} \/ Undone
=============================================================================
