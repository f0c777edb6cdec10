-------------------------------- MODULE Xhr --------------------------------
(***************************************************************************)
(* XMLHttpRequest (src/code/src/ijxhr.c, the class of bootstrap2.js around *)
(* it) on libcurl 7.71 (externals/curl: multi.c, easy.c, url.c).           *)
(*                                                                         *)
(* Every event of a request is a synchronous call from C into the program: *)
(* from a callback of libcurl while the response arrives (curlmHeaderCb,   *)
(* curlmDataCb, curlmProcessCb), or from ijCheckMultiInfo when it is over. *)
(* The program may call any method of any request inside it.  The C stack  *)
(* is therefore part of the state: `stack' is the sequence of what is left *)
(* to do, the innermost first.                                             *)
(*                                                                         *)
(*   js      a handler of x runs; the program calls what it likes          *)
(*   emit    ijMaybeEmitEvent(x, ev)                                       *)
(*   alloc   JS_NewObjectProto in curlmProcessCb: the collector may run    *)
(*   cb      the rest of a callback of libcurl for x                       *)
(*   socket  curl_multi_socket_action; perform: curl_easy_perform of x     *)
(*   check   the loop of ijCheckMultiInfo                                  *)
(*   null    curlmDoneCb after curlDoneCb, then ijCheckMultiInfo's cleanup *)
(*   sent    ijXhrSend after curlDoneCb; ret: open() or abort() returns    *)
(***************************************************************************)
EXTENDS Integers, Sequences, FiniteSets

CONSTANTS
    Xhrs,       \* the requests of the program
    Budgets,    \* bounds on the number of calls the program makes of each
    MaxNest     \* bound on the handlers inside handlers that do something

ASSUME XhrAssumption ==
    Budgets \subseteq [Xhrs -> Nat] /\ Budgets # {} /\ MaxNest \in Nat

UNSENT == 0
OPENED == 1
HEADERS_RECEIVED == 2
LOADING == 3
DONE == 4

VARIABLES
    alive,      \* the IJJSXhr is allocated
    held,       \* the program can reach the object
    curl_h,     \* x->curl_h is not NULL
    easy,       \* where the easy handle is
    ownMulti,   \* data->multi_easy: curl_easy_perform has been used on it
    headers,    \* what CURLOPT_HTTPHEADER points to
    slist,      \* x->slist is not NULL
    sent, async, ready_state,
    events,     \* the class's handlers are installed in x->events
    hbuf,       \* x->result.hbuf is not empty
    resp,       \* how much of the response libcurl has seen
    msglist,    \* multi->msglist: the transfers that are over
    stack,      \* what the C stack has left to do
    last,       \* place in the order of events of the last one since send()
    past,       \* what has been done to a request
    calls, fault

vars == <<alive, held, curl_h, easy, ownMulti, headers, slist, sent, async,
          ready_state, events, hbuf, resp, msglist, stack, last, past, calls, fault>>
object == <<alive, held, ownMulti>>
request == <<headers, slist, sent, async, ready_state, events, hbuf>>

Results == {"ok", "error", "timeout"}
EventNames == {"readystatechange", "loadstart", "progress", "timeout", "loadend",
               "load", "error", "abort"}
Calling == {"js", "alloc", "cb", "perform", "null", "sent", "ret"}
None == "none"

F(k, x) == [k |-> k, x |-> x, ev |-> None]
Emit(x, ev) == [k |-> "emit", x |-> x, ev |-> ev]
Frames == [k : Calling, x : Xhrs, ev : {None}] \union [k : {"emit"}, x : Xhrs, ev : EventNames]
          \union [k : {"socket", "check"}, x : {None}, ev : {None}]

\* The place of an event in the life of a request.
Place(x, ev) ==
    CASE ev = "readystatechange" -> <<1, 1, 3, 4, 6>>[ready_state[x] + 1]
      [] ev = "loadstart" -> 2
      [] ev = "progress" -> 5
      [] ev = "timeout" -> 7
      [] ev = "loadend" -> 8
      [] ev \in {"load", "error"} -> 9
      [] ev = "abort" -> 10

\* The frames left when the innermost one returns; open() and abort() return
\* with the event that they emit last.
Left == IF Len(stack) > 1 /\ stack[2].k = "ret" THEN Tail(Tail(stack)) ELSE Tail(stack)

Top(k) == stack # <<>> /\ stack[1].k = k
OnStack(x, ks) == \E i \in DOMAIN stack : stack[i].x = x /\ stack[i].k \in ks

\* The program's code runs: from the loop, or inside a handler.
Running == fault = None /\ (stack = <<>> \/ Top("js"))
Callable(x) ==
    /\ Running /\ held[x]
    /\ \E b \in Budgets : calls[x] < b[x] /\ \A y \in Xhrs : calls[y] <= b[y]
    /\ Cardinality({i \in DOMAIN stack : stack[i].k = "js"}) <= MaxNest

\* multi->in_callback of the runtime's multi handle.  Curl_set_in_callback
\* marks multi_easy instead when the handle has one.
InCallback == \E i \in DOMAIN stack : /\ stack[i].k = "cb"
                                      /\ easy[stack[i].x] = "multi"
                                      /\ ~ownMulti[stack[i].x]

\* Inside an event of x that libcurl, curlmDoneCb or send() delivers.
Inside(x) == OnStack(x, {"cb", "perform", "null", "sent"})

\* A frame that keeps the object alive: a handler of x, or a method of x.
Kept(x) == held[x] \/ OnStack(x, {"js", "perform", "sent", "ret"})

Init ==
    /\ alive = [x \in Xhrs |-> TRUE]
    /\ held = [x \in Xhrs |-> TRUE]
    /\ curl_h = [x \in Xhrs |-> TRUE]
    /\ easy = [x \in Xhrs |-> "idle"]
    /\ ownMulti = [x \in Xhrs |-> FALSE]
    /\ headers = [x \in Xhrs |-> None]
    /\ slist = [x \in Xhrs |-> FALSE]
    /\ sent = [x \in Xhrs |-> FALSE]
    /\ async = [x \in Xhrs |-> TRUE]
    /\ ready_state = [x \in Xhrs |-> UNSENT]
    /\ events = [x \in Xhrs |-> TRUE]
    /\ hbuf = [x \in Xhrs |-> FALSE]
    /\ resp = [x \in Xhrs |-> None]
    /\ msglist = <<>>
    /\ stack = <<>>
    /\ last = [x \in Xhrs |-> 0]
    /\ past = [x \in Xhrs |-> {}]
    /\ calls = [x \in Xhrs |-> 0]
    /\ fault = None

Remember(x, S) == past' = [past EXCEPT ![x] = @ \union S]

-----------------------------------------------------------------------------
(* Releasing the easy handle: curl_multi_remove_handle, curl_easy_cleanup. *)

\* Neither call takes the handle out of a multi handle that is inside one of
\* its callbacks (CURLM_RECURSIVE_API_CALL), and Curl_close frees it all the
\* same; a handle whose own callback is on the stack is used when it returns.
CleanupFault(x) == \/ easy[x] = "multi" /\ InCallback
                   \/ easy[x] \in {"own", "freed"}
                   \/ OnStack(x, {"cb"})

\* multi->msglist without the message of x, of which there is at most one.
Unlisted(x) ==
    IF \E i \in DOMAIN msglist : msglist[i].x = x
      THEN LET i == CHOOSE i \in DOMAIN msglist : msglist[i].x = x
           IN  SubSeq(msglist, 1, i - 1) \o SubSeq(msglist, i + 1, Len(msglist))
      ELSE msglist

CleanupEasy(x) ==
    /\ easy' = [easy EXCEPT ![x] = "freed"]
    /\ resp' = [resp EXCEPT ![x] = None]
    /\ msglist' = Unlisted(x)
    /\ fault' = IF CleanupFault(x) THEN "easy" ELSE fault

FinalizerCleans(x) == curl_h[x]

\* ijXhrFinalizer.
Finalizer(x) ==
    /\ alive' = [alive EXCEPT ![x] = FALSE]
    /\ IF FinalizerCleans(x) THEN CleanupEasy(x) ELSE UNCHANGED <<easy, resp, msglist, fault>>
    /\ UNCHANGED <<held, curl_h, ownMulti>>

-----------------------------------------------------------------------------
(* The calls of the program.                                               *)

\* Mutant: open() does not reset x->sent.
SentAfterOpenKept(x) == sent[x]

SentAfterOpen(x) == sent[x] /\ ready_state[x] # DONE

\* x->slist is freed; the handle's option is not reset.
FreedHeaders(x, h) == IF slist[x] /\ h = "live" THEN "dangling" ELSE h

\* ijXhrOpen.  On a finished request it first clears everything, the
\* handlers too.  Its options go to curl_h, and nowhere when that is NULL.
Open(x, a) ==
    /\ Callable(x)
    /\ calls' = [calls EXCEPT ![x] = @ + 1]
    /\ ready_state[x] \in {UNSENT, DONE}
    /\ LET reset == ready_state[x] = DONE IN
        /\ sent' = [sent EXCEPT ![x] = SentAfterOpen(x)]
        /\ events' = [events EXCEPT ![x] = @ /\ ~reset]
        /\ hbuf' = [hbuf EXCEPT ![x] = @ /\ ~reset]
        /\ headers' = [headers EXCEPT ![x] = IF reset THEN FreedHeaders(x, @) ELSE @]
        /\ slist' = [slist EXCEPT ![x] = @ /\ ~reset]
        /\ Remember(x, (IF Inside(x) THEN {"nested"} ELSE {})
                       \union (IF reset /\ slist[x] /\ easy[x] = "multi" THEN {"headers"} ELSE {}))
    /\ async' = [async EXCEPT ![x] = a]
    /\ ready_state' = [ready_state EXCEPT ![x] = OPENED]
    /\ stack' = <<Emit(x, "readystatechange"), F("ret", x)>> \o stack
    /\ UNCHANGED <<object, curl_h, easy, resp, msglist, last, fault>>

\* ijXhrSetRequestHeader.
SetRequestHeader(x) ==
    /\ Callable(x)
    /\ calls' = [calls EXCEPT ![x] = @ + 1]
    /\ ~slist[x]
    /\ slist' = [slist EXCEPT ![x] = TRUE]
    /\ UNCHANGED <<object, curl_h, easy, headers, sent, async, ready_state, events, hbuf,
                   resp, msglist, stack, last, past, fault>>

\* Mutant: loadend comes last.
DoneEventsSwapped(x, res) ==
    <<Emit(x, "readystatechange"),
      Emit(x, CASE res = "timeout" -> "timeout" [] res = "error" -> "error" [] res = "ok" -> "load"),
      Emit(x, "loadend")>>

\* curlDoneCb delivers the events of the end in this order.
DoneEvents(x, res) ==
    <<Emit(x, "readystatechange")>>
    \o (IF res = "timeout" THEN <<Emit(x, "timeout")>> ELSE <<>>)
    \o <<Emit(x, "loadend")>>
    \o (CASE res = "timeout" -> <<>>
          [] res = "error" -> <<Emit(x, "error")>>
          [] res = "ok" -> <<Emit(x, "load")>>)

\* What CURLOPT_HTTPHEADER points to when send() has set its options.
SentHeaders(x) == IF slist[x] /\ curl_h[x] THEN "live" ELSE headers[x]

\* curl_multi_add_handle takes the handle; curl_easy_perform takes it.
CanAdd(x) == curl_h[x] /\ easy[x] = "idle" /\ ~InCallback
CanPerform(x) == curl_h[x] /\ easy[x] = "idle"

\* ijXhrSend of an asynchronous request.  The result of
\* curl_multi_add_handle is not looked at.
SendAsync(x) ==
    /\ Callable(x)
    /\ calls' = [calls EXCEPT ![x] = @ + 1]
    /\ ~sent[x] /\ async[x]
    /\ sent' = [sent EXCEPT ![x] = TRUE]
    /\ headers' = [headers EXCEPT ![x] = SentHeaders(x)]
    /\ IF CanAdd(x)
         THEN /\ easy' = [easy EXCEPT ![x] = "multi"]
              /\ fault' = IF SentHeaders(x) = "dangling" THEN "headers" ELSE fault
         ELSE UNCHANGED <<easy, fault>>
    /\ last' = [last EXCEPT ![x] = 0]
    /\ Remember(x, (IF InCallback THEN {"callback"} ELSE {})
                   \union (IF slist[x] /\ ~CanAdd(x) THEN {"headers"} ELSE {}))
    /\ UNCHANGED <<object, curl_h, slist, async, ready_state, events, hbuf,
                   resp, msglist, stack>>

\* ijXhrSend of a synchronous request: curl_easy_perform runs it in a multi
\* handle of its own, or fails at once and curlDoneCb reports the error.
SendSync(x) ==
    /\ Callable(x)
    /\ calls' = [calls EXCEPT ![x] = @ + 1]
    /\ ~sent[x] /\ ~async[x]
    /\ IF CanPerform(x)
         THEN /\ easy' = [easy EXCEPT ![x] = "own"]
              /\ ownMulti' = [ownMulti EXCEPT ![x] = TRUE]
              /\ headers' = [headers EXCEPT ![x] = SentHeaders(x)]
              /\ fault' = IF SentHeaders(x) = "dangling" THEN "headers" ELSE fault
              /\ stack' = <<F("perform", x)>> \o stack
              /\ UNCHANGED <<slist, ready_state>>
         ELSE /\ headers' = [headers EXCEPT ![x] = FreedHeaders(x, SentHeaders(x))]
              /\ slist' = [slist EXCEPT ![x] = FALSE]
              /\ ready_state' = [ready_state EXCEPT ![x] = DONE]
              /\ stack' = DoneEvents(x, "error") \o <<F("sent", x)>> \o stack
              /\ UNCHANGED <<easy, ownMulti, fault>>
    /\ last' = [last EXCEPT ![x] = 0]
    /\ Remember(x, (IF slist[x] THEN {"headers"} ELSE {})
                   \union (IF Inside(x) THEN {"nested"} ELSE {}))
    /\ UNCHANGED <<alive, held, curl_h, sent, async, events, hbuf, resp, msglist>>

\* Mutant: abort() emits no event.
AbortEventsNone(x) == <<>>

AbortEvents(x) == <<Emit(x, "abort"), F("ret", x)>>

\* ijXhrAbort.
Abort(x) ==
    /\ Callable(x)
    /\ calls' = [calls EXCEPT ![x] = @ + 1]
    /\ curl_h[x]
    /\ CleanupEasy(x)
    /\ curl_h' = [curl_h EXCEPT ![x] = FALSE]
    /\ ready_state' = [ready_state EXCEPT ![x] = UNSENT]
    /\ stack' = AbortEvents(x) \o stack
    /\ Remember(x, {"aborted"} \union
                   (IF stack # <<>> /\ easy[x] # "idle" THEN {"abortInside"} ELSE {})
                   \union (IF Inside(x) THEN {"nested"} ELSE {}))
    /\ UNCHANGED <<object, headers, slist, sent, async, events, hbuf, last>>

\* The program forgets the request.  Neither libcurl nor the runtime counts
\* as a reference, so a request that is under way can be collected.
Drop(x) ==
    /\ Callable(x)
    /\ calls' = [calls EXCEPT ![x] = @ + 1]
    /\ held' = [held EXCEPT ![x] = FALSE]
    /\ Remember(x, IF easy[x] = "multi" \/ Inside(x) THEN {"dropped"} ELSE {})
    /\ UNCHANGED <<alive, curl_h, easy, ownMulti, request, resp, msglist, stack,
                   last, fault>>

\* The collector of QuickJS, which runs when an object is made.
Collect(x) ==
    /\ Running \/ (fault = None /\ Top("alloc"))
    /\ alive[x] /\ ~Kept(x)
    /\ Finalizer(x)
    /\ UNCHANGED <<request, stack, last, past, calls>>

\* The handler returns and ijMaybeEmitEvent releases it: when open() has
\* cleared x->events this was the last path to the object.
Return ==
    /\ fault = None /\ Top("js")
    /\ stack' = Left
    /\ LET x == stack[1].x IN
        IF /\ ~held[x] /\ ~events[x]
           /\ \A i \in 2..Len(stack) :
                ~(stack[i].x = x /\ stack[i].k \in {"js", "perform", "sent", "ret"})
          THEN Finalizer(x)
          ELSE UNCHANGED <<object, curl_h, easy, resp, msglist, fault>>
    /\ UNCHANGED <<request, last, past, calls>>

-----------------------------------------------------------------------------
(* libcurl and the rest of the C stack.                                    *)

\* uvPollCb and uvTimerCb: a socket of the multi handle is ready or its
\* timer has expired.
SocketAction ==
    /\ fault = None /\ stack = <<>>
    /\ \E x \in Xhrs : easy[x] = "multi"
    /\ stack' = <<F("socket", None)>>
    /\ UNCHANGED <<object, curl_h, easy, request, resp, msglist, last, past, calls, fault>>

\* libcurl works on the transfer of x.
Transferring(x) ==
    /\ fault = None
    /\ \/ Top("socket") /\ easy[x] = "multi" /\ \A i \in DOMAIN msglist : msglist[i].x # x
       \/ Top("perform") /\ stack[1].x = x

Callback(x, fs) == stack' = fs \o <<F("cb", x)>> \o stack

\* curlmHeaderCb, a status line.
StatusLine(x) ==
    /\ Transferring(x) /\ resp[x] = None
    /\ resp' = [resp EXCEPT ![x] = "head"]
    /\ hbuf' = [hbuf EXCEPT ![x] = FALSE]
    /\ IF hbuf[x] THEN UNCHANGED stack ELSE Callback(x, <<Emit(x, "loadstart")>>)
    /\ UNCHANGED <<object, curl_h, easy, headers, slist, sent, async, ready_state, events,
                   msglist, last, past, calls, fault>>

\* curlmHeaderCb, the lines up to the empty one.  Of a redirect that libcurl
\* follows (it has a Location line), of a final answer 3xx (which may have no line at
\* all), of an answer 1xx and of any other.
EmptyLine(x, kind) ==
    /\ Transferring(x) /\ resp[x] = "head"
    /\ resp' = [resp EXCEPT ![x] = IF kind \in {"followed", "1xx"} THEN None ELSE "body"]
    /\ \E filled \in BOOLEAN :
         (kind # "3xx" => filled) /\ hbuf' = [hbuf EXCEPT ![x] = filled]
    /\ IF kind \in {"followed", "3xx"}
         THEN UNCHANGED <<stack, ready_state>>
         ELSE /\ ready_state' = [ready_state EXCEPT ![x] = HEADERS_RECEIVED]
              /\ Callback(x, <<Emit(x, "readystatechange")>>)
    /\ fault' = IF kind = "followed" /\ headers[x] = "dangling" THEN "headers" ELSE fault
    /\ UNCHANGED <<object, curl_h, easy, headers, slist, sent, async, events,
                   msglist, last, past, calls>>

\* curlmDataCb.
Data(x) ==
    /\ Transferring(x) /\ resp[x] = "body"
    /\ ready_state[x] = HEADERS_RECEIVED
    /\ ready_state' = [ready_state EXCEPT ![x] = LOADING]
    /\ Callback(x, <<Emit(x, "readystatechange")>>)
    /\ UNCHANGED <<object, curl_h, easy, headers, slist, sent, async, events, hbuf, resp,
                   msglist, last, past, calls, fault>>

\* curlmProcessCb: the event object is made first.
Progress(x) ==
    /\ Transferring(x) /\ ready_state[x] = LOADING
    /\ Callback(x, <<F("alloc", x), Emit(x, "progress")>>)
    /\ UNCHANGED <<object, curl_h, easy, request, resp, msglist, last, past, calls, fault>>

\* A transfer of the multi handle is over: multi_addmsg.
Complete(x, res) ==
    /\ Transferring(x) /\ Top("socket")
    /\ msglist' = Append(msglist, [x |-> x, res |-> res])
    /\ resp' = [resp EXCEPT ![x] = None]
    /\ UNCHANGED <<object, curl_h, easy, request, stack, last, past, calls, fault>>

\* curl_easy_perform returns and ijXhrSend calls curlDoneCb.
PerformDone(x, res) ==
    /\ Transferring(x) /\ Top("perform")
    /\ easy' = [easy EXCEPT ![x] = "idle"]
    /\ resp' = [resp EXCEPT ![x] = None]
    /\ headers' = [headers EXCEPT ![x] = FreedHeaders(x, @)]
    /\ slist' = [slist EXCEPT ![x] = FALSE]
    /\ ready_state' = [ready_state EXCEPT ![x] = DONE]
    /\ stack' = DoneEvents(x, res) \o <<F("sent", x)>> \o Tail(stack)
    /\ UNCHANGED <<object, curl_h, sent, async, events, hbuf, msglist, last,
                   past, calls, fault>>

\* curl_multi_socket_action returns; ijCheckMultiInfo begins.
SocketReturns ==
    /\ fault = None /\ Top("socket")
    /\ stack' = <<F("check", None)>> \o Tail(stack)
    /\ UNCHANGED <<object, curl_h, easy, request, resp, msglist, last, past, calls, fault>>

\* ijCheckMultiInfo: the next message, or the end.
CheckMultiInfo ==
    /\ fault = None /\ Top("check")
    /\ IF msglist = <<>>
         THEN /\ stack' = Tail(stack)
              /\ UNCHANGED <<msglist, headers, slist, ready_state, fault>>
         ELSE LET x == Head(msglist).x IN
              /\ msglist' = Tail(msglist)
              /\ fault' = IF curl_h[x] THEN fault ELSE "check"
              /\ headers' = [headers EXCEPT ![x] = FreedHeaders(x, @)]
              /\ slist' = [slist EXCEPT ![x] = FALSE]
              /\ ready_state' = [ready_state EXCEPT ![x] = DONE]
              /\ stack' = DoneEvents(x, Head(msglist).res) \o <<F("null", x)>> \o stack
    /\ UNCHANGED <<object, curl_h, easy, sent, async, events, hbuf, resp, last, past, calls>>

\* Mutant: curlmDoneCb leaves x->curl_h alone.
HandleAfterDoneKept(x) == curl_h[x]

HandleAfterDone(x) == FALSE

\* curlmDoneCb ends with x->curl_h = NULL, and ijCheckMultiInfo removes and
\* cleans up the handle it has taken from the message.
DoneReturns ==
    /\ fault = None /\ Top("null")
    /\ LET x == stack[1].x IN
        /\ curl_h' = [curl_h EXCEPT ![x] = HandleAfterDone(x)]
        /\ easy' = [easy EXCEPT ![x] = "freed"]
        /\ fault' = CASE ~alive[x] -> "object"
                      [] alive[x] /\ easy[x] = "freed" -> "easy"
                      [] OTHER -> fault
        /\ Remember(x, {"finished"})
    /\ stack' = Tail(stack)
    /\ UNCHANGED <<object, request, resp, msglist, last, calls>>

\* ijMaybeEmitEvent.
EmitEvent ==
    /\ fault = None /\ Top("emit")
    /\ LET x == stack[1].x IN
        /\ fault' = IF alive[x] THEN fault ELSE "object"
        /\ IF alive[x] /\ events[x]
             THEN /\ last' = [last EXCEPT ![x] = Place(x, stack[1].ev)]
                  /\ stack' = <<F("js", x)>> \o Tail(stack)
             ELSE /\ stack' = Left
                  /\ UNCHANGED last
    /\ UNCHANGED <<object, curl_h, easy, request, resp, msglist, past, calls>>

\* The other frames return: a callback of libcurl, which touches x first,
\* the allocation, and send(), which sets x->sent last.
Pop ==
    /\ fault = None /\ stack # <<>> /\ stack[1].k \in {"cb", "alloc", "sent"}
    /\ stack' = Tail(stack)
    /\ fault' = IF stack[1].k = "cb" /\ ~alive[stack[1].x] THEN "object" ELSE fault
    /\ sent' = IF Top("sent") THEN [sent EXCEPT ![stack[1].x] = TRUE] ELSE sent
    /\ UNCHANGED <<object, curl_h, easy, headers, slist, async, ready_state, events, hbuf,
                   resp, msglist, last, past, calls>>

Kinds == {"followed", "1xx", "3xx", "final"}

Program == \E x \in Xhrs : \/ \E a \in BOOLEAN : Open(x, a)
                           \/ SetRequestHeader(x) \/ SendAsync(x) \/ SendSync(x)
                           \/ Abort(x) \/ Drop(x)
Libcurl == \E x \in Xhrs : \/ StatusLine(x) \/ Data(x) \/ Progress(x)
                           \/ \E kind \in Kinds : EmptyLine(x, kind)
                           \/ \E res \in Results : Complete(x, res) \/ PerformDone(x, res)
Unwind == SocketReturns \/ CheckMultiInfo \/ DoneReturns \/ EmitEvent \/ Pop \/ Return

Next == Program \/ (\E x \in Xhrs : Collect(x)) \/ SocketAction \/ Libcurl \/ Unwind

\* The loop polls the sockets and timer of the multi handle; C code returns
\* and so do the program's handlers; every transfer has some result, be it
\* an error of the network or the timeout of the request.
Fairness == /\ WF_vars(SocketAction) /\ WF_vars(Unwind)
            /\ \A x \in Xhrs :
                 SF_vars(\E res \in Results : Complete(x, res) \/ PerformDone(x, res))

Spec == Init /\ [][Next]_vars /\ Fairness

-----------------------------------------------------------------------------
(* Properties.                                                             *)

TypeOK ==
    /\ \A f \in {alive, held, curl_h, ownMulti, slist, sent, async, events, hbuf} :
         f \in [Xhrs -> BOOLEAN]
    /\ easy \in [Xhrs -> {"idle", "multi", "own", "freed"}]
    /\ headers \in [Xhrs -> {None, "live", "dangling"}]
    /\ ready_state \in [Xhrs -> UNSENT..DONE]
    /\ resp \in [Xhrs -> {None, "head", "body"}]
    /\ msglist \in Seq([x : Xhrs, res : Results])
    /\ stack \in Seq(Frames)
    /\ last \in [Xhrs -> 0..10]
    /\ past \in [Xhrs -> SUBSET {"aborted", "abortInside", "dropped", "headers", "nested",
                                 "callback", "finished"}]
    /\ calls \in [Xhrs -> Nat] /\ \E b \in Budgets : \A x \in Xhrs : calls[x] <= b[x]
    /\ fault \in {None, "easy", "object", "headers", "check"}

\* As long as nothing has been misused, libcurl only knows of transfers whose
\* IJJSXhr is allocated (CURLOPT_WRITEDATA and CURLOPT_PRIVATE point into it),
\* a request never keeps a pointer to a handle that has been cleaned up, and
\* every message is of a transfer that is still in the multi handle, so that
\* curlmDoneCb's CHECK_EQ holds.
NoDangling ==
    fault = None =>
        /\ \A x \in Xhrs :
             /\ easy[x] \in {"multi", "own"} => alive[x] /\ curl_h[x]
             /\ alive[x] /\ curl_h[x] /\ ~OnStack(x, {"null"}) => easy[x] # "freed"
        /\ \A i \in DOMAIN msglist :
             /\ easy[msglist[i].x] = "multi"
             /\ \A j \in DOMAIN msglist : msglist[j].x = msglist[i].x => j = i

\* The only ways to make the process use memory that it has freed: an easy
\* handle, by abort() inside a handler that libcurl or curlmDoneCb called, or
\* by losing a request that is under way to the collector there; an IJJSXhr,
\* by losing it; a list of headers, by using an object again that was sent
\* with headers, synchronously or in a place where libcurl refused to take it
\* (ijXhrSend leaves CURLOPT_HTTPHEADER alone when there are none), or by
\* opening one that is DONE while libcurl still has it with headers.  The
\* CHECK_EQ of curlmDoneCb never fails.
FaultCause ==
    LET Happened(S) == \E x \in Xhrs : past[x] \intersect S # {} IN
    /\ fault = "easy" => Happened({"abortInside", "dropped"})
    /\ fault = "object" => Happened({"dropped"})
    /\ fault = "headers" => Happened({"headers"})
    /\ fault # "check"

\* libcurl and the requests agree on which transfers exist, and freed memory is
\* used for the named causes only.
Inv == TypeOK /\ NoDangling /\ FaultCause

\* A request that was sent and is not done is being transferred, unless
\* the object cannot be used any more (it was aborted, or an asynchronous
\* request of it has ended, and its easy handle is gone), it was opened or
\* sent inside its own events, or it was sent inside a callback of libcurl,
\* which refuses to take it.  In those cases send() does nothing and no event
\* ever comes.
SentIsUnderWay ==
    fault = None =>
        \A x \in Xhrs :
            alive[x] /\ sent[x] /\ ready_state[x] < DONE
            /\ past[x] \intersect {"aborted", "finished", "nested", "callback"} = {}
                => easy[x] = "multi"

\* The events of a request come in the order of its life: readyState only
\* grows, loadend follows DONE and precedes load or error, nothing follows
\* these or abort until the object is opened or sent again.  The exception is a
\* request that was aborted or sent again inside its own events.
EventOrder ==
    [][\A x \in Xhrs : \/ last'[x] >= last[x]
                       \/ last'[x] \in {0, 1}
                       \/ "nested" \in past[x]]_vars

\* A request that is under way ends in loadend or abort, when the program
\* keeps the object and does not open it again in between.
SendSettles ==
    \A x \in Xhrs : easy[x] = "multi" ~> \/ last[x] \in {8, 9, 10}
                                         \/ ~held[x] \/ ~events[x] \/ fault # None
=============================================================================
