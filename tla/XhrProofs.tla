----------------------------- MODULE XhrProofs -------------------------------
(***************************************************************************)
(* Proofs about Xhr: its invariants and EventOrder hold for any set of     *)
(* requests, any number of calls of each, and handlers inside handlers to  *)
(* any depth.                                                              *)
(***************************************************************************)
EXTENDS Xhr, SequenceTheorems, TLAPS

-----------------------------------------------------------------------------
(***************************************************************************)
(* The inductive invariant                                                 *)
(***************************************************************************)

\* A frame of kind k for request x is on stack s.
Has(s, k, x) == \E i \in DOMAIN s : s[i].k = k /\ s[i].x = x

\* Event ev of x is to be delivered.
Due(s, x, ev) == \E i \in DOMAIN s : s[i].k = "emit" /\ s[i].x = x /\ s[i].ev = ev

\* The events of the end of a request, of which several wait on the stack, and
\* their places
Ending == {"timeout", "loadend", "load", "error"}

EndPlace(ev) == IF ev = "timeout" THEN 7 ELSE IF ev = "loadend" THEN 8 ELSE 9

IsEnding(f) == f.k = "emit" /\ f.ev \in Ending

\* What frame f returns to.  The loop calls libcurl and ijCheckMultiInfo; a
\* method is called by a handler, or by nobody.
Follows(f, g) ==
  CASE f.k = "alloc" -> g = Emit(f.x, "progress")
    [] f.k = "js" -> g.x = f.x /\ (g.k \in {"cb", "null", "sent", "ret"} \/ IsEnding(g))
    [] f.k = "emit" ->
         /\ g.x = f.x
         /\ f.ev \in {"loadstart", "progress"} => g.k = "cb"
         /\ f.ev = "abort" => g.k = "ret"
         /\ f.ev = "readystatechange" => g.k \in {"cb", "ret"} \/ IsEnding(g)
         /\ f.ev \in Ending => g.k \in {"null", "sent"} \/ IsEnding(g)
    [] f.k = "cb" -> g.k = "socket" \/ g = F("perform", f.x)
    [] f.k = "null" -> g.k = "check"
    [] f.k \in {"perform", "sent", "ret"} -> g.k = "js"
    [] OTHER -> FALSE

Outermost == {"socket", "check", "perform", "sent", "ret"}

\* The frames of stack s are in an order in which the code can put them: an
\* event that is to be delivered is the innermost thing to do, but for those of
\* the end of a request, and these are delivered for a frame further out;
\* curl_easy_perform of a request is not called inside itself or inside a callback
\* of the request.
Stacked(s) ==
  /\ \A i \in 1..(Len(s) - 1) : Follows(s[i], s[i + 1])
  /\ s # <<>> => s[Len(s)].k \in Outermost
  /\ \A i \in 2..Len(s) : s[i].k = "emit" => s[i].ev \in Ending \/ (i = 2 /\ s[1].k = "alloc")
  /\ \A i \in 1..Len(s) : IsEnding(s[i]) =>
       \E j \in (i + 1)..Len(s) : s[j].k \in {"null", "sent"} /\ s[j].x = s[i].x
  /\ \A i, j \in 1..Len(s) :
       i < j /\ s[i].k = "perform" /\ s[j].x = s[i].x => s[j].k \notin {"perform", "cb"}

\* open() and abort() return with their event.
TopReturns(s) == s # <<>> => s[1].k # "ret"

\* The events of the end of a request in X are delivered in their order.
InOrder(s, X) ==
  \A i, j \in 1..Len(s) :
    i < j /\ IsEnding(s[i]) /\ IsEnding(s[j]) /\ s[i].x = s[j].x /\ s[i].x \in X =>
      EndPlace(s[i].ev) <= EndPlace(s[j].ev)

\* There is a message of x, and of no request are there two.
Listed(q, x) == \E i \in DOMAIN q : q[i].x = x

OneEach(q) == \A i, j \in DOMAIN q : q[i].x = q[j].x => i = j

Nested(x) == "nested" \in past[x]

\* The easy handle, x->curl_h and the frames of libcurl and of the methods agree.
HandleInv(x) ==
  /\ held[x] => alive[x]
  /\ \A k \in {"js", "perform", "sent", "ret"} : Has(stack, k, x) => alive[x]
  /\ easy[x] \in {"multi", "own"} => alive[x] /\ curl_h[x]
  /\ alive[x] /\ curl_h[x] => easy[x] # "freed"
  /\ curl_h[x] \/ "aborted" \in past[x] \/ "finished" \in past[x]
  /\ easy[x] = "own" <=> Has(stack, "perform", x)
  /\ Has(stack, "cb", x) => easy[x] \in {"multi", "own"}
  /\ Has(stack, "null", x) =>
       \/ easy[x] = "multi"
       \/ easy[x] = "freed" /\ ("abortInside" \in past[x] \/ "dropped" \in past[x])
  /\ Listed(msglist, x) => easy[x] = "multi" /\ ~Has(stack, "null", x)

\* A request that was lost while it was under way is known.
DropInv(x) ==
  (easy[x] = "multi" \/ \E k \in {"cb", "perform", "null", "sent"} : Has(stack, k, x)) =>
    held[x] \/ "dropped" \in past[x]

\* CURLOPT_HTTPHEADER of a handle that libcurl can still use points to a list
\* that exists, unless the program has done what it must not.
HeadersInv(x) ==
  \/ "headers" \in past[x]
  \/ headers[x] = None
  \/ easy[x] = "freed"
  \/ easy[x] = "multi" /\ (headers[x] = "live" \/ Has(stack, "null", x))

\* How far send() is, if the request was not opened or sent inside its own
\* events
SentInv(x) ==
  /\ easy[x] = "idle" => ready_state[x] \in {UNSENT, OPENED, DONE}
  /\ ~Nested(x) =>
       /\ easy[x] = "own" => ~sent[x] /\ ~async[x]
       /\ easy[x] = "multi" => sent[x]
       /\ easy[x] = "multi" /\ ready_state[x] = DONE => Has(stack, "null", x)
       /\ ready_state[x] = DONE /\ ~sent[x] => Has(stack, "sent", x)
       /\ Has(stack, "sent", x) =>
            ready_state[x] = DONE /\ ~async[x] /\ easy[x] \in {"idle", "freed"}

Excused(x) == \E e \in {"aborted", "finished", "nested", "callback"} : e \in past[x]

UnderWay(x) ==
  alive[x] /\ sent[x] /\ ready_state[x] < DONE => easy[x] = "multi" \/ Excused(x)

\* libcurl may deliver events of x.
Transfers(x) ==
  \/ easy[x] = "own"
  \/ easy[x] = "multi" /\ ~Has(stack, "null", x) /\ ~Listed(msglist, x)

\* The last event does not come after what the state of the response lets
\* follow, and not after the events of the end that are to be delivered.
EventInv(x) ==
  ~Nested(x) =>
    /\ easy[x] \in {"multi", "own"} /\ ~Has(stack, "null", x) => last[x] <= 5
    /\ Transfers(x) =>
         /\ resp[x] = None /\ ~hbuf[x] => last[x] <= 2
         /\ resp[x] # "body" => last[x] <= 3
         /\ ready_state[x] = HEADERS_RECEIVED => last[x] <= 4
         /\ ready_state[x] = LOADING => resp[x] = "body"
    /\ \A ev \in Ending : Due(stack, x, ev) => last[x] <= EndPlace(ev)

\* The invariant of one request
RequestInv(x) ==
  /\ HandleInv(x) /\ DropInv(x) /\ HeadersInv(x)
  /\ SentInv(x) /\ UnderWay(x) /\ EventInv(x)

\* What holds when event ev of x is next, and g is what follows it
Ready(x, ev, g) ==
  CASE ev = "abort" ->
         easy[x] = "freed" /\ ~Has(stack, "null", x) /\ ~Has(stack, "sent", x)
    [] ev = "loadstart" -> last[x] <= 2 /\ resp[x] # None
    [] ev = "progress" ->
         last[x] <= 5 /\ (Transfers(x) => ready_state[x] = LOADING /\ resp[x] = "body")
    [] ev = "readystatechange" ->
         \/ g.k = "ret" /\ ready_state[x] = OPENED
         \/ g.k = "emit" /\ ready_state[x] = DONE /\ last[x] <= 6
         \/ g.k = "cb" /\ ready_state[x] = HEADERS_RECEIVED /\ last[x] <= 3
                       /\ (resp[x] = "body" \/ hbuf[x])
         \/ g.k = "cb" /\ ready_state[x] = LOADING /\ last[x] <= 4
    [] OTHER -> TRUE

TopInv ==
  /\ Top("emit") => (~Nested(stack[1].x) => Ready(stack[1].x, stack[1].ev, stack[2]))
  /\ Top("alloc") => (~Nested(stack[1].x) => Ready(stack[1].x, "progress", stack[2]))

NotNested == {x \in Xhrs : ~Nested(x)}

Core ==
  /\ Stacked(stack) /\ TopReturns(stack) /\ InOrder(stack, NotNested)
  /\ OneEach(msglist)
  /\ \A x \in Xhrs : RequestInv(x)
  /\ TopInv

XhrInv == TypeOK /\ FaultCause /\ (fault = None => Core)

-----------------------------------------------------------------------------
(***************************************************************************)
(* Facts about stacks                                                      *)
(***************************************************************************)

\* A frame that is pushed becomes the first one, and popping it undoes that.
LEMMA PushShape ==
  ASSUME NEW s \in Seq(Frames), NEW f \in Frames
  PROVE  /\ <<f>> \o s \in Seq(Frames)
         /\ <<f>> \o s # <<>>
         /\ Len(<<f>> \o s) = Len(s) + 1
         /\ DOMAIN (<<f>> \o s) = 1..(Len(s) + 1)
         /\ (<<f>> \o s)[1] = f
         /\ \A i \in 2..(Len(s) + 1) : (<<f>> \o s)[i] = s[i - 1]
         /\ \A i \in 1..Len(s) : (<<f>> \o s)[i + 1] = s[i]
         /\ Tail(<<f>> \o s) = s
<1> DEFINE t == <<f>> \o s
<1>1. t \in Seq(Frames) /\ Len(t) = Len(s) + 1 /\ t # <<>> /\ DOMAIN t = 1..(Len(s) + 1)
  OBVIOUS
<1>2. t[1] = f /\ (\A i \in 2..(Len(s) + 1) : t[i] = s[i - 1])
  OBVIOUS
<1>3. \A i \in 1..Len(s) : t[i + 1] = s[i]
  BY <1>2
<1>4. Tail(t) = s
  <2>1. Tail(t) \in Seq(Frames) /\ Len(Tail(t)) = Len(s)
    BY <1>1
  <2>2. \A i \in 1..Len(s) : Tail(t)[i] = s[i]
    BY <1>1, <1>3
  <2> QED BY <2>1, <2>2, SeqEqual
<1> QED BY <1>1, <1>2, <1>3, <1>4

\* A stack that is not empty is its first frame pushed on the others.
LEMMA StackShape ==
  ASSUME NEW s \in Seq(Frames), s # <<>>
  PROVE  /\ s[1] \in Frames
         /\ Tail(s) \in Seq(Frames)
         /\ Len(s) \in Nat /\ Len(s) > 0 /\ Len(Tail(s)) = Len(s) - 1
         /\ DOMAIN s = 1..Len(s)
         /\ \A i \in 1..(Len(s) - 1) : Tail(s)[i] = s[i + 1]
         /\ s = <<s[1]>> \o Tail(s)
<1>1. /\ s[1] \in Frames
      /\ Tail(s) \in Seq(Frames)
      /\ Len(s) \in Nat /\ Len(s) > 0 /\ Len(Tail(s)) = Len(s) - 1
      /\ DOMAIN s = 1..Len(s)
      /\ \A i \in 1..(Len(s) - 1) : Tail(s)[i] = s[i + 1]
  OBVIOUS
<1>2. s = <<s[1]>> \o Tail(s)
  <2> DEFINE t == <<s[1]>> \o Tail(s)
  <2>1. t \in Seq(Frames) /\ Len(t) = Len(s)
    BY <1>1, PushShape
  <2>2. \A i \in 1..Len(s) : t[i] = s[i]
    BY <1>1, PushShape
  <2> QED BY <2>1, <2>2, SeqEqual
<1> QED BY <1>1, <1>2

\* The frames of a stack with one more
LEMMA PushHas ==
  ASSUME NEW s \in Seq(Frames), NEW f \in Frames, NEW k, NEW x
  PROVE  Has(<<f>> \o s, k, x) <=> (f.k = k /\ f.x = x) \/ Has(s, k, x)
<1> DEFINE t == <<f>> \o s
<1>1. /\ DOMAIN t = 1..(Len(s) + 1) /\ DOMAIN s = 1..Len(s) /\ Len(s) \in Nat
      /\ t[1] = f /\ \A i \in 2..(Len(s) + 1) : t[i] = s[i - 1]
      /\ \A i \in 1..Len(s) : t[i + 1] = s[i]
  BY PushShape
<1> HIDE DEF t
<1>2. Has(t, k, x) => (f.k = k /\ f.x = x) \/ Has(s, k, x)
  <2> SUFFICES ASSUME NEW i \in DOMAIN t, t[i].k = k /\ t[i].x = x
               PROVE  (f.k = k /\ f.x = x) \/ Has(s, k, x)
    BY DEF Has
  <2>1. CASE i = 1
    BY <1>1, <2>1
  <2>2. CASE i # 1
    <3>1. i - 1 \in DOMAIN s /\ s[i - 1] = t[i]
      BY <1>1, <2>2
    <3> QED BY <3>1 DEF Has
  <2> QED BY <2>1, <2>2
<1>3. (f.k = k /\ f.x = x) => Has(t, k, x)
  BY <1>1, 1 \in DOMAIN t DEF Has
<1>4. Has(s, k, x) => Has(t, k, x)
  <2> SUFFICES ASSUME NEW i \in DOMAIN s, s[i].k = k /\ s[i].x = x
               PROVE  Has(t, k, x)
    BY DEF Has
  <2>1. i + 1 \in DOMAIN t /\ t[i + 1] = s[i]
    BY <1>1
  <2> QED BY <2>1 DEF Has
<1> QED BY <1>2, <1>3, <1>4 DEF t

\* The events to be delivered of a stack with one frame more
LEMMA PushDue ==
  ASSUME NEW s \in Seq(Frames), NEW f \in Frames, NEW x, NEW ev
  PROVE  Due(<<f>> \o s, x, ev) <=> f = Emit(x, ev) \/ Due(s, x, ev)
<1> DEFINE t == <<f>> \o s
<1>1. /\ DOMAIN t = 1..(Len(s) + 1) /\ DOMAIN s = 1..Len(s) /\ Len(s) \in Nat
      /\ t[1] = f /\ \A i \in 2..(Len(s) + 1) : t[i] = s[i - 1]
      /\ \A i \in 1..Len(s) : t[i + 1] = s[i]
  BY PushShape
<1> HIDE DEF t
<1>2. f = Emit(x, ev) <=> f.k = "emit" /\ f.x = x /\ f.ev = ev
  BY DEF Emit, Frames, Calling
<1>3. Due(t, x, ev) => f = Emit(x, ev) \/ Due(s, x, ev)
  <2> SUFFICES ASSUME NEW i \in DOMAIN t, t[i].k = "emit" /\ t[i].x = x /\ t[i].ev = ev
               PROVE  f = Emit(x, ev) \/ Due(s, x, ev)
    BY DEF Due
  <2>1. CASE i = 1
    BY <1>1, <1>2, <2>1
  <2>2. CASE i # 1
    <3>1. i - 1 \in DOMAIN s /\ s[i - 1] = t[i]
      BY <1>1, <2>2
    <3> QED BY <3>1 DEF Due
  <2> QED BY <2>1, <2>2
<1>4. f = Emit(x, ev) => Due(t, x, ev)
  BY <1>1, <1>2, 1 \in DOMAIN t DEF Due
<1>5. Due(s, x, ev) => Due(t, x, ev)
  <2> SUFFICES ASSUME NEW i \in DOMAIN s, s[i].k = "emit" /\ s[i].x = x /\ s[i].ev = ev
               PROVE  Due(t, x, ev)
    BY DEF Due
  <2>1. i + 1 \in DOMAIN t /\ t[i + 1] = s[i]
    BY <1>1
  <2> QED BY <2>1 DEF Due
<1> QED BY <1>3, <1>4, <1>5 DEF t

\* Every event that is to be delivered is of the end of a request.
Quiet(s) == \A i \in 1..Len(s) : s[i].k = "emit" => s[i].ev \in Ending

\* The frames under the innermost one wait for events of the end only, unless it
\* is the allocation of curlmProcessCb.
LEMMA QuietStack ==
  ASSUME NEW s \in Seq(Frames), Stacked(s)
  PROVE  /\ s # <<>> /\ s[1].k # "alloc" => Quiet(Tail(s))
         /\ s = <<>> => Quiet(s)
         /\ s # <<>> /\ s[1].k \notin {"alloc", "emit"} => Quiet(s)
<1>1. ASSUME s # <<>>, s[1].k # "alloc"
      PROVE  Quiet(Tail(s))
  <2>1. /\ Len(s) \in Nat /\ Len(Tail(s)) = Len(s) - 1
        /\ \A i \in 1..(Len(s) - 1) : Tail(s)[i] = s[i + 1]
    BY <1>1, StackShape
  <2>2. \A i \in 2..Len(s) : s[i].k = "emit" => s[i].ev \in Ending
    BY <1>1 DEF Stacked
  <2>3. ASSUME NEW i \in 1..Len(Tail(s)), Tail(s)[i].k = "emit"
        PROVE  Tail(s)[i].ev \in Ending
    <3>1. i + 1 \in 2..Len(s) /\ Tail(s)[i] = s[i + 1]
      BY <2>1
    <3> QED BY <2>2, <2>3, <3>1
  <2> QED BY <2>3 DEF Quiet
<1>2. ASSUME s = <<>>
      PROVE  Quiet(s)
  BY <1>2 DEF Quiet
<1>3. ASSUME s # <<>>, s[1].k \notin {"alloc", "emit"}
      PROVE  Quiet(s)
  <2>1. \A i \in 2..Len(s) : s[i].k = "emit" => s[i].ev \in Ending
    BY <1>3 DEF Stacked
  <2>2. \A i \in 1..Len(s) : i = 1 \/ i \in 2..Len(s)
    OBVIOUS
  <2> QED BY <1>3, <2>1, <2>2 DEF Quiet
<1> QED BY <1>1, <1>2, <1>3

\* A frame can be pushed where the code can have put it.
LEMMA StackedPush ==
  ASSUME NEW s \in Seq(Frames), NEW f \in Frames, Stacked(s),
         Quiet(s) \/ (f.k = "alloc" /\ s # <<>> /\ Quiet(Tail(s))),
         s = <<>> => f.k \in Outermost,
         s # <<>> => Follows(f, s[1]),
         IsEnding(f) => Has(s, "null", f.x) \/ Has(s, "sent", f.x),
         f.k = "perform" => ~Has(s, "perform", f.x) /\ ~Has(s, "cb", f.x)
  PROVE  Stacked(<<f>> \o s)
<1> DEFINE t == <<f>> \o s
<1>1. /\ Len(t) = Len(s) + 1 /\ DOMAIN s = 1..Len(s) /\ Len(s) \in Nat
      /\ t[1] = f /\ t # <<>> /\ \A i \in 2..(Len(s) + 1) : t[i] = s[i - 1]
  BY PushShape
<1>2. s # <<>> => Len(s) > 0
  OBVIOUS
<1> HIDE DEF t
<1>3. ASSUME NEW i \in 1..(Len(t) - 1)
      PROVE  Follows(t[i], t[i + 1])
  <2>1. i \in Nat /\ i + 1 \in 2..(Len(s) + 1) /\ t[i + 1] = s[i] /\ i \in 1..Len(s)
    BY <1>1
  <2>2. CASE i = 1
    <3>1. s # <<>>
      BY <1>1, <2>1, <2>2
    <3> QED BY <1>1, <2>1, <2>2, <3>1
  <2>3. CASE i # 1
    <3>1. i - 1 \in 1..(Len(s) - 1) /\ t[i] = s[i - 1] /\ (i - 1) + 1 = i
      BY <1>1, <2>1, <2>3
    <3>2. Follows(s[i - 1], s[(i - 1) + 1])
      BY <3>1 DEF Stacked
    <3> QED BY <2>1, <3>1, <3>2
  <2> QED BY <2>2, <2>3
<1>4. t[Len(t)].k \in Outermost
  <2>1. CASE s = <<>>
    BY <1>1, <2>1
  <2>2. CASE s # <<>>
    BY <1>1, <1>2, <2>2 DEF Stacked
  <2> QED BY <2>1, <2>2
<1>5. ASSUME NEW i \in 2..Len(t), t[i].k = "emit"
      PROVE  t[i].ev \in Ending \/ (i = 2 /\ t[1].k = "alloc")
  <2>1. i - 1 \in 1..Len(s) /\ t[i] = s[i - 1]
    BY <1>1
  <2>2. CASE Quiet(s)
    BY <1>5, <2>1, <2>2 DEF Quiet
  <2>3. CASE f.k = "alloc" /\ s # <<>> /\ Quiet(Tail(s)) /\ i # 2
    <3>1. i - 2 \in 1..Len(Tail(s)) /\ Tail(s)[i - 2] = s[i - 1]
      BY <2>1, <2>3, StackShape, <1>1
    <3> QED BY <1>5, <2>1, <2>3, <3>1 DEF Quiet
  <2> QED BY <1>1, <2>2, <2>3
<1>6. ASSUME NEW i \in 1..Len(t), IsEnding(t[i])
      PROVE  \E j \in (i + 1)..Len(t) : t[j].k \in {"null", "sent"} /\ t[j].x = t[i].x
  <2>1. CASE i = 1
    <3>1. PICK j \in DOMAIN s : s[j].k \in {"null", "sent"} /\ s[j].x = f.x
      BY <1>1, <1>6, <2>1 DEF Has
    <3>2. j + 1 \in (i + 1)..Len(t) /\ t[j + 1] = s[j]
      BY <1>1, <2>1
    <3> QED BY <1>1, <2>1, <3>1, <3>2
  <2>2. CASE i # 1
    <3>1. i - 1 \in 1..Len(s) /\ t[i] = s[i - 1]
      BY <1>1, <2>2
    <3>2. PICK j \in ((i - 1) + 1)..Len(s) : s[j].k \in {"null", "sent"} /\ s[j].x = s[i - 1].x
      BY <1>6, <3>1 DEF Stacked
    <3>3. j + 1 \in (i + 1)..Len(t) /\ t[j + 1] = s[j]
      BY <1>1, <3>1, <3>2
    <3> QED BY <3>1, <3>2, <3>3
  <2> QED BY <2>1, <2>2
<1>7. ASSUME NEW i \in 1..Len(t), NEW j \in 1..Len(t), i < j, t[i].k = "perform", t[j].x = t[i].x
      PROVE  t[j].k \notin {"perform", "cb"}
  <2>1. j - 1 \in 1..Len(s) /\ t[j] = s[j - 1]
    BY <1>1, <1>7
  <2>2. CASE i = 1
    BY <1>1, <1>7, <2>1, <2>2 DEF Has
  <2>3. CASE i # 1
    <3>1. i - 1 \in 1..Len(s) /\ t[i] = s[i - 1] /\ i - 1 < j - 1
      BY <1>1, <1>7, <2>3
    <3> QED BY <1>7, <2>1, <3>1 DEF Stacked
  <2> QED BY <2>2, <2>3
<1>8. Stacked(t)
  BY <1>3, <1>4, <1>5, <1>6, <1>7 DEF Stacked
<1> QED BY <1>8 DEF t

\* What is left when a frame returns is a stack of the same kind, the frame
\* returns to the first of the others, and it was the last but for a few kinds.
LEMMA StackedTail ==
  ASSUME NEW s \in Seq(Frames), Stacked(s), s # <<>>
  PROVE  /\ Stacked(Tail(s))
         /\ Tail(s) # <<>> => Follows(s[1], Tail(s)[1]) /\ Tail(s)[1] = s[2]
         /\ Tail(s) = <<>> => s[1].k \in Outermost
         /\ s[1].k = "perform" =>
              ~Has(Tail(s), "perform", s[1].x) /\ ~Has(Tail(s), "cb", s[1].x)
         /\ IsEnding(s[1]) => Has(Tail(s), "null", s[1].x) \/ Has(Tail(s), "sent", s[1].x)
<1> DEFINE t == Tail(s)
<1>1. /\ Len(s) \in Nat /\ Len(s) > 0 /\ Len(t) = Len(s) - 1 /\ t \in Seq(Frames)
      /\ DOMAIN s = 1..Len(s) /\ DOMAIN t = 1..Len(t)
      /\ \A i \in 1..(Len(s) - 1) : t[i] = s[i + 1]
      /\ t # <<>> => Len(t) > 0
      /\ t = <<>> => Len(s) = 1
  <2>1. /\ Len(s) \in Nat /\ Len(s) > 0 /\ Len(t) = Len(s) - 1 /\ t \in Seq(Frames)
        /\ DOMAIN s = 1..Len(s)
        /\ \A i \in 1..(Len(s) - 1) : t[i] = s[i + 1]
    BY StackShape
  <2> HIDE DEF t
  <2>2. DOMAIN t = 1..Len(t) /\ (t # <<>> => Len(t) > 0) /\ (t = <<>> => Len(t) = 0)
    BY <2>1
  <2> QED BY <2>1, <2>2
<1> HIDE DEF t
<1>2. ASSUME NEW i \in 1..(Len(t) - 1)
      PROVE  Follows(t[i], t[i + 1])
  <2>1. i + 1 \in 1..(Len(s) - 1) /\ t[i] = s[i + 1] /\ t[i + 1] = s[(i + 1) + 1]
    BY <1>1
  <2> QED BY <2>1 DEF Stacked
<1>3. t # <<>> => t[Len(t)].k \in Outermost
  BY <1>1 DEF Stacked
<1>4. ASSUME NEW i \in 2..Len(t), t[i].k = "emit"
      PROVE  t[i].ev \in Ending \/ (i = 2 /\ t[1].k = "alloc")
  <2>1. i + 1 \in 2..Len(s) /\ t[i] = s[i + 1] /\ i + 1 # 2
    BY <1>1
  <2> QED BY <1>4, <2>1 DEF Stacked
<1>5. ASSUME NEW i \in 1..Len(t), IsEnding(t[i])
      PROVE  \E j \in (i + 1)..Len(t) : t[j].k \in {"null", "sent"} /\ t[j].x = t[i].x
  <2>1. i + 1 \in 1..Len(s) /\ t[i] = s[i + 1]
    BY <1>1
  <2>2. PICK j \in ((i + 1) + 1)..Len(s) : s[j].k \in {"null", "sent"} /\ s[j].x = s[i + 1].x
    BY <1>5, <2>1 DEF Stacked
  <2>3. j - 1 \in (i + 1)..Len(t) /\ t[j - 1] = s[j]
    BY <1>1, <2>1, <2>2
  <2> QED BY <2>1, <2>2, <2>3
<1>6. ASSUME NEW i \in 1..Len(t), NEW j \in 1..Len(t), i < j, t[i].k = "perform", t[j].x = t[i].x
      PROVE  t[j].k \notin {"perform", "cb"}
  <2>1. /\ i + 1 \in 1..Len(s) /\ t[i] = s[i + 1] /\ j + 1 \in 1..Len(s) /\ t[j] = s[j + 1]
        /\ i + 1 < j + 1
    BY <1>1, <1>6
  <2> QED BY <1>6, <2>1 DEF Stacked
<1>7. t # <<>> => Follows(s[1], t[1]) /\ t[1] = s[2]
  <2> SUFFICES ASSUME t # <<>> PROVE Follows(s[1], t[1]) /\ t[1] = s[2]
    OBVIOUS
  <2>1. 1 \in 1..(Len(s) - 1) /\ t[1] = s[1 + 1]
    BY <1>1
  <2> QED BY <2>1 DEF Stacked
<1>8. t = <<>> => s[1].k \in Outermost
  BY <1>1 DEF Stacked
<1>9. s[1].k = "perform" => ~Has(t, "perform", s[1].x) /\ ~Has(t, "cb", s[1].x)
  <2> SUFFICES ASSUME s[1].k = "perform", NEW i \in DOMAIN t, t[i].k \in {"perform", "cb"},
                      t[i].x = s[1].x
               PROVE  FALSE
    BY DEF Has
  <2>1. i + 1 \in 1..Len(s) /\ 1 \in 1..Len(s) /\ s[i + 1] = t[i] /\ 1 < i + 1
    BY <1>1
  <2> QED BY <2>1 DEF Stacked
<1>10. IsEnding(s[1]) => Has(t, "null", s[1].x) \/ Has(t, "sent", s[1].x)
  <2> SUFFICES ASSUME IsEnding(s[1])
               PROVE  Has(t, "null", s[1].x) \/ Has(t, "sent", s[1].x)
    OBVIOUS
  <2>1. PICK j \in (1 + 1)..Len(s) : s[j].k \in {"null", "sent"} /\ s[j].x = s[1].x
    BY <1>1 DEF Stacked
  <2>2. j - 1 \in DOMAIN t /\ t[j - 1] = s[j]
    BY <1>1, <2>1
  <2> QED BY <2>1, <2>2 DEF Has
<1>11. Stacked(t)
  BY <1>2, <1>3, <1>4, <1>5, <1>6 DEF Stacked
<1> QED BY <1>7, <1>8, <1>9, <1>10, <1>11 DEF t

\* An event of the end that is to be delivered is delivered for a frame of
\* curlmDoneCb or of send() further out.
LEMMA DueEnds ==
  ASSUME NEW s \in Seq(Frames), Stacked(s), NEW x, NEW ev \in Ending, Due(s, x, ev)
  PROVE  Has(s, "null", x) \/ Has(s, "sent", x)
<1>1. PICK i \in DOMAIN s : s[i].k = "emit" /\ s[i].x = x /\ s[i].ev = ev
  BY DEF Due
<1>2. DOMAIN s = 1..Len(s) /\ Len(s) \in Nat
  OBVIOUS
<1>3. PICK j \in (i + 1)..Len(s) : s[j].k \in {"null", "sent"} /\ s[j].x = s[i].x
  BY <1>1, <1>2 DEF Stacked, IsEnding
<1>4. j \in DOMAIN s
  BY <1>2, <1>3
<1> QED BY <1>1, <1>3, <1>4 DEF Has

\* The order of the events of the end when a frame is pushed
LEMMA InOrderPush ==
  ASSUME NEW s \in Seq(Frames), NEW f \in Frames, NEW X, InOrder(s, X),
         IsEnding(f) /\ f.x \in X =>
           \A ev \in Ending : Due(s, f.x, ev) => EndPlace(f.ev) <= EndPlace(ev)
  PROVE  InOrder(<<f>> \o s, X)
<1> DEFINE t == <<f>> \o s
<1>1. /\ Len(t) = Len(s) + 1 /\ DOMAIN s = 1..Len(s) /\ Len(s) \in Nat
      /\ t[1] = f /\ \A i \in 2..(Len(s) + 1) : t[i] = s[i - 1]
  BY PushShape
<1> HIDE DEF t
<1>2. SUFFICES ASSUME NEW i \in 1..Len(t), NEW j \in 1..Len(t), i < j, IsEnding(t[i]),
                      IsEnding(t[j]), t[i].x = t[j].x, t[i].x \in X
               PROVE  EndPlace(t[i].ev) <= EndPlace(t[j].ev)
  BY DEF InOrder, t
<1>3. j - 1 \in 1..Len(s) /\ t[j] = s[j - 1]
  BY <1>1, <1>2
<1>4. CASE i = 1
  <2>1. Due(s, f.x, t[j].ev) /\ t[j].ev \in Ending
    BY <1>1, <1>2, <1>3, <1>4 DEF Due, IsEnding
  <2> QED BY <1>1, <1>2, <1>4, <2>1
<1>5. CASE i # 1
  <2>1. i - 1 \in 1..Len(s) /\ t[i] = s[i - 1] /\ i - 1 < j - 1
    BY <1>1, <1>2, <1>5
  <2> QED BY <1>2, <1>3, <2>1 DEF InOrder
<1> QED BY <1>4, <1>5

\* The order of the events of the end when a frame returns: what waits comes
\* after the innermost one.
LEMMA InOrderTail ==
  ASSUME NEW s \in Seq(Frames), s # <<>>, NEW X, InOrder(s, X)
  PROVE  /\ InOrder(Tail(s), X)
         /\ IsEnding(s[1]) /\ s[1].x \in X =>
              \A ev \in Ending : Due(Tail(s), s[1].x, ev) => EndPlace(s[1].ev) <= EndPlace(ev)
<1> DEFINE t == Tail(s)
<1>1. /\ Len(s) \in Nat /\ Len(s) > 0 /\ Len(t) = Len(s) - 1 /\ t \in Seq(Frames)
      /\ \A i \in 1..(Len(s) - 1) : t[i] = s[i + 1]
  BY StackShape
<1> HIDE DEF t
<1>2. DOMAIN t = 1..Len(t)
  BY <1>1
<1>3. ASSUME NEW i \in 1..Len(t), NEW j \in 1..Len(t), i < j, IsEnding(t[i]),
             IsEnding(t[j]), t[i].x = t[j].x, t[i].x \in X
      PROVE  EndPlace(t[i].ev) <= EndPlace(t[j].ev)
  <2>1. /\ i + 1 \in 1..Len(s) /\ j + 1 \in 1..Len(s) /\ i + 1 < j + 1
        /\ t[i] = s[i + 1] /\ t[j] = s[j + 1]
    BY <1>1, <1>3
  <2> QED BY <1>3, <2>1 DEF InOrder
<1>4. ASSUME IsEnding(s[1]), s[1].x \in X, NEW ev \in Ending, Due(t, s[1].x, ev)
      PROVE  EndPlace(s[1].ev) <= EndPlace(ev)
  <2>1. PICK j \in DOMAIN t : t[j].k = "emit" /\ t[j].x = s[1].x /\ t[j].ev = ev
    BY <1>4 DEF Due
  <2>2. 1 \in 1..Len(s) /\ j + 1 \in 1..Len(s) /\ 1 < j + 1 /\ t[j] = s[j + 1]
    BY <1>1, <1>2, <2>1
  <2>3. IsEnding(s[j + 1])
    BY <1>4, <2>1, <2>2 DEF IsEnding
  <2> QED BY <1>4, <2>1, <2>2, <2>3 DEF InOrder
<1>5. InOrder(t, X)
  BY <1>3 DEF InOrder
<1> QED BY <1>4, <1>5 DEF t

\* Fewer requests, weaker order
LEMMA InOrderFewer ==
  ASSUME NEW s, NEW X, NEW Y, Y \subseteq X, InOrder(s, X)
  PROVE  InOrder(s, Y)
BY DEF InOrder

\* F(k, x) and Emit(x, ev) are frames.
LEMMA FrameTypes ==
  /\ \A k \in Calling : \A x \in Xhrs : F(k, x) \in Frames
  /\ \A x \in Xhrs : \A ev \in EventNames : Emit(x, ev) \in Frames
  /\ \A k \in {"socket", "check"} : F(k, None) \in Frames
  /\ \A k, x : F(k, x).k = k /\ F(k, x).x = x /\ F(k, x).ev = None
  /\ \A x, ev : Emit(x, ev).k = "emit" /\ Emit(x, ev).x = x /\ Emit(x, ev).ev = ev
  /\ \A f \in Frames : f.k = "emit" => f.x \in Xhrs /\ f = Emit(f.x, f.ev) /\ f.ev \in EventNames
  /\ \A f \in Frames : f.k \in Calling => f.x \in Xhrs /\ f = F(f.k, f.x)
  /\ \A f \in Frames : f.k \in Calling \union {"emit", "socket", "check"}
BY DEF F, Emit, Frames, Calling

\* curlDoneCb's events, the frame that they are delivered for pushed first
LEMMA DoneShape ==
  ASSUME NEW s \in Seq(Frames), NEW x \in Xhrs, NEW k \in {"null", "sent"}, NEW res \in Results
  PROVE  \E e1, e2 \in Ending :
           /\ EndPlace(e1) <= EndPlace(e2)
           /\ DoneEvents(x, res) \o <<F(k, x)>> \o s =
                <<Emit(x, "readystatechange")>> \o
                  (<<Emit(x, e1)>> \o (<<Emit(x, e2)>> \o (<<F(k, x)>> \o s)))
<1> DEFINE u == <<F(k, x)>> \o s
           C == [k : STRING, x : Xhrs, ev : STRING]
           a == Emit(x, "readystatechange")
<1>1. F(k, x) \in Frames /\ \A ev \in EventNames : Emit(x, ev) \in Frames
  BY FrameTypes DEF Calling
<1>2. \A f \in Frames : <<f>> \in Seq(Frames)
  OBVIOUS
<1>3. u \in Seq(Frames)
  BY <1>1, PushShape
<1>4. a \in Frames
  BY <1>1 DEF EventNames
<1>5. ASSUME NEW f \in Frames, NEW g \in Frames
      PROVE  (((<<a>> \o <<f>>) \o <<g>>) \o <<F(k, x)>>) \o s = <<a>> \o (<<f>> \o (<<g>> \o u))
  <2> DEFINE p == <<a>> \o <<f>>
             q == p \o <<g>>
  <2>1. p \in Seq(Frames) /\ q \in Seq(Frames) /\ <<g>> \o u \in Seq(Frames)
    BY <1>2, <1>3, <1>4
  <2>2. (q \o <<F(k, x)>>) \o s = q \o u
    BY <1>1, <1>2, <2>1, ConcatAssociative
  <2>3. q \o u = p \o (<<g>> \o u)
    BY <1>2, <1>3, <2>1, ConcatAssociative
  <2>4. p \o (<<g>> \o u) = <<a>> \o (<<f>> \o (<<g>> \o u))
    BY <1>2, <1>4, <2>1, ConcatAssociative
  <2> QED BY <2>2, <2>3, <2>4
<1>6. CASE res = "timeout"
  <2>1. DoneEvents(x, res) = ((<<a>> \o <<Emit(x, "timeout")>>) \o <<Emit(x, "loadend")>>) \o <<>>
    BY <1>6 DEF DoneEvents
  <2>2. DoneEvents(x, res) = (<<a>> \o <<Emit(x, "timeout")>>) \o <<Emit(x, "loadend")>>
    BY <1>1, <1>2, <1>4, <2>1, ConcatEmptySeq DEF EventNames
  <2>3. Emit(x, "timeout") \in Frames /\ Emit(x, "loadend") \in Frames
    BY <1>1 DEF EventNames
  <2>4. "timeout" \in Ending /\ "loadend" \in Ending /\ EndPlace("timeout") <= EndPlace("loadend")
    BY DEF Ending, EndPlace
  <2> QED BY <1>5, <2>2, <2>3, <2>4
<1>7. CASE res # "timeout"
  <2> DEFINE e2 == IF res = "error" THEN "error" ELSE "load"
  <2>1. DoneEvents(x, res) = ((<<a>> \o <<>>) \o <<Emit(x, "loadend")>>) \o <<Emit(x, e2)>>
    BY <1>7 DEF DoneEvents, Results
  <2>2. DoneEvents(x, res) = (<<a>> \o <<Emit(x, "loadend")>>) \o <<Emit(x, e2)>>
    BY <1>2, <1>4, <2>1, ConcatEmptySeq
  <2>3. Emit(x, "loadend") \in Frames /\ Emit(x, e2) \in Frames
    BY <1>1 DEF EventNames
  <2>4. /\ "loadend" \in Ending /\ e2 \in Ending /\ EndPlace("loadend") <= EndPlace(e2)
    BY DEF Ending, EndPlace
  <2> QED BY <1>5, <2>2, <2>3, <2>4
<1> QED BY <1>6, <1>7

\* curlDoneCb is entered, for curlmDoneCb or for send().
LEMMA DonePush ==
  ASSUME NEW s \in Seq(Frames), NEW x \in Xhrs, NEW k \in {"null", "sent"}, NEW res \in Results,
         NEW X, Stacked(s), Quiet(s), InOrder(s, X),
         s = <<>> => k = "sent",
         s # <<>> => Follows(F(k, x), s[1]),
         x \in X => \A ev \in Ending : ~Due(s, x, ev)
  PROVE  LET t == DoneEvents(x, res) \o <<F(k, x)>> \o s IN
         /\ t \in Seq(Frames) /\ t # <<>>
         /\ t[1] = Emit(x, "readystatechange") /\ t[2].k = "emit"
         /\ Stacked(t) /\ InOrder(t, X)
         /\ \A kk, y : kk # "emit" => (Has(t, kk, y) <=> (kk = k /\ y = x) \/ Has(s, kk, y))
         /\ \A y, ev : y # x => (Due(t, y, ev) <=> Due(s, y, ev))
<1> DEFINE t == DoneEvents(x, res) \o <<F(k, x)>> \o s
<1>1. PICK e1 \in Ending, e2 \in Ending :
        /\ EndPlace(e1) <= EndPlace(e2)
        /\ t = <<Emit(x, "readystatechange")>> \o
                 (<<Emit(x, e1)>> \o (<<Emit(x, e2)>> \o (<<F(k, x)>> \o s)))
  <2>1. \E e1, e2 \in Ending :
          /\ EndPlace(e1) <= EndPlace(e2)
          /\ DoneEvents(x, res) \o <<F(k, x)>> \o s =
               <<Emit(x, "readystatechange")>> \o
                 (<<Emit(x, e1)>> \o (<<Emit(x, e2)>> \o (<<F(k, x)>> \o s)))
    BY DoneShape
  <2> QED BY <2>1
<1> DEFINE g == F(k, x)
           a == Emit(x, "readystatechange")
           b == Emit(x, e1)
           c == Emit(x, e2)
           s1 == <<g>> \o s
           s2 == <<c>> \o s1
           s3 == <<b>> \o s2
<1> HIDE DEF t
<1>2. /\ g \in Frames /\ a \in Frames /\ b \in Frames /\ c \in Frames
      /\ g.k = k /\ g.x = x
      /\ a.k = "emit" /\ a.x = x /\ a.ev = "readystatechange"
      /\ b.k = "emit" /\ b.x = x /\ b.ev = e1
      /\ c.k = "emit" /\ c.x = x /\ c.ev = e2
  BY FrameTypes DEF Calling, Ending, EventNames
<1>3. ~IsEnding(g) /\ ~IsEnding(a) /\ IsEnding(b) /\ IsEnding(c)
  BY <1>2 DEF IsEnding, Ending
<1> HIDE DEF g, a, b, c
<1>4. s1 \in Seq(Frames) /\ s1 # <<>> /\ s1[1] = g /\ Stacked(s1) /\ Quiet(s1) /\ InOrder(s1, X)
  <2>1. Stacked(s1)
    BY <1>2, <1>3, StackedPush DEF g, Outermost
  <2>2. s1 \in Seq(Frames) /\ s1 # <<>> /\ s1[1] = g
    BY <1>2, PushShape
  <2>3. Quiet(s1)
    BY <1>2, <2>1, <2>2, QuietStack
  <2>4. InOrder(s1, X)
    BY <1>2, <1>3, InOrderPush
  <2> QED BY <2>1, <2>2, <2>3, <2>4
<1>5. /\ \A kk, y : Has(s1, kk, y) <=> (kk = k /\ y = x) \/ Has(s, kk, y)
      /\ \A y, ev : Due(s1, y, ev) <=> Due(s, y, ev)
  <2>1. \A y, ev : g # Emit(y, ev)
    BY <1>2, FrameTypes
  <2> QED BY <1>2, <2>1, PushHas, PushDue
<1>6. s2 \in Seq(Frames) /\ s2 # <<>> /\ s2[1] = c /\ Tail(s2) = s1 /\ Stacked(s2) /\ InOrder(s2, X)
  <2>1. Follows(c, s1[1])
    BY <1>2, <1>4 DEF Follows, Ending
  <2>2. Has(s1, "null", c.x) \/ Has(s1, "sent", c.x)
    BY <1>2, <1>5
  <2>3. Stacked(s2)
    BY <1>2, <1>3, <1>4, <2>1, <2>2, StackedPush
  <2>4. s2 \in Seq(Frames) /\ s2 # <<>> /\ s2[1] = c /\ Tail(s2) = s1
    BY <1>2, <1>4, PushShape
  <2>5. InOrder(s2, X)
    BY <1>2, <1>3, <1>4, <1>5, InOrderPush
  <2> QED BY <2>3, <2>4, <2>5
<1>7. /\ \A kk, y : kk # "emit" => (Has(s2, kk, y) <=> (kk = k /\ y = x) \/ Has(s, kk, y))
      /\ \A y, ev : Due(s2, y, ev) <=> (y = x /\ ev = e2) \/ Due(s, y, ev)
  <2>1. \A y, ev : c = Emit(y, ev) <=> (y = x /\ ev = e2)
    BY <1>2, FrameTypes DEF c
  <2> QED BY <1>2, <1>4, <1>5, <2>1, PushHas, PushDue
<1>8. Quiet(s2)
  <2> SUFFICES ASSUME NEW i \in 1..Len(s2), s2[i].k = "emit"
               PROVE  s2[i].ev \in Ending
    BY DEF Quiet
  <2>1. Len(s2) = Len(s1) + 1 /\ Len(s1) \in Nat /\ \A j \in 2..(Len(s1) + 1) : s2[j] = s1[j - 1]
    BY <1>2, <1>4, PushShape
  <2>2. CASE i = 1
    BY <1>2, <1>6, <2>2
  <2>3. CASE i # 1
    <3>1. i - 1 \in 1..Len(s1) /\ s2[i] = s1[i - 1]
      BY <2>1, <2>3
    <3> QED BY <1>4, <3>1 DEF Quiet
  <2> QED BY <2>2, <2>3
<1>9. s3 \in Seq(Frames) /\ s3 # <<>> /\ s3[1] = b /\ Tail(s3) = s2 /\ Stacked(s3) /\ InOrder(s3, X)
  <2>1. Follows(b, s2[1])
    BY <1>2, <1>3, <1>6 DEF Follows, Ending
  <2>2. Has(s2, "null", b.x) \/ Has(s2, "sent", b.x)
    BY <1>2, <1>7
  <2>3. Stacked(s3)
    BY <1>2, <1>3, <1>6, <1>8, <2>1, <2>2, StackedPush
  <2>4. s3 \in Seq(Frames) /\ s3 # <<>> /\ s3[1] = b /\ Tail(s3) = s2
    BY <1>2, <1>6, PushShape
  <2>5. InOrder(s3, X)
    BY <1>1, <1>2, <1>3, <1>6, <1>7, InOrderPush
  <2> QED BY <2>3, <2>4, <2>5
<1>10. /\ \A kk, y : kk # "emit" => (Has(s3, kk, y) <=> (kk = k /\ y = x) \/ Has(s, kk, y))
       /\ \A y, ev : y # x => (Due(s3, y, ev) <=> Due(s, y, ev))
  <2>1. \A y, ev : b = Emit(y, ev) => y = x
    BY <1>2, FrameTypes DEF b
  <2> QED BY <1>2, <1>6, <1>7, <2>1, PushHas, PushDue
<1>11. Quiet(s3)
  <2> SUFFICES ASSUME NEW i \in 1..Len(s3), s3[i].k = "emit"
               PROVE  s3[i].ev \in Ending
    BY DEF Quiet
  <2>1. Len(s3) = Len(s2) + 1 /\ Len(s2) \in Nat /\ \A j \in 2..(Len(s2) + 1) : s3[j] = s2[j - 1]
    BY <1>2, <1>6, PushShape
  <2>2. CASE i = 1
    BY <1>2, <1>9, <2>2
  <2>3. CASE i # 1
    <3>1. i - 1 \in 1..Len(s2) /\ s3[i] = s2[i - 1]
      BY <2>1, <2>3
    <3> QED BY <1>8, <3>1 DEF Quiet
  <2> QED BY <2>2, <2>3
<1> DEFINE s4 == <<a>> \o s3
<1>12. t = s4
  BY <1>1 DEF a, b, c, g
<1> HIDE DEF s3
<1>13. /\ s4 \in Seq(Frames) /\ s4 # <<>> /\ s4[1] = a /\ s4[2] = b
       /\ Stacked(s4) /\ InOrder(s4, X)
  <2>1. Follows(a, s3[1])
    BY <1>2, <1>3, <1>9 DEF Follows, Ending
  <2>2. Stacked(s4)
    BY <1>2, <1>3, <1>9, <1>11, <2>1, StackedPush
  <2>3. Len(s3) \in Nat /\ Len(s3) > 0
    BY <1>9
  <2>4. /\ s4 \in Seq(Frames) /\ s4 # <<>> /\ s4[1] = a
        /\ \A i \in 1..Len(s3) : s4[i + 1] = s3[i]
    BY <1>2, <1>9, PushShape
  <2> HIDE DEF s4
  <2>5. s4[2] = s3[1]
    <3>1. 1 \in 1..Len(s3) /\ 1 + 1 = 2
      BY <2>3
    <3> QED BY <2>4, <3>1
  <2>6. InOrder(s4, X)
    BY <1>2, <1>3, <1>9, InOrderPush DEF s4
  <2> QED BY <1>9, <2>2, <2>4, <2>5, <2>6
<1>14. /\ \A kk, y : kk # "emit" => (Has(s4, kk, y) <=> (kk = k /\ y = x) \/ Has(s, kk, y))
       /\ \A y, ev : y # x => (Due(s4, y, ev) <=> Due(s, y, ev))
  <2>1. \A y, ev : a = Emit(y, ev) => y = x
    BY <1>2, FrameTypes DEF a
  <2> QED BY <1>2, <1>9, <1>10, <2>1, PushHas, PushDue
<1> HIDE DEF s4
<1>15. /\ t \in Seq(Frames) /\ t # <<>>
       /\ t[1] = Emit(x, "readystatechange") /\ t[2].k = "emit"
       /\ Stacked(t) /\ InOrder(t, X)
       /\ \A kk, y : kk # "emit" => (Has(t, kk, y) <=> (kk = k /\ y = x) \/ Has(s, kk, y))
       /\ \A y, ev : y # x => (Due(t, y, ev) <=> Due(s, y, ev))
  BY <1>2, <1>12, <1>13, <1>14 DEF a
<1> QED BY <1>15 DEF t

-----------------------------------------------------------------------------
(***************************************************************************)
(* Facts about the list of messages                                        *)
(***************************************************************************)

Messages == [x : Xhrs, res : Results]

\* curl_multi_remove_handle takes out the message of x and no other.
LEMMA UnlistedFacts ==
  ASSUME msglist \in Seq(Messages), OneEach(msglist), NEW x \in Xhrs
  PROVE  /\ Unlisted(x) \in Seq(Messages) /\ OneEach(Unlisted(x))
         /\ ~Listed(Unlisted(x), x)
         /\ \A y \in Xhrs : y # x => (Listed(Unlisted(x), y) <=> Listed(msglist, y))
<1> DEFINE q == Unlisted(x)
<1>0. Len(msglist) \in Nat /\ DOMAIN msglist = 1..Len(msglist)
  OBVIOUS
<1>1. CASE ~(\E i \in DOMAIN msglist : msglist[i].x = x)
  <2>1. q = msglist
    BY <1>1 DEF Unlisted
  <2> QED BY <1>1, <2>1 DEF Listed
<1>2. CASE \E i \in DOMAIN msglist : msglist[i].x = x
  <2> DEFINE m == CHOOSE i \in DOMAIN msglist : msglist[i].x = x
             a == SubSeq(msglist, 1, m - 1)
             b == SubSeq(msglist, m + 1, Len(msglist))
  <2>1. m \in 1..Len(msglist) /\ msglist[m].x = x
    BY <1>0, <1>2
  <2>2. q = a \o b
    BY <1>2 DEF Unlisted
  <2> HIDE DEF m, q
  <2>3. /\ a \in Seq(Messages) /\ Len(a) = m - 1 /\ \A i \in 1..(m - 1) : a[i] = msglist[i]
    BY <1>0, <2>1
  <2>4. /\ b \in Seq(Messages) /\ Len(b) = Len(msglist) - m
        /\ \A i \in 1..(Len(msglist) - m) : b[i] = msglist[m + i]
    <3>1. \A i \in (m + 1)..Len(msglist) : msglist[i] \in Messages
      BY <1>0, <2>1
    <3>2. /\ b \in Seq(Messages)
          /\ Len(b) = IF m + 1 <= Len(msglist) THEN Len(msglist) - (m + 1) + 1 ELSE 0
          /\ \A i \in 1..(Len(msglist) - (m + 1) + 1) : b[i] = msglist[(m + 1) + i - 1]
      BY <1>0, <2>1, <3>1, SubSeqProperties
    <3> HIDE DEF b
    <3>3. \A i \in 1..(Len(msglist) - m) : (m + 1) + i - 1 = m + i
      BY <1>0, <2>1
    <3>4. Len(msglist) - (m + 1) + 1 = Len(msglist) - m
      BY <1>0, <2>1
    <3>5. Len(b) = Len(msglist) - m
      <4> DEFINE n == Len(msglist)
      <4>1. m \in Int /\ n \in Int /\ m <= n
        BY <1>0, <2>1
      <4>2. Len(b) = IF m + 1 <= n THEN n - (m + 1) + 1 ELSE 0
        BY <3>2
      <4> HIDE DEF n
      <4> QED BY <4>1, <4>2 DEF n
    <3>6. \A i \in 1..(Len(msglist) - m) : b[i] = msglist[m + i]
      BY <3>2, <3>3, <3>4, Zenon
    <3> QED BY <3>2, <3>5, <3>6
  <2> HIDE DEF a, b
  <2>5. /\ q \in Seq(Messages) /\ Len(q) = Len(msglist) - 1 /\ DOMAIN q = 1..(Len(msglist) - 1)
        /\ \A i \in 1..(m - 1) : q[i] = msglist[i]
        /\ \A i \in m..(Len(msglist) - 1) : q[i] = msglist[i + 1]
    <3>1. q \in Seq(Messages) /\ Len(q) = Len(a) + Len(b)
      BY <2>2, <2>3, <2>4, ConcatProperties
    <3>2. Len(q) = Len(msglist) - 1 /\ DOMAIN q = 1..(Len(msglist) - 1)
      BY <1>0, <2>1, <2>3, <2>4, <3>1
    <3>3. ASSUME NEW i \in 1..(m - 1)
          PROVE  q[i] = msglist[i]
      BY <1>0, <2>1, <2>2, <2>3, <2>4
    <3>4. ASSUME NEW i \in m..(Len(msglist) - 1)
          PROVE  q[i] = msglist[i + 1]
      <4>1. q[i] = b[i - Len(a)]
        BY <1>0, <2>1, <2>2, <2>3, <2>4
      <4>2. i - Len(a) \in 1..(Len(msglist) - m) /\ m + (i - Len(a)) = i + 1
        BY <1>0, <2>1, <2>3
      <4> QED BY <2>4, <4>1, <4>2
    <3> QED BY <3>1, <3>2, <3>3, <3>4
  <2>6. \A i \in DOMAIN q : \E j \in DOMAIN msglist :
           j = (IF i < m THEN i ELSE i + 1) /\ j # m /\ q[i] = msglist[j]
    BY <1>0, <2>1, <2>5
  <2>7. \A j \in DOMAIN msglist : j # m => \E i \in DOMAIN q : q[i] = msglist[j]
    <3> SUFFICES ASSUME NEW j \in DOMAIN msglist, j # m
                 PROVE  \E i \in DOMAIN q : q[i] = msglist[j]
      OBVIOUS
    <3>1. CASE j < m
      <4>1. j \in DOMAIN q /\ q[j] = msglist[j]
        BY <1>0, <2>1, <2>5, <3>1
      <4> QED BY <4>1
    <3>2. CASE ~(j < m)
      <4>1. j - 1 \in DOMAIN q /\ q[j - 1] = msglist[j]
        BY <1>0, <2>1, <2>5, <3>2
      <4> QED BY <4>1
    <3> QED BY <3>1, <3>2
  <2>8. OneEach(q)
    <3> SUFFICES ASSUME NEW i \in DOMAIN q, NEW j \in DOMAIN q, q[i].x = q[j].x
                 PROVE  i = j
      BY DEF OneEach
    <3>1. (IF i < m THEN i ELSE i + 1) = (IF j < m THEN j ELSE j + 1)
      BY <2>6 DEF OneEach
    <3> QED BY <1>0, <2>1, <2>5, <3>1
  <2>9. ~Listed(q, x)
    BY <1>0, <2>1, <2>6 DEF Listed, OneEach
  <2>10. \A y \in Xhrs : y # x => (Listed(q, y) <=> Listed(msglist, y))
    BY <2>1, <2>6, <2>7 DEF Listed
  <2> QED BY <2>5, <2>8, <2>9, <2>10 DEF q
<1> QED BY <1>1, <1>2

\* multi_addmsg adds the first message of x.
LEMMA AppendFacts ==
  ASSUME NEW q \in Seq(Messages), OneEach(q), NEW x \in Xhrs, NEW res \in Results, ~Listed(q, x)
  PROVE  LET p == Append(q, [x |-> x, res |-> res])
         IN  /\ p \in Seq(Messages) /\ OneEach(p) /\ Listed(p, x)
             /\ \A y \in Xhrs : y # x => (Listed(p, y) <=> Listed(q, y))
<1> DEFINE p == Append(q, [x |-> x, res |-> res])
<1>1. /\ p \in Seq(Messages) /\ Len(q) \in Nat /\ DOMAIN p = 1..(Len(q) + 1)
      /\ DOMAIN q = 1..Len(q) /\ p[Len(q) + 1].x = x
      /\ \A i \in 1..Len(q) : p[i] = q[i]
  <2>1. [x |-> x, res |-> res] \in Messages
    BY DEF Messages
  <2> QED BY <2>1
<1> HIDE DEF p
<1>2. \A i \in DOMAIN p : i \in DOMAIN q \/ i = Len(q) + 1
  BY <1>1
<1>3. OneEach(p)
  BY <1>1, <1>2 DEF OneEach, Listed
<1>4. Listed(p, x)
  <2>1. Len(q) + 1 \in DOMAIN p
    BY <1>1
  <2> QED BY <1>1, <2>1 DEF Listed
<1>5. \A y \in Xhrs : y # x => (Listed(p, y) <=> Listed(q, y))
  <2>1. \A i \in DOMAIN q : i \in DOMAIN p
    BY <1>1
  <2> QED BY <1>1, <1>2, <2>1 DEF Listed
<1> QED BY <1>1, <1>3, <1>4, <1>5 DEF p

\* curl_multi_info_read takes the first message, the only one of its request.
LEMMA TailFacts ==
  ASSUME NEW q \in Seq(Messages), OneEach(q), q # <<>>
  PROVE  /\ Head(q) \in Messages /\ Listed(q, Head(q).x)
         /\ Tail(q) \in Seq(Messages) /\ OneEach(Tail(q)) /\ ~Listed(Tail(q), Head(q).x)
         /\ \A y \in Xhrs : y # Head(q).x => (Listed(Tail(q), y) <=> Listed(q, y))
<1> DEFINE p == Tail(q)
<1>1. /\ Len(q) \in Nat /\ DOMAIN q = 1..Len(q) /\ 1 \in DOMAIN q /\ Head(q) = q[1]
      /\ Head(q) \in Messages /\ p \in Seq(Messages) /\ DOMAIN p = 1..(Len(q) - 1)
      /\ \A i \in 1..(Len(q) - 1) : p[i] = q[i + 1]
  OBVIOUS
<1> HIDE DEF p
<1>2. \A i \in DOMAIN p : i + 1 \in DOMAIN q /\ i + 1 # 1 /\ p[i] = q[i + 1] /\ i \in Nat
  BY <1>1
<1>3. \A i \in DOMAIN q : i = 1 \/ (i - 1 \in DOMAIN p /\ p[i - 1] = q[i])
  BY <1>1
<1>4. OneEach(p)
  <2> SUFFICES ASSUME NEW i \in DOMAIN p, NEW j \in DOMAIN p, p[i].x = p[j].x
               PROVE  i = j
    BY DEF OneEach
  <2>1. i + 1 = j + 1
    BY <1>2 DEF OneEach
  <2> QED BY <1>2, <2>1
<1>5. ~Listed(p, Head(q).x)
  BY <1>1, <1>2 DEF OneEach, Listed
<1>6. \A y \in Xhrs : y # Head(q).x => (Listed(p, y) <=> Listed(q, y))
  BY <1>1, <1>2, <1>3 DEF Listed
<1>7. Listed(q, Head(q).x)
  BY <1>1 DEF Listed
<1> QED BY <1>1, <1>4, <1>5, <1>6, <1>7 DEF p

-----------------------------------------------------------------------------
(***************************************************************************)
(* Returning                                                               *)
(***************************************************************************)

\* The frames and the events to be delivered of a stack, the innermost apart
LEMMA TailFrames ==
  ASSUME NEW s \in Seq(Frames), s # <<>>
  PROVE  /\ \A k, x : Has(s, k, x) <=> (s[1].k = k /\ s[1].x = x) \/ Has(Tail(s), k, x)
         /\ \A x, ev : Due(s, x, ev) <=> s[1] = Emit(x, ev) \/ Due(Tail(s), x, ev)
<1> DEFINE f == s[1]
           t == Tail(s)
<1>1. f \in Frames /\ t \in Seq(Frames) /\ s = <<f>> \o t
  BY StackShape
<1> HIDE DEF f, t
<1>2. /\ \A k, x : Has(<<f>> \o t, k, x) <=> (f.k = k /\ f.x = x) \/ Has(t, k, x)
      /\ \A x, ev : Due(<<f>> \o t, x, ev) <=> f = Emit(x, ev) \/ Due(t, x, ev)
  BY <1>1, PushHas, PushDue
<1> QED BY <1>1, <1>2 DEF f, t

\* What frames may follow the innermost one
LEMMA UnderTop ==
  ASSUME NEW s \in Seq(Frames), Stacked(s), s # <<>>
  PROVE  /\ s[1].k \in {"socket", "check"} => Tail(s) = <<>>
         /\ s[1].k \notin Outermost => Tail(s) # <<>>
         /\ Tail(s) # <<>> =>
              /\ Tail(s)[1].k # "alloc"
              /\ Tail(s)[1].k = "emit" => IsEnding(Tail(s)[1]) \/ s[1].k = "alloc"
              /\ Tail(s)[1].k = "ret" => s[1].k \in {"js", "emit"} /\ Tail(s)[1].x = s[1].x
<1>1. /\ Tail(s) # <<>> => Follows(s[1], Tail(s)[1])
      /\ Tail(s) = <<>> => s[1].k \in Outermost
  BY StackedTail
<1>2. s[1] \in Frames
  BY StackShape
<1> DEFINE f == s[1]
           g == Tail(s)[1]
<1>3. f.k \in {"socket", "check"} => ~Follows(f, g)
  BY DEF Follows
<1>4. Follows(f, g) => /\ g.k # "alloc"
                       /\ g.k = "emit" => IsEnding(g) \/ f.k = "alloc"
                       /\ g.k = "ret" => f.k \in {"js", "emit"} /\ g.x = f.x
  <2> SUFFICES ASSUME Follows(f, g)
               PROVE  /\ g.k # "alloc"
                      /\ g.k = "emit" => IsEnding(g) \/ f.k = "alloc"
                      /\ g.k = "ret" => f.k \in {"js", "emit"} /\ g.x = f.x
    OBVIOUS
  <2>1. f.k \in Calling \union {"emit", "socket", "check"} /\ (f.k = "emit" => f.ev \in EventNames)
    BY <1>2, FrameTypes
  <2>2. f.k \in {"js", "alloc", "cb", "perform", "null", "sent", "ret", "emit"}
    BY <1>3, <2>1 DEF Calling
  <2> HIDE DEF f, g
  <2>3. CASE f.k = "emit"
    <3>1. f.ev \in {"loadstart", "progress", "abort", "readystatechange"} \union Ending
      BY <2>1, <2>3 DEF EventNames, Ending
    <3> QED BY <2>3, <3>1 DEF Follows, IsEnding
  <2>4. CASE f.k = "alloc"
    <3>1. g.k = "emit"
      BY <2>4, FrameTypes DEF Follows
    <3> QED BY <2>4, <3>1
  <2>5. CASE f.k = "js"
    BY <2>5 DEF Follows, IsEnding
  <2>6. CASE f.k = "cb"
    <3>1. g.k \in {"socket", "perform"}
      BY <2>6, FrameTypes DEF Follows
    <3> QED BY <3>1
  <2>7. CASE f.k = "null"
    BY <2>7 DEF Follows
  <2>8. CASE f.k \in {"perform", "sent", "ret"}
    BY <2>8 DEF Follows
  <2> QED BY <2>2, <2>3, <2>4, <2>5, <2>6, <2>7, <2>8
<1> QED BY <1>1, <1>3, <1>4 DEF Outermost

\* A handler returns, or an event is not delivered.
LEMMA Returned ==
  ASSUME stack \in Seq(Frames), Stacked(stack), stack # <<>>, stack[1].k \in {"js", "emit"}
  PROVE  /\ Left \in Seq(Frames) /\ Stacked(Left) /\ TopReturns(Left)
         /\ Left # <<>> => Left[1].k # "alloc" /\ (Left[1].k = "emit" => IsEnding(Left[1]))
         /\ \A X : InOrder(stack, X) => InOrder(Left, X)
         /\ \A y : \A k \in {"cb", "perform", "null", "sent"} : Has(Left, k, y) <=> Has(stack, k, y)
         /\ \A k, y : Has(Left, k, y) => Has(Tail(stack), k, y)
         /\ \A y, ev : Due(Left, y, ev) => Due(Tail(stack), y, ev)
<1> DEFINE t == Tail(stack)
<1>1. /\ t \in Seq(Frames) /\ Stacked(t) /\ t # <<>> /\ t[1] = stack[2]
      /\ t[1].k # "alloc" /\ (t[1].k = "emit" => IsEnding(t[1]))
      /\ \A X : InOrder(stack, X) => InOrder(t, X)
  <2>1. t # <<>>
    BY UnderTop DEF Outermost
  <2> QED BY <2>1, StackShape, StackedTail, UnderTop, InOrderTail
<1>2. Len(stack) > 1
  <2>1. Len(stack) \in Nat /\ Len(t) = Len(stack) - 1
    BY StackShape
  <2>2. Len(t) > 0
    BY <1>1
  <2> QED BY <2>1, <2>2
<1>3. \A k, y : k \notin {"js", "emit"} => (Has(t, k, y) <=> Has(stack, k, y))
  BY TailFrames
<1> HIDE DEF t
<1>4. CASE t[1].k # "ret"
  <2>1. Left = t
    BY <1>1, <1>2, <1>4 DEF Left, t
  <2> QED BY <1>1, <1>3, <1>4, <2>1 DEF t, TopReturns
<1>5. CASE t[1].k = "ret"
  <2>1. Left = Tail(t)
    BY <1>1, <1>2, <1>5 DEF Left, t
  <2>2. /\ Tail(t) \in Seq(Frames) /\ Stacked(Tail(t))
        /\ \A X : InOrder(stack, X) => InOrder(Tail(t), X)
        /\ Tail(t) # <<>> => Tail(t)[1].k = "js"
    <3>1. Tail(t) # <<>> => Follows(t[1], Tail(t)[1])
      BY <1>1, StackedTail
    <3>2. Tail(t) # <<>> => Tail(t)[1].k = "js"
      BY <1>5, <3>1 DEF Follows
    <3> QED BY <1>1, <3>2, StackShape, StackedTail, InOrderTail
  <2>3. \A k, y : Has(t, k, y) <=> (t[1].k = k /\ t[1].x = y) \/ Has(Tail(t), k, y)
    BY <1>1, TailFrames
  <2>4. \A y, ev : Due(Tail(t), y, ev) => Due(t, y, ev)
    BY <1>1, TailFrames
  <2>5. \A y : \A k \in {"cb", "perform", "null", "sent"} : Has(Tail(t), k, y) <=> Has(stack, k, y)
    BY <1>3, <1>5, <2>3
  <2> QED BY <2>1, <2>2, <2>3, <2>4, <2>5 DEF t, TopReturns
<1> QED BY <1>4, <1>5

-----------------------------------------------------------------------------
(***************************************************************************)
(* Requests that a step does not touch                                     *)
(***************************************************************************)

\* What may have been done to a request
Deeds == {"aborted", "abortInside", "dropped", "headers", "nested", "callback", "finished"}

\* TypeOK, variable by variable
LEMMA TypeFacts ==
  ASSUME TypeOK
  PROVE  /\ alive \in [Xhrs -> BOOLEAN] /\ held \in [Xhrs -> BOOLEAN]
         /\ curl_h \in [Xhrs -> BOOLEAN] /\ ownMulti \in [Xhrs -> BOOLEAN]
         /\ slist \in [Xhrs -> BOOLEAN] /\ sent \in [Xhrs -> BOOLEAN]
         /\ async \in [Xhrs -> BOOLEAN] /\ events \in [Xhrs -> BOOLEAN]
         /\ hbuf \in [Xhrs -> BOOLEAN]
         /\ easy \in [Xhrs -> {"idle", "multi", "own", "freed"}]
         /\ headers \in [Xhrs -> {None, "live", "dangling"}]
         /\ ready_state \in [Xhrs -> 0..4]
         /\ resp \in [Xhrs -> {None, "head", "body"}]
         /\ msglist \in Seq(Messages)
         /\ stack \in Seq(Frames)
         /\ last \in [Xhrs -> 0..10]
         /\ past \in [Xhrs -> SUBSET Deeds]
BY DEF TypeOK, Messages, Deeds, UNSENT, DONE

\* The invariant of a request is about its own fields, messages and frames.
LEMMA Unmoved ==
  ASSUME NEW y \in Xhrs, RequestInv(y),
         alive'[y] = alive[y], held'[y] = held[y], curl_h'[y] = curl_h[y], easy'[y] = easy[y],
         headers'[y] = headers[y], sent'[y] = sent[y], async'[y] = async[y],
         ready_state'[y] = ready_state[y], hbuf'[y] = hbuf[y], resp'[y] = resp[y],
         last'[y] = last[y], past'[y] = past[y],
         Listed(msglist', y) <=> Listed(msglist, y),
         \A k \in {"js", "ret", "cb"} : Has(stack', k, y) => Has(stack, k, y),
         \A k \in {"perform", "null", "sent"} : Has(stack', k, y) <=> Has(stack, k, y),
         \A ev \in Ending : Due(stack', y, ev) => Due(stack, y, ev)
  PROVE  RequestInv(y)'
<1>1. HandleInv(y)'
  BY DEF RequestInv, HandleInv
<1>2. DropInv(y)'
  BY DEF RequestInv, DropInv
<1>3. HeadersInv(y)'
  BY DEF RequestInv, HeadersInv
<1>4. SentInv(y)' /\ UnderWay(y)'
  BY DEF RequestInv, SentInv, UnderWay, Nested, Excused
<1>5. EventInv(y)'
  BY DEF RequestInv, EventInv, Nested, Transfers
<1> QED BY <1>1, <1>2, <1>3, <1>4, <1>5 DEF RequestInv

\* Nothing is to be checked of the event that is next when there is none, or
\* when it is one of the end.
LEMMA NoEventNext ==
  ASSUME NEW s, s = stack',
         s # <<>> => s[1].k # "alloc" /\ (s[1].k = "emit" => IsEnding(s[1]))
  PROVE  TopInv'
<1>1. \A x, ev, g : ev \in Ending => Ready(x, ev, g)'
  BY DEF Ready, Ending
<1> QED BY <1>1 DEF TopInv, Top, IsEnding

\* TypeOK of the next state, variable by variable
LEMMA TypeNext ==
  ASSUME alive' \in [Xhrs -> BOOLEAN], held' \in [Xhrs -> BOOLEAN],
         curl_h' \in [Xhrs -> BOOLEAN], ownMulti' \in [Xhrs -> BOOLEAN],
         slist' \in [Xhrs -> BOOLEAN], sent' \in [Xhrs -> BOOLEAN],
         async' \in [Xhrs -> BOOLEAN], events' \in [Xhrs -> BOOLEAN],
         hbuf' \in [Xhrs -> BOOLEAN],
         easy' \in [Xhrs -> {"idle", "multi", "own", "freed"}],
         headers' \in [Xhrs -> {None, "live", "dangling"}],
         ready_state' \in [Xhrs -> 0..4],
         resp' \in [Xhrs -> {None, "head", "body"}],
         msglist' \in Seq(Messages),
         stack' \in Seq(Frames),
         last' \in [Xhrs -> 0..10],
         past' \in [Xhrs -> SUBSET Deeds],
         calls' \in [Xhrs -> Nat], \E b \in Budgets : \A x \in Xhrs : calls'[x] <= b[x],
         fault' \in {None, "easy", "object", "headers", "check"}
  PROVE  TypeOK'
BY DEF TypeOK, Messages, Deeds, UNSENT, DONE

\* A call that the program may make keeps within the bounds.
LEMMA CallCounted ==
  ASSUME TypeOK, NEW x \in Xhrs, Callable(x), calls' = [calls EXCEPT ![x] = @ + 1]
  PROVE  /\ calls' \in [Xhrs -> Nat]
         /\ \E b \in Budgets : \A y \in Xhrs : calls'[y] <= b[y]
<1>1. calls \in [Xhrs -> Nat]
  BY DEF TypeOK
<1>2. PICK b \in Budgets : calls[x] < b[x] /\ \A y \in Xhrs : calls[y] <= b[y]
  BY DEF Callable
<1>3. b \in [Xhrs -> Nat]
  BY <1>2, XhrAssumption
<1>4. calls[x] + 1 <= b[x]
  BY <1>1, <1>2, <1>3
<1>5. \A y \in Xhrs : calls'[y] <= b[y]
  BY <1>1, <1>2, <1>4
<1> QED BY <1>1, <1>2, <1>5

\* What has been done to a request is remembered.
LEMMA Remembered ==
  ASSUME past \in [Xhrs -> SUBSET Deeds], NEW x \in Xhrs, NEW S, S \subseteq Deeds,
         past' = [past EXCEPT ![x] = @ \union S]
  PROVE  /\ past' \in [Xhrs -> SUBSET Deeds]
         /\ past'[x] = past[x] \union S
         /\ \A y \in Xhrs : past[y] \subseteq past'[y] /\ (y # x => past'[y] = past[y])
OBVIOUS

\* What holds where the program or the runtime may act
LEMMA Given ==
  ASSUME XhrInv, fault = None
  PROVE  /\ TypeOK /\ stack \in Seq(Frames) /\ msglist \in Seq(Messages)
         /\ Stacked(stack) /\ TopReturns(stack) /\ InOrder(stack, NotNested)
         /\ OneEach(msglist) /\ TopInv
         /\ \A x \in Xhrs : RequestInv(x)
         /\ \A x \in Xhrs : /\ HandleInv(x) /\ DropInv(x) /\ HeadersInv(x)
                            /\ SentInv(x) /\ UnderWay(x) /\ EventInv(x)
BY TypeFacts DEF XhrInv, Core, RequestInv

\* A cause that is known is not forgotten.
LEMMA CauseKept ==
  ASSUME past \in [Xhrs -> SUBSET Deeds],
         \A x \in Xhrs : past[x] \subseteq past'[x],
         fault' = "easy" => \E x \in Xhrs : past'[x] \intersect {"abortInside", "dropped"} # {},
         fault' = "object" => \E x \in Xhrs : past'[x] \intersect {"dropped"} # {},
         fault' = "headers" => \E x \in Xhrs : past'[x] \intersect {"headers"} # {},
         fault' # "check"
  PROVE  FaultCause' /\ NotNested' \subseteq NotNested
BY DEF FaultCause, NotNested, Nested

\* The program's code runs from the loop or in a handler: nothing but events of
\* the end is to be delivered, and every method may be called.
LEMMA WhenRunning ==
  ASSUME XhrInv, Running
  PROVE  /\ Quiet(stack)
         /\ stack # <<>> => stack[1].k = "js"
<1>1. stack \in Seq(Frames) /\ Stacked(stack)
  BY Given DEF Running
<1>2. stack # <<>> => stack[1].k = "js"
  BY DEF Running, Top
<1> QED BY <1>1, <1>2, QuietStack

-----------------------------------------------------------------------------
(***************************************************************************)
(* The calls of the program                                                *)
(***************************************************************************)

\* setRequestHeader() touches nothing that libcurl uses.
LEMMA SetRequestHeaderStep ==
  ASSUME XhrInv, NEW x \in Xhrs, SetRequestHeader(x)
  PROVE  XhrInv'
<1>1. Running /\ fault = None /\ fault' = None
  BY DEF SetRequestHeader, Callable, Running
<1>2. TypeOK /\ Core /\ \A y \in Xhrs : RequestInv(y)
  BY <1>1, Given DEF XhrInv
<1>3. /\ UNCHANGED <<alive, held, curl_h, ownMulti, sent, async, events, hbuf, easy, headers,
                     ready_state, resp, msglist, stack, last, past, fault>>
      /\ slist' = [slist EXCEPT ![x] = TRUE]
  BY DEF SetRequestHeader, object
<1>4. TypeOK'
  <2>1. /\ calls' \in [Xhrs -> Nat]
        /\ \E b \in Budgets : \A y \in Xhrs : calls'[y] <= b[y]
    BY <1>2, CallCounted DEF SetRequestHeader
  <2> QED BY <1>1, <1>2, <1>3, <2>1, TypeFacts, TypeNext
<1>5. FaultCause' /\ NotNested' = NotNested
  BY <1>1, <1>3 DEF FaultCause, NotNested, Nested, None
<1>6. ASSUME NEW y \in Xhrs
      PROVE  RequestInv(y)'
  BY <1>2, <1>3, Unmoved
<1>7. TopInv'
  BY <1>1, <1>3, WhenRunning, NoEventNext
<1>8. Stacked(stack)' /\ TopReturns(stack)' /\ InOrder(stack, NotNested)' /\ OneEach(msglist)'
  BY <1>2, <1>3, <1>5 DEF Core
<1> QED BY <1>4, <1>5, <1>6, <1>7, <1>8 DEF XhrInv, Core

\* Inside, Kept and InCallback are about the frames of the stack.
LEMMA FrameSets ==
  ASSUME NEW x
  PROVE  /\ Inside(x) <=> \E k \in {"cb", "perform", "null", "sent"} : Has(stack, k, x)
         /\ Kept(x) <=> held[x] \/ \E k \in {"js", "perform", "sent", "ret"} : Has(stack, k, x)
         /\ OnStack(x, {"cb"}) <=> Has(stack, "cb", x)
<1>1. ASSUME NEW K PROVE OnStack(x, K) <=> \E k \in K : Has(stack, k, x)
  BY DEF OnStack, Has
<1> QED BY <1>1 DEF Inside, Kept

\* A request that the program forgets while libcurl or C code works on it is
\* known to be lost.
LEMMA DropStep ==
  ASSUME XhrInv, NEW x \in Xhrs, Drop(x)
  PROVE  XhrInv'
<1>1. Running /\ fault = None /\ fault' = None
  BY DEF Drop, Callable, Running
<1>2. TypeOK /\ Core /\ \A y \in Xhrs : RequestInv(y)
  BY <1>1, Given DEF XhrInv
<1> DEFINE S == IF easy[x] = "multi" \/ Inside(x) THEN {"dropped"} ELSE {}
<1>3. /\ UNCHANGED <<alive, curl_h, ownMulti, slist, sent, async, events, hbuf, easy, headers,
                     ready_state, resp, msglist, stack, last, fault>>
      /\ held' = [held EXCEPT ![x] = FALSE]
      /\ past' = [past EXCEPT ![x] = @ \union S]
  BY DEF Drop, request, Remember
<1>4. held'[x] = FALSE /\ past'[x] = past[x] \union S
  BY <1>2, <1>3, TypeFacts
<1>5. S \subseteq {"dropped"}
  OBVIOUS
<1>6. \A y \in Xhrs : past[y] \subseteq past'[y] /\ (y # x => held'[y] = held[y] /\ past'[y] = past[y])
  BY <1>2, <1>3, TypeFacts
<1>7. easy[x] = "multi" \/ (\E k \in {"cb", "perform", "null", "sent"} : Has(stack, k, x))
        => "dropped" \in past'[x]
  BY <1>4, FrameSets
<1> HIDE DEF S
<1>8. TypeOK'
  <2>1. /\ calls' \in [Xhrs -> Nat]
        /\ \E b \in Budgets : \A y \in Xhrs : calls'[y] <= b[y]
    BY <1>2, CallCounted DEF Drop
  <2>2. /\ held' \in [Xhrs -> BOOLEAN]
        /\ past' \in [Xhrs -> SUBSET Deeds]
    BY <1>2, <1>3, <1>5, TypeFacts, Remembered DEF Deeds
  <2> QED BY <1>1, <1>2, <1>3, <2>1, <2>2, TypeFacts, TypeNext
<1>9. FaultCause' /\ NotNested' \subseteq NotNested
  BY <1>1, <1>2, <1>6, CauseKept, TypeFacts DEF None
<1>10. RequestInv(x)'
  <2>1. \A e : e # "dropped" => (e \in past'[x] <=> e \in past[x])
    BY <1>4, <1>5
  <2>2. past[x] \subseteq past'[x]
    BY <1>6
  <2>3. HandleInv(x)'
    BY <1>2, <1>3, <1>4, <2>1, <2>2 DEF RequestInv, HandleInv
  <2>4. DropInv(x)'
    BY <1>2, <1>3, <1>7 DEF DropInv
  <2>5. HeadersInv(x)'
    BY <1>2, <1>3, <2>2 DEF RequestInv, HeadersInv
  <2>6. SentInv(x)'
    BY <1>2, <1>3, <2>1 DEF RequestInv, SentInv, Nested
  <2>7. UnderWay(x)'
    BY <1>2, <1>3, <2>2 DEF RequestInv, UnderWay, Excused
  <2>8. EventInv(x)'
    BY <1>2, <1>3, <2>1 DEF RequestInv, EventInv, Nested, Transfers
  <2> QED BY <2>3, <2>4, <2>5, <2>6, <2>7, <2>8 DEF RequestInv
<1>11. ASSUME NEW y \in Xhrs, y # x
       PROVE  RequestInv(y)'
  BY <1>2, <1>3, <1>6, <1>11, Unmoved
<1>12. TopInv'
  BY <1>1, <1>3, WhenRunning, NoEventNext
<1>13. Stacked(stack)' /\ TopReturns(stack)' /\ InOrder(stack, NotNested)' /\ OneEach(msglist)'
  BY <1>2, <1>3, <1>9, InOrderFewer DEF Core
<1> QED BY <1>8, <1>9, <1>10, <1>11, <1>12, <1>13 DEF XhrInv, Core

\* send() of an asynchronous request: libcurl takes the handle, or the reason why
\* it does not is known.
LEMMA SendAsyncStep ==
  ASSUME XhrInv, NEW x \in Xhrs, SendAsync(x)
  PROVE  XhrInv'
<1>1. Running /\ fault = None /\ held[x] /\ ~sent[x] /\ async[x]
  BY DEF SendAsync, Callable, Running
<1>2. TypeOK /\ Core /\ \A y \in Xhrs : RequestInv(y)
  BY <1>1, Given DEF XhrInv
<1> DEFINE S == (IF InCallback THEN {"callback"} ELSE {})
                \union (IF slist[x] /\ ~CanAdd(x) THEN {"headers"} ELSE {})
           h == SentHeaders(x)
<1>3. /\ UNCHANGED <<alive, held, curl_h, ownMulti, slist, async, events, hbuf,
                     ready_state, resp, msglist, stack>>
      /\ sent' = [sent EXCEPT ![x] = TRUE]
      /\ headers' = [headers EXCEPT ![x] = h]
      /\ last' = [last EXCEPT ![x] = 0]
      /\ past' = [past EXCEPT ![x] = @ \union S]
  BY DEF SendAsync, object, Remember
<1>4. \/ CanAdd(x) /\ easy' = [easy EXCEPT ![x] = "multi"]
         /\ fault' = (IF h = "dangling" THEN "headers" ELSE fault)
      \/ ~CanAdd(x) /\ easy' = easy /\ fault' = fault
  BY DEF SendAsync
<1>5. h \in {None, "live", "dangling"}
  BY <1>2, TypeFacts DEF SentHeaders
<1>6. S \subseteq {"callback", "headers"}
  OBVIOUS
<1>7. /\ sent'[x] = TRUE /\ headers'[x] = h /\ last'[x] = 0 /\ past'[x] = past[x] \union S
      /\ CanAdd(x) => easy'[x] = "multi"
      /\ ~CanAdd(x) => easy'[x] = easy[x]
  BY <1>2, <1>3, <1>4, TypeFacts
<1>8. \A y \in Xhrs : /\ past[y] \subseteq past'[y]
                      /\ y # x => /\ sent'[y] = sent[y] /\ headers'[y] = headers[y]
                                  /\ last'[y] = last[y] /\ past'[y] = past[y]
                                  /\ easy'[y] = easy[y]
  BY <1>2, <1>3, <1>4, TypeFacts
<1>9. /\ InCallback => "callback" \in past'[x]
      /\ slist[x] /\ ~CanAdd(x) => "headers" \in past'[x]
      /\ \A e : e \notin {"callback", "headers"} => (e \in past'[x] <=> e \in past[x])
  BY <1>6, <1>7
<1> HIDE DEF S, h
<1>10. TypeOK'
  <2>1. /\ calls' \in [Xhrs -> Nat]
        /\ \E b \in Budgets : \A y \in Xhrs : calls'[y] <= b[y]
    BY <1>2, CallCounted DEF SendAsync
  <2>2. /\ sent' \in [Xhrs -> BOOLEAN] /\ headers' \in [Xhrs -> {None, "live", "dangling"}]
        /\ last' \in [Xhrs -> 0..10]
        /\ easy' \in [Xhrs -> {"idle", "multi", "own", "freed"}]
    BY <1>2, <1>3, <1>4, <1>5, TypeFacts
  <2>4. past' \in [Xhrs -> SUBSET Deeds]
    BY <1>2, <1>3, <1>6, TypeFacts, Remembered DEF Deeds
  <2>3. fault' \in {None, "easy", "object", "headers", "check"}
    BY <1>1, <1>4
  <2> QED BY <1>1, <1>2, <1>3, <2>1, <2>2, <2>3, <2>4, TypeFacts, TypeNext
<1>11. HandleInv(x) /\ DropInv(x) /\ HeadersInv(x) /\ SentInv(x) /\ UnderWay(x) /\ EventInv(x)
  BY <1>2 DEF RequestInv
<1>12. fault' = "headers" => "headers" \in past'[x]
  <2> SUFFICES ASSUME fault' = "headers" PROVE "headers" \in past[x]
    BY <1>8
  <2>1. CanAdd(x) /\ h = "dangling"
    BY <1>1, <1>4 DEF None
  <2>2. headers[x] = "dangling" /\ easy[x] = "idle"
    BY <2>1 DEF h, SentHeaders, CanAdd
  <2> QED BY <1>11, <2>2 DEF HeadersInv, None
<1>13. FaultCause' /\ NotNested' \subseteq NotNested
  <2>1. fault' \in {None, "headers"}
    BY <1>1, <1>4
  <2>2. fault' = "headers" => \E y \in Xhrs : past'[y] \intersect {"headers"} # {}
    BY <1>12
  <2> QED BY <1>2, <1>8, <2>1, <2>2, CauseKept, TypeFacts DEF None
<1>14. ASSUME fault' = None
       PROVE  RequestInv(x)'
  <2>1. CanAdd(x) => curl_h[x] /\ easy[x] = "idle" /\ h # "dangling"
    BY <1>1, <1>4, <1>14 DEF CanAdd, None
  <2>2. ~CanAdd(x) /\ ~slist[x] => h = headers[x]
    BY DEF SentHeaders, h
  <2>3. HandleInv(x)'
    BY <1>1, <1>3, <1>7, <1>9, <1>11, <2>1 DEF HandleInv
  <2>4. DropInv(x)'
    BY <1>1, <1>3 DEF DropInv
  <2>5. HeadersInv(x)'
    BY <1>3, <1>5, <1>7, <1>8, <1>9, <1>11, <2>1, <2>2 DEF HeadersInv
  <2>6. SentInv(x)'
    BY <1>1, <1>3, <1>7, <1>9, <1>11, <2>1 DEF SentInv, HandleInv, Nested
  <2>7. UnderWay(x)'
    <3>1. CASE CanAdd(x)
      BY <1>7, <3>1 DEF UnderWay
    <3>2. CASE ~CanAdd(x) /\ InCallback
      BY <1>9, <3>2 DEF UnderWay, Excused
    <3>3. CASE ~CanAdd(x) /\ ~InCallback
      <4>1. ~curl_h[x] \/ easy[x] # "idle"
        BY <3>3 DEF CanAdd
      <4>2. ~curl_h[x] => "aborted" \in past'[x] \/ "finished" \in past'[x]
        BY <1>9, <1>11 DEF HandleInv
      <4>3. easy[x] = "own" => "nested" \in past'[x]
        BY <1>1, <1>9, <1>11 DEF SentInv, Nested
      <4>4. curl_h[x] => easy[x] # "freed"
        BY <1>1, <1>11 DEF HandleInv
      <4>5. easy[x] \in {"idle", "multi", "own", "freed"}
        BY <1>2, TypeFacts
      <4> QED BY <1>7, <3>3, <4>1, <4>2, <4>3, <4>4, <4>5 DEF UnderWay, Excused
    <3> QED BY <3>1, <3>2, <3>3
  <2>8. EventInv(x)'
    <3>1. \A ev \in Ending : 0 <= EndPlace(ev)
      BY DEF EndPlace
    <3>2. Transfers(x)' /\ ready_state[x] = LOADING => Transfers(x)
      BY <1>3, <1>7, <1>11, <2>1 DEF Transfers, SentInv, UNSENT, OPENED, DONE, LOADING
    <3> QED BY <1>3, <1>7, <1>9, <1>11, <3>1, <3>2 DEF EventInv, Nested
  <2> QED BY <2>3, <2>4, <2>5, <2>6, <2>7, <2>8 DEF RequestInv
<1>15. ASSUME NEW y \in Xhrs, y # x
       PROVE  RequestInv(y)'
  BY <1>2, <1>3, <1>8, <1>15, Unmoved
<1>16. TopInv'
  BY <1>1, <1>3, WhenRunning, NoEventNext
<1>17. Stacked(stack)' /\ TopReturns(stack)' /\ InOrder(stack, NotNested)' /\ OneEach(msglist)'
  BY <1>2, <1>3, <1>13, InOrderFewer DEF Core
<1> QED BY <1>10, <1>13, <1>14, <1>15, <1>16, <1>17 DEF XhrInv, Core

\* A pair of frames is pushed one after the other.
LEMMA PushPair ==
  ASSUME NEW s \in Seq(Frames), NEW f \in Frames, NEW g \in Frames
  PROVE  <<f, g>> \o s = <<f>> \o (<<g>> \o s)
<1> DEFINE a == <<f>>
           b == <<g>>
           p == <<f, g>>
<1>1. a \in Seq(Frames) /\ b \in Seq(Frames) /\ Len(a) = 1 /\ Len(b) = 1 /\ a[1] = f /\ b[1] = g
  OBVIOUS
<1>2. p \in Seq(Frames) /\ Len(p) = 2 /\ p[1] = f /\ p[2] = g
  OBVIOUS
<1> HIDE DEF a, b, p
<1>3. a \o b \in Seq(Frames) /\ Len(a \o b) = 2 /\ (a \o b)[1] = f /\ (a \o b)[2] = g
  BY <1>1, ConcatProperties
<1>4. p = a \o b
  <2>1. \A i \in 1..Len(p) : i = 1 \/ i = 2
    BY <1>2
  <2>2. \A i \in 1..Len(p) : p[i] = (a \o b)[i]
    BY <1>2, <1>3, <2>1
  <2> QED BY <1>2, <1>3, <2>2, SeqEqual
<1> QED BY <1>1, <1>4, ConcatAssociative DEF a, b, p

\* open() and abort() end with an event of x.
LEMMA MethodPush ==
  ASSUME NEW s \in Seq(Frames), Stacked(s), Quiet(s), s # <<>> => s[1].k = "js",
         NEW x \in Xhrs, NEW e \in {"readystatechange", "abort"}
  PROVE  LET t == <<Emit(x, e), F("ret", x)>> \o s IN
         /\ t \in Seq(Frames) /\ t # <<>> /\ t[1] = Emit(x, e) /\ t[2] = F("ret", x)
         /\ Stacked(t)
         /\ \A X : InOrder(s, X) => InOrder(t, X)
         /\ \A k, y : k # "emit" => (Has(t, k, y) <=> (k = "ret" /\ y = x) \/ Has(s, k, y))
         /\ \A y : \A ev \in Ending : Due(t, y, ev) <=> Due(s, y, ev)
<1> DEFINE t == <<Emit(x, e), F("ret", x)>> \o s
<1> DEFINE f == Emit(x, e)
           g == F("ret", x)
           u == <<g>> \o s
           v == <<f>> \o u
<1>1. /\ f \in Frames /\ f.k = "emit" /\ f.x = x /\ f.ev = e
      /\ g \in Frames /\ g.k = "ret" /\ g.x = x
      /\ \A y, ev : g # Emit(y, ev)
      /\ \A y, ev : f = Emit(y, ev) => ev = e
  BY FrameTypes DEF Calling, EventNames
<1>2. t = v
  BY <1>1, PushPair
<1> HIDE DEF f, g, t
<1>3. ~IsEnding(f) /\ ~IsEnding(g)
  BY <1>1 DEF IsEnding, Ending
<1>4. /\ u \in Seq(Frames) /\ u # <<>> /\ u[1] = g /\ Stacked(u) /\ Quiet(u)
      /\ \A X : InOrder(s, X) => InOrder(u, X)
  <2>1. s # <<>> => Follows(g, s[1])
    BY <1>1 DEF Follows
  <2>2. Stacked(u)
    BY <1>1, <1>3, <2>1, StackedPush DEF Outermost
  <2>3. u \in Seq(Frames) /\ u # <<>> /\ u[1] = g
    BY <1>1, PushShape
  <2>4. Quiet(u)
    BY <1>1, <2>2, <2>3, QuietStack
  <2> QED BY <1>1, <1>3, <2>2, <2>3, <2>4, InOrderPush
<1>5. /\ \A k, y : Has(u, k, y) <=> (k = "ret" /\ y = x) \/ Has(s, k, y)
      /\ \A y, ev : Due(u, y, ev) <=> Due(s, y, ev)
  BY <1>1, PushHas, PushDue
<1> HIDE DEF u
<1>6. /\ v \in Seq(Frames) /\ v # <<>> /\ v[1] = f /\ v[2] = g /\ Stacked(v)
      /\ \A X : InOrder(s, X) => InOrder(v, X)
  <2>1. Follows(f, u[1])
    BY <1>1, <1>4 DEF Follows, Ending
  <2>2. Stacked(v)
    BY <1>1, <1>3, <1>4, <2>1, StackedPush
  <2>3. v \in Seq(Frames) /\ v # <<>> /\ v[1] = f /\ (\A i \in 1..Len(u) : v[i + 1] = u[i])
    BY <1>1, <1>4, PushShape
  <2>4. 1 \in 1..Len(u) /\ 1 + 1 = 2
    BY <1>4
  <2>5. v[2] = g
    BY <1>4, <2>3, <2>4
  <2>6. \A X : InOrder(s, X) => InOrder(v, X)
    BY <1>1, <1>3, <1>4, InOrderPush
  <2> QED BY <2>2, <2>3, <2>5, <2>6
<1>7. /\ \A k, y : k # "emit" => (Has(v, k, y) <=> (k = "ret" /\ y = x) \/ Has(s, k, y))
      /\ \A y : \A ev \in Ending : Due(v, y, ev) <=> Due(s, y, ev)
  <2>1. \A y : \A ev \in Ending : f # Emit(y, ev)
    BY <1>1 DEF Ending
  <2> QED BY <1>1, <1>4, <1>5, <2>1, PushHas, PushDue
<1> HIDE DEF v
<1>8. /\ t \in Seq(Frames) /\ t # <<>> /\ t[1] = Emit(x, e) /\ t[2] = F("ret", x)
      /\ Stacked(t)
      /\ \A X : InOrder(s, X) => InOrder(t, X)
      /\ \A k, y : k # "emit" => (Has(t, k, y) <=> (k = "ret" /\ y = x) \/ Has(s, k, y))
      /\ \A y : \A ev \in Ending : Due(t, y, ev) <=> Due(s, y, ev)
  BY <1>2, <1>6, <1>7 DEF f, g
<1> QED BY <1>8 DEF t

\* open(): a request that is open()ed outside its own events and is not being
\* transferred starts anew.
LEMMA OpenStep ==
  ASSUME XhrInv, NEW x \in Xhrs, NEW a \in BOOLEAN, Open(x, a)
  PROVE  XhrInv'
<1>1. Running /\ fault = None /\ fault' = None /\ held[x] /\ ready_state[x] \in {UNSENT, DONE}
  BY DEF Open, Callable, Running
<1>2. TypeOK /\ Core /\ \A y \in Xhrs : RequestInv(y)
  BY <1>1, Given DEF XhrInv
<1> DEFINE reset == ready_state[x] = DONE
           S == (IF Inside(x) THEN {"nested"} ELSE {})
                \union (IF reset /\ slist[x] /\ easy[x] = "multi" THEN {"headers"} ELSE {})
<1>3. /\ UNCHANGED <<alive, held, curl_h, ownMulti, easy, resp, msglist, last>>
      /\ sent' = [sent EXCEPT ![x] = sent[x] /\ ~reset]
      /\ events' = [events EXCEPT ![x] = @ /\ ~reset]
      /\ hbuf' = [hbuf EXCEPT ![x] = hbuf[x] /\ ~reset]
      /\ headers' = [headers EXCEPT ![x] = IF reset THEN FreedHeaders(x, headers[x]) ELSE headers[x]]
      /\ slist' = [slist EXCEPT ![x] = @ /\ ~reset]
      /\ past' = [past EXCEPT ![x] = @ \union S]
      /\ async' = [async EXCEPT ![x] = a]
      /\ ready_state' = [ready_state EXCEPT ![x] = OPENED]
      /\ stack' = <<Emit(x, "readystatechange"), F("ret", x)>> \o stack
  BY <1>2, TypeFacts DEF Open, object, Remember, SentAfterOpen
<1>4. /\ stack' \in Seq(Frames) /\ stack' # <<>>
      /\ stack'[1] = Emit(x, "readystatechange") /\ stack'[2] = F("ret", x)
      /\ Stacked(stack') /\ InOrder(stack', NotNested)
      /\ \A k, y : k # "emit" => (Has(stack', k, y) <=> (k = "ret" /\ y = x) \/ Has(stack, k, y))
      /\ \A y : \A ev \in Ending : Due(stack', y, ev) <=> Due(stack, y, ev)
  <2>1. stack \in Seq(Frames) /\ Stacked(stack) /\ InOrder(stack, NotNested)
    BY <1>2, TypeFacts DEF Core
  <2>2. Quiet(stack) /\ (stack # <<>> => stack[1].k = "js")
    BY <1>1, WhenRunning
  <2>3. stack' = <<Emit(x, "readystatechange"), F("ret", x)>> \o stack
    BY <1>3
  <2> DEFINE t == <<Emit(x, "readystatechange"), F("ret", x)>> \o stack
  <2>4. /\ t \in Seq(Frames) /\ t # <<>>
        /\ t[1] = Emit(x, "readystatechange") /\ t[2] = F("ret", x)
        /\ Stacked(t)
        /\ \A X : InOrder(stack, X) => InOrder(t, X)
        /\ \A k, y : k # "emit" => (Has(t, k, y) <=> (k = "ret" /\ y = x) \/ Has(stack, k, y))
        /\ \A y : \A ev \in Ending : Due(t, y, ev) <=> Due(stack, y, ev)
    BY <2>1, <2>2, MethodPush
  <2> HIDE DEF t
  <2> QED BY <2>1, <2>3, <2>4 DEF t
<1>5. S \subseteq {"nested", "headers"}
  OBVIOUS
<1>6. /\ past' \in [Xhrs -> SUBSET Deeds]
      /\ past'[x] = past[x] \union S
      /\ \A y \in Xhrs : past[y] \subseteq past'[y] /\ (y # x => past'[y] = past[y])
  BY <1>2, <1>3, <1>5, TypeFacts, Remembered DEF Deeds
<1>7. /\ Inside(x) => "nested" \in past'[x]
      /\ reset /\ slist[x] /\ easy[x] = "multi" => "headers" \in past'[x]
      /\ \A e : e \notin {"nested", "headers"} => (e \in past'[x] <=> e \in past[x])
  BY <1>5, <1>6
<1> HIDE DEF S
<1>8. /\ (sent'[x] <=> sent[x] /\ ~reset) /\ (hbuf'[x] <=> hbuf[x] /\ ~reset) /\ async'[x] = a
      /\ headers'[x] = (IF reset THEN FreedHeaders(x, headers[x]) ELSE headers[x])
      /\ ready_state'[x] = OPENED
  BY <1>2, <1>3, TypeFacts
<1>9. \A y \in Xhrs : y # x =>
        /\ sent'[y] = sent[y] /\ hbuf'[y] = hbuf[y] /\ headers'[y] = headers[y]
        /\ async'[y] = async[y] /\ ready_state'[y] = ready_state[y]
  BY <1>2, <1>3, TypeFacts
<1>10. TypeOK'
  <2>1. /\ calls' \in [Xhrs -> Nat]
        /\ \E b \in Budgets : \A y \in Xhrs : calls'[y] <= b[y]
    BY <1>2, CallCounted DEF Open
  <2>2. /\ sent' \in [Xhrs -> BOOLEAN] /\ events' \in [Xhrs -> BOOLEAN]
        /\ hbuf' \in [Xhrs -> BOOLEAN] /\ slist' \in [Xhrs -> BOOLEAN]
        /\ async' \in [Xhrs -> BOOLEAN]
    BY <1>2, <1>3, TypeFacts
  <2>3. headers' \in [Xhrs -> {None, "live", "dangling"}]
    <3>1. (IF reset THEN FreedHeaders(x, headers[x]) ELSE headers[x]) \in {None, "live", "dangling"}
      BY <1>2, TypeFacts DEF FreedHeaders
    <3> QED BY <1>2, <1>3, <3>1, TypeFacts
  <2>4. ready_state' \in [Xhrs -> 0..4]
    BY <1>2, <1>3, TypeFacts DEF OPENED
  <2> QED BY <1>1, <1>2, <1>3, <1>4, <1>6, <2>1, <2>2, <2>3, <2>4, TypeFacts, TypeNext
<1>11. FaultCause' /\ NotNested' \subseteq NotNested
  BY <1>1, <1>2, <1>6, CauseKept, TypeFacts DEF None
<1>12. RequestInv(x)'
  <2>1. HandleInv(x) /\ DropInv(x) /\ HeadersInv(x) /\ SentInv(x) /\ UnderWay(x) /\ EventInv(x)
    BY <1>2 DEF RequestInv
  <2>2. ~Nested(x)' =>
          ~Nested(x) /\ \A k \in {"cb", "perform", "null", "sent"} : ~Has(stack, k, x)
    BY <1>6, <1>7, FrameSets DEF Nested
  <2>3. \A k \in {"cb", "perform", "null", "sent"} : Has(stack', k, x) <=> Has(stack, k, x)
    BY <1>4
  <2>4. HandleInv(x)'
    BY <1>1, <1>3, <1>4, <1>7, <2>1, <2>3 DEF HandleInv
  <2>5. DropInv(x)'
    BY <1>1, <1>3 DEF DropInv
  <2>6. HeadersInv(x)'
    <3>1. CASE reset /\ slist[x] /\ easy[x] = "multi"
      BY <1>7, <3>1 DEF HeadersInv
    <3>2. CASE ~(reset /\ slist[x]) /\ easy[x] = "multi"
      BY <1>3, <1>6, <1>8, <2>1, <2>3, <3>2 DEF HeadersInv, FreedHeaders
    <3>3. CASE easy[x] # "multi"
      BY <1>3, <1>6, <1>8, <2>1, <3>3 DEF HeadersInv, FreedHeaders, None
    <3> QED BY <3>1, <3>2, <3>3
  <2>7. SentInv(x)'
    <3>1. ~Nested(x)' => easy[x] # "own"
      BY <2>1, <2>2 DEF HandleInv
    <3>2. ~Nested(x)' /\ easy[x] = "multi" => sent'[x]
      BY <1>8, <2>1, <2>2 DEF SentInv
    <3> QED BY <1>3, <1>8, <2>2, <2>3, <3>1, <3>2 DEF SentInv, OPENED, DONE, UNSENT
  <2>8. UnderWay(x)'
    <3>1. sent'[x] => sent[x] /\ ready_state[x] < DONE
      BY <1>1, <1>8 DEF UNSENT, DONE
    <3> QED BY <1>3, <1>6, <2>1, <3>1 DEF UnderWay, Excused
  <2>9. EventInv(x)'
    <3> SUFFICES ASSUME ~Nested(x)' PROVE EventInv(x)'
      BY DEF EventInv
    <3>1. easy[x] # "own" /\ (easy[x] = "multi" => ~reset)
      BY <2>1, <2>2 DEF HandleInv, SentInv
    <3>2. Transfers(x)' => Transfers(x) /\ (hbuf'[x] <=> hbuf[x])
      BY <1>3, <1>8, <2>3, <3>1 DEF Transfers
    <3>3. easy[x] \in {"multi", "own"} /\ ~Has(stack, "null", x) => last'[x] <= 5
      BY <1>3, <2>1, <2>2 DEF EventInv
    <3>4. Transfers(x) => /\ resp'[x] = None /\ ~hbuf[x] => last'[x] <= 2
                          /\ resp'[x] # "body" => last'[x] <= 3
      BY <1>3, <2>1, <2>2 DEF EventInv
    <3>5. \A ev \in Ending : Due(stack', x, ev) => last'[x] <= EndPlace(ev)
      BY <1>3, <1>4, <2>1, <2>2 DEF EventInv
    <3> QED BY <1>3, <1>8, <2>3, <3>2, <3>3, <3>4, <3>5
            DEF EventInv, OPENED, LOADING, HEADERS_RECEIVED
  <2> QED BY <2>4, <2>5, <2>6, <2>7, <2>8, <2>9 DEF RequestInv
<1>13. ASSUME NEW y \in Xhrs, y # x
       PROVE  RequestInv(y)'
  <2>1. \A k \in {"js", "ret", "cb", "perform", "null", "sent"} : Has(stack', k, y) <=> Has(stack, k, y)
    BY <1>4, <1>13
  <2> QED BY <1>2, <1>3, <1>4, <1>6, <1>9, <1>13, <2>1, Unmoved
<1>14. TopInv'
  BY <1>4, <1>8, FrameTypes DEF TopInv, Top, Ready
<1>15. Stacked(stack)' /\ TopReturns(stack)' /\ InOrder(stack, NotNested)' /\ OneEach(msglist)'
  BY <1>2, <1>3, <1>4, <1>11, InOrderFewer, FrameTypes DEF Core, TopReturns
<1> QED BY <1>10, <1>11, <1>12, <1>13, <1>14, <1>15 DEF XhrInv, Core

\* A frame on the stack
LEMMA HasSome ==
  ASSUME NEW s, NEW k, NEW x, Has(s, k, x)
  PROVE  s # <<>>
BY DEF Has

\* curl_multi_remove_handle and curl_easy_cleanup of a handle
LEMMA CleanupFacts ==
  ASSUME TypeOK, OneEach(msglist), NEW x \in Xhrs, CleanupEasy(x)
  PROVE  /\ easy' \in [Xhrs -> {"idle", "multi", "own", "freed"}]
         /\ resp' \in [Xhrs -> {None, "head", "body"}]
         /\ msglist' \in Seq(Messages) /\ OneEach(msglist')
         /\ easy'[x] = "freed" /\ resp'[x] = None /\ ~Listed(msglist', x)
         /\ \A y \in Xhrs : y # x => /\ easy'[y] = easy[y] /\ resp'[y] = resp[y]
                                     /\ Listed(msglist', y) <=> Listed(msglist, y)
         /\ fault' = IF CleanupFault(x) THEN "easy" ELSE fault
<1>1. /\ easy' = [easy EXCEPT ![x] = "freed"] /\ resp' = [resp EXCEPT ![x] = None]
      /\ msglist' = Unlisted(x)
      /\ fault' = IF CleanupFault(x) THEN "easy" ELSE fault
  BY DEF CleanupEasy
<1>2. /\ easy \in [Xhrs -> {"idle", "multi", "own", "freed"}]
      /\ resp \in [Xhrs -> {None, "head", "body"}] /\ msglist \in Seq(Messages)
  BY TypeFacts
<1>3. /\ Unlisted(x) \in Seq(Messages) /\ OneEach(Unlisted(x)) /\ ~Listed(Unlisted(x), x)
      /\ \A y \in Xhrs : y # x => (Listed(Unlisted(x), y) <=> Listed(msglist, y))
  BY <1>2, UnlistedFacts
<1> QED BY <1>1, <1>2, <1>3

\* abort(): the handle is given up, and a request whose handle libcurl or C code
\* still uses is known.
LEMMA AbortStep ==
  ASSUME XhrInv, NEW x \in Xhrs, Abort(x)
  PROVE  XhrInv'
<1>1. Running /\ fault = None /\ held[x] /\ curl_h[x]
  BY DEF Abort, Callable, Running
<1>2. TypeOK /\ Core /\ \A y \in Xhrs : RequestInv(y)
  BY <1>1, Given DEF XhrInv
<1> DEFINE S == {"aborted"} \union
                (IF stack # <<>> /\ easy[x] # "idle" THEN {"abortInside"} ELSE {})
                \union (IF Inside(x) THEN {"nested"} ELSE {})
<1>3. /\ UNCHANGED <<alive, held, ownMulti, headers, slist, sent, async, events, hbuf, last>>
      /\ CleanupEasy(x)
      /\ curl_h' = [curl_h EXCEPT ![x] = FALSE]
      /\ ready_state' = [ready_state EXCEPT ![x] = UNSENT]
      /\ stack' = <<Emit(x, "abort"), F("ret", x)>> \o stack
      /\ past' = [past EXCEPT ![x] = @ \union S]
  BY DEF Abort, object, Remember, AbortEvents
<1>4. /\ stack' \in Seq(Frames) /\ stack' # <<>>
      /\ stack'[1] = Emit(x, "abort") /\ stack'[2] = F("ret", x)
      /\ Stacked(stack') /\ InOrder(stack', NotNested)
      /\ \A k, y : k # "emit" => (Has(stack', k, y) <=> (k = "ret" /\ y = x) \/ Has(stack, k, y))
      /\ \A y : \A ev \in Ending : Due(stack', y, ev) <=> Due(stack, y, ev)
  <2>1. stack \in Seq(Frames) /\ Stacked(stack) /\ InOrder(stack, NotNested)
    BY <1>2, TypeFacts DEF Core
  <2>2. Quiet(stack) /\ (stack # <<>> => stack[1].k = "js")
    BY <1>1, WhenRunning
  <2> DEFINE t == <<Emit(x, "abort"), F("ret", x)>> \o stack
  <2>3. stack' = t
    BY <1>3
  <2>4. /\ t \in Seq(Frames) /\ t # <<>>
        /\ t[1] = Emit(x, "abort") /\ t[2] = F("ret", x)
        /\ Stacked(t)
        /\ \A X : InOrder(stack, X) => InOrder(t, X)
        /\ \A k, y : k # "emit" => (Has(t, k, y) <=> (k = "ret" /\ y = x) \/ Has(stack, k, y))
        /\ \A y : \A ev \in Ending : Due(t, y, ev) <=> Due(stack, y, ev)
    BY <2>1, <2>2, MethodPush
  <2> HIDE DEF t
  <2> QED BY <2>1, <2>3, <2>4
<1>5. S \subseteq {"aborted", "abortInside", "nested"}
  OBVIOUS
<1>6. /\ past' \in [Xhrs -> SUBSET Deeds]
      /\ past'[x] = past[x] \union S
      /\ \A y \in Xhrs : past[y] \subseteq past'[y] /\ (y # x => past'[y] = past[y])
  BY <1>2, <1>3, <1>5, TypeFacts, Remembered DEF Deeds
<1>7. /\ "aborted" \in past'[x]
      /\ Inside(x) => "nested" \in past'[x]
      /\ stack # <<>> /\ easy[x] # "idle" => "abortInside" \in past'[x]
  BY <1>6
<1> HIDE DEF S
<1>8. /\ easy' \in [Xhrs -> {"idle", "multi", "own", "freed"}]
      /\ resp' \in [Xhrs -> {None, "head", "body"}]
      /\ msglist' \in Seq(Messages) /\ OneEach(msglist')
      /\ easy'[x] = "freed" /\ resp'[x] = None /\ ~Listed(msglist', x)
      /\ \A y \in Xhrs : y # x => /\ easy'[y] = easy[y] /\ resp'[y] = resp[y]
                                  /\ Listed(msglist', y) <=> Listed(msglist, y)
      /\ fault' = IF CleanupFault(x) THEN "easy" ELSE None
  BY <1>1, <1>2, <1>3, CleanupFacts DEF Core
<1>9. /\ curl_h'[x] = FALSE /\ ready_state'[x] = UNSENT
      /\ \A y \in Xhrs : y # x => curl_h'[y] = curl_h[y] /\ ready_state'[y] = ready_state[y]
  BY <1>2, <1>3, TypeFacts
<1>10. TypeOK'
  <2>1. /\ calls' \in [Xhrs -> Nat]
        /\ \E b \in Budgets : \A y \in Xhrs : calls'[y] <= b[y]
    BY <1>2, CallCounted DEF Abort
  <2>2. /\ curl_h' \in [Xhrs -> BOOLEAN] /\ ready_state' \in [Xhrs -> 0..4]
    BY <1>2, <1>3, TypeFacts DEF UNSENT
  <2> QED BY <1>2, <1>3, <1>4, <1>6, <1>8, <2>1, <2>2, TypeFacts, TypeNext
<1>11. HandleInv(x) /\ EventInv(x)
  BY <1>2 DEF RequestInv
<1>12. CleanupFault(x) => "abortInside" \in past'[x]
  <2> SUFFICES ASSUME CleanupFault(x) PROVE stack # <<>> /\ easy[x] # "idle"
    BY <1>7
  <2>1. easy[x] # "freed"
    BY <1>1, <1>11 DEF HandleInv
  <2>2. CASE easy[x] = "multi" /\ InCallback
    BY <2>2 DEF InCallback
  <2>3. CASE easy[x] = "own"
    BY <1>11, <2>3, HasSome DEF HandleInv
  <2>4. CASE OnStack(x, {"cb"})
    <3>1. Has(stack, "cb", x)
      BY <2>4, FrameSets
    <3> QED BY <1>11, <3>1, HasSome DEF HandleInv
  <2> QED BY <2>1, <2>2, <2>3, <2>4 DEF CleanupFault
<1>13. FaultCause' /\ NotNested' \subseteq NotNested
  <2>1. fault' \in {None, "easy"}
    BY <1>8
  <2>2. fault' = "easy" => \E y \in Xhrs : past'[y] \intersect {"abortInside", "dropped"} # {}
    BY <1>8, <1>12 DEF None
  <2> QED BY <1>2, <1>6, <2>1, <2>2, CauseKept, TypeFacts DEF None
<1>14. ASSUME fault' = None
       PROVE  RequestInv(x)'
  <2>1. ~CleanupFault(x)
    BY <1>8, <1>14 DEF None
  <2>2. ~Has(stack', "perform", x) /\ ~Has(stack', "cb", x)
    <3>1. ~Has(stack, "cb", x)
      BY <2>1, FrameSets DEF CleanupFault
    <3>2. ~Has(stack, "perform", x)
      BY <1>11, <2>1 DEF CleanupFault, HandleInv
    <3> QED BY <1>4, <3>1, <3>2
  <2>3. Has(stack', "null", x) => "abortInside" \in past'[x]
    <3> SUFFICES ASSUME Has(stack, "null", x) PROVE "abortInside" \in past'[x]
      BY <1>4
    <3>1. easy[x] = "multi"
      BY <1>1, <1>11 DEF HandleInv
    <3> QED BY <1>7, <3>1, HasSome
  <2>4. HandleInv(x)'
    BY <1>1, <1>3, <1>7, <1>8, <1>9, <1>11, <2>2, <2>3 DEF HandleInv
  <2>5. DropInv(x)' /\ HeadersInv(x)'
    BY <1>1, <1>3, <1>8 DEF DropInv, HeadersInv
  <2>6. SentInv(x)'
    <3>1. Has(stack', "sent", x) => Nested(x)'
      BY <1>4, <1>7, FrameSets DEF Nested
    <3> QED BY <1>8, <1>9, <3>1 DEF SentInv, UNSENT, DONE
  <2>7. UnderWay(x)'
    BY <1>7 DEF UnderWay, Excused
  <2>8. EventInv(x)'
    <3>1. Nested(x) => Nested(x)'
      BY <1>6 DEF Nested
    <3> QED BY <1>3, <1>4, <1>8, <1>11, <3>1 DEF EventInv, Transfers
  <2> QED BY <2>4, <2>5, <2>6, <2>7, <2>8 DEF RequestInv
<1>15. ASSUME NEW y \in Xhrs, y # x
       PROVE  RequestInv(y)'
  <2>1. \A k \in {"js", "ret", "cb", "perform", "null", "sent"} : Has(stack', k, y) <=> Has(stack, k, y)
    BY <1>4, <1>15
  <2> QED BY <1>2, <1>3, <1>4, <1>6, <1>8, <1>9, <1>15, <2>1, Unmoved
<1>16. TopInv'
  <2>1. ~Nested(x)' => ~Has(stack', "null", x) /\ ~Has(stack', "sent", x)
    BY <1>4, <1>7, FrameSets DEF Nested
  <2> QED BY <1>4, <1>8, <2>1, FrameTypes DEF TopInv, Top, Ready
<1>17. Stacked(stack)' /\ TopReturns(stack)' /\ InOrder(stack, NotNested)' /\ OneEach(msglist)'
  BY <1>4, <1>8, <1>13, InOrderFewer, FrameTypes DEF TopReturns
<1> QED BY <1>10, <1>13, <1>14, <1>15, <1>16, <1>17 DEF XhrInv, Core

\* curl_easy_perform is entered, in a handler or from the loop.
LEMMA PerformPush ==
  ASSUME NEW s \in Seq(Frames), Stacked(s), Quiet(s), s # <<>> => s[1].k = "js",
         NEW x \in Xhrs, ~Has(s, "perform", x), ~Has(s, "cb", x)
  PROVE  LET t == <<F("perform", x)>> \o s IN
         /\ t \in Seq(Frames) /\ t # <<>> /\ t[1] = F("perform", x)
         /\ Stacked(t)
         /\ \A X : InOrder(s, X) => InOrder(t, X)
         /\ \A k, y : Has(t, k, y) <=> (k = "perform" /\ y = x) \/ Has(s, k, y)
         /\ \A y, ev : Due(t, y, ev) <=> Due(s, y, ev)
<1> DEFINE g == F("perform", x)
           t == <<g>> \o s
<1>1. /\ g \in Frames /\ g.k = "perform" /\ g.x = x
      /\ \A y, ev : g # Emit(y, ev)
  BY FrameTypes DEF Calling
<1> HIDE DEF g
<1>2. ~IsEnding(g)
  BY <1>1 DEF IsEnding
<1>3. s # <<>> => Follows(g, s[1])
  BY <1>1 DEF Follows
<1>4. Stacked(t)
  BY <1>1, <1>2, <1>3, StackedPush DEF Outermost
<1>5. t \in Seq(Frames) /\ t # <<>> /\ t[1] = g
  BY <1>1, PushShape
<1>6. \A X : InOrder(s, X) => InOrder(t, X)
  BY <1>1, <1>2, InOrderPush
<1>7. /\ \A k, y : Has(t, k, y) <=> (k = "perform" /\ y = x) \/ Has(s, k, y)
      /\ \A y, ev : Due(t, y, ev) <=> Due(s, y, ev)
  BY <1>1, PushHas, PushDue
<1> HIDE DEF t
<1>8. /\ t \in Seq(Frames) /\ t # <<>> /\ t[1] = F("perform", x)
      /\ Stacked(t)
      /\ \A X : InOrder(s, X) => InOrder(t, X)
      /\ \A k, y : Has(t, k, y) <=> (k = "perform" /\ y = x) \/ Has(s, k, y)
      /\ \A y, ev : Due(t, y, ev) <=> Due(s, y, ev)
  BY <1>4, <1>5, <1>6, <1>7 DEF g
<1> QED BY <1>8 DEF t, g

\* send() of a synchronous request that curl_easy_perform takes
LEMMA SendSyncPerforms ==
  ASSUME XhrInv, NEW x \in Xhrs, SendSync(x), CanPerform(x)
  PROVE  XhrInv'
<1>1. /\ Running /\ fault = None /\ held[x] /\ ~sent[x] /\ ~async[x]
      /\ curl_h[x] /\ easy[x] = "idle"
  BY DEF SendSync, Callable, Running, CanPerform
<1>2. TypeOK /\ Core /\ \A y \in Xhrs : RequestInv(y)
  BY <1>1, Given DEF XhrInv
<1> DEFINE S == (IF slist[x] THEN {"headers"} ELSE {}) \union (IF Inside(x) THEN {"nested"} ELSE {})
           h == SentHeaders(x)
<1>3. /\ UNCHANGED <<alive, held, curl_h, sent, async, events, hbuf, resp, msglist,
                     slist, ready_state>>
      /\ easy' = [easy EXCEPT ![x] = "own"]
      /\ ownMulti' = [ownMulti EXCEPT ![x] = TRUE]
      /\ headers' = [headers EXCEPT ![x] = h]
      /\ last' = [last EXCEPT ![x] = 0]
      /\ past' = [past EXCEPT ![x] = @ \union S]
      /\ fault' = IF h = "dangling" THEN "headers" ELSE fault
  BY DEF SendSync, Remember
<1>4. HandleInv(x) /\ DropInv(x) /\ HeadersInv(x) /\ SentInv(x) /\ UnderWay(x) /\ EventInv(x)
  BY <1>2 DEF RequestInv
<1>5. /\ stack' \in Seq(Frames) /\ stack' # <<>> /\ stack'[1] = F("perform", x)
      /\ Stacked(stack') /\ InOrder(stack', NotNested)
      /\ \A k, y : Has(stack', k, y) <=> (k = "perform" /\ y = x) \/ Has(stack, k, y)
      /\ \A y, ev : Due(stack', y, ev) <=> Due(stack, y, ev)
  <2>1. stack \in Seq(Frames) /\ Stacked(stack) /\ InOrder(stack, NotNested)
    BY <1>2, TypeFacts DEF Core
  <2>2. Quiet(stack) /\ (stack # <<>> => stack[1].k = "js")
    BY <1>1, WhenRunning
  <2>3. ~Has(stack, "perform", x) /\ ~Has(stack, "cb", x)
    BY <1>1, <1>4 DEF HandleInv
  <2> DEFINE t == <<F("perform", x)>> \o stack
  <2>4. stack' = t
    BY DEF SendSync
  <2>5. /\ t \in Seq(Frames) /\ t # <<>> /\ t[1] = F("perform", x)
        /\ Stacked(t)
        /\ \A X : InOrder(stack, X) => InOrder(t, X)
        /\ \A k, y : Has(t, k, y) <=> (k = "perform" /\ y = x) \/ Has(stack, k, y)
        /\ \A y, ev : Due(t, y, ev) <=> Due(stack, y, ev)
    BY <2>1, <2>2, <2>3, PerformPush
  <2> HIDE DEF t
  <2> QED BY <2>1, <2>4, <2>5
<1>6. S \subseteq {"headers", "nested"} /\ h \in {None, "live", "dangling"}
  BY <1>2, TypeFacts DEF SentHeaders
<1>7. /\ past' \in [Xhrs -> SUBSET Deeds]
      /\ past'[x] = past[x] \union S
      /\ \A y \in Xhrs : past[y] \subseteq past'[y] /\ (y # x => past'[y] = past[y])
  BY <1>2, <1>3, <1>6, TypeFacts, Remembered DEF Deeds
<1>8. /\ Inside(x) => "nested" \in past'[x]
      /\ slist[x] => "headers" \in past'[x]
  BY <1>7
<1>9. ~slist[x] => h = headers[x]
  BY DEF SentHeaders
<1>10. h = "dangling" => headers[x] = "dangling"
  BY DEF SentHeaders
<1> HIDE DEF S, h
<1>11. /\ easy'[x] = "own" /\ headers'[x] = h /\ last'[x] = 0
       /\ \A y \in Xhrs : y # x => /\ easy'[y] = easy[y] /\ headers'[y] = headers[y]
                                   /\ last'[y] = last[y]
  BY <1>2, <1>3, TypeFacts
<1>12. TypeOK'
  <2>1. /\ calls' \in [Xhrs -> Nat]
        /\ \E b \in Budgets : \A y \in Xhrs : calls'[y] <= b[y]
    BY <1>2, CallCounted DEF SendSync
  <2>2. /\ ownMulti' \in [Xhrs -> BOOLEAN]
        /\ easy' \in [Xhrs -> {"idle", "multi", "own", "freed"}]
        /\ headers' \in [Xhrs -> {None, "live", "dangling"}]
        /\ last' \in [Xhrs -> 0..10]
    BY <1>2, <1>3, <1>6, TypeFacts
  <2>3. fault' \in {None, "easy", "object", "headers", "check"}
    BY <1>1, <1>3
  <2> QED BY <1>2, <1>3, <1>5, <1>7, <2>1, <2>2, <2>3, TypeFacts, TypeNext
<1>13. FaultCause' /\ NotNested' \subseteq NotNested
  <2>1. fault' \in {None, "headers"}
    BY <1>1, <1>3
  <2>2. fault' = "headers" => "headers" \in past[x]
    BY <1>1, <1>3, <1>4, <1>10 DEF HeadersInv, None
  <2>3. fault' = "headers" => \E y \in Xhrs : past'[y] \intersect {"headers"} # {}
    BY <1>7, <2>2
  <2> QED BY <1>2, <1>7, <2>1, <2>3, CauseKept, TypeFacts DEF None
<1>14. RequestInv(x)'
  <2>1. ~Nested(x)' =>
          ~Nested(x) /\ \A k \in {"cb", "perform", "null", "sent"} : ~Has(stack, k, x)
    BY <1>7, <1>8, FrameSets DEF Nested
  <2>2. HandleInv(x)'
    BY <1>1, <1>3, <1>4, <1>5, <1>7, <1>11 DEF HandleInv
  <2>3. DropInv(x)'
    BY <1>1, <1>3 DEF DropInv
  <2>4. HeadersInv(x)'
    BY <1>1, <1>4, <1>7, <1>8, <1>9, <1>11 DEF HeadersInv
  <2>5. SentInv(x)' /\ UnderWay(x)'
    BY <1>1, <1>3, <1>4, <1>5, <1>11, <2>1 DEF SentInv, UnderWay
  <2>6. EventInv(x)'
    <3>1. \A ev \in Ending : 0 <= EndPlace(ev)
      BY DEF EndPlace
    <3>2. ready_state'[x] # LOADING
      BY <1>1, <1>3, <1>4 DEF SentInv, UNSENT, OPENED, DONE, LOADING
    <3> QED BY <1>11, <3>1, <3>2 DEF EventInv
  <2> QED BY <2>2, <2>3, <2>4, <2>5, <2>6 DEF RequestInv
<1>15. ASSUME NEW y \in Xhrs, y # x
       PROVE  RequestInv(y)'
  <2>1. \A k \in {"js", "ret", "cb", "perform", "null", "sent"} : Has(stack', k, y) <=> Has(stack, k, y)
    BY <1>5, <1>15
  <2> QED BY <1>2, <1>3, <1>5, <1>7, <1>11, <1>15, <2>1, Unmoved
<1>16. TopInv'
  BY <1>5, FrameTypes, NoEventNext
<1>17. Stacked(stack)' /\ TopReturns(stack)' /\ InOrder(stack, NotNested)' /\ OneEach(msglist)'
  BY <1>2, <1>3, <1>5, <1>13, InOrderFewer, FrameTypes DEF Core, TopReturns
<1> QED BY <1>12, <1>13, <1>14, <1>15, <1>16, <1>17 DEF XhrInv, Core

\* send() of a synchronous request that curl_easy_perform refuses: curlDoneCb
\* reports the error.
LEMMA SendSyncFails ==
  ASSUME XhrInv, NEW x \in Xhrs, SendSync(x), ~CanPerform(x)
  PROVE  XhrInv'
<1>1. Running /\ fault = None /\ fault' = None /\ held[x] /\ ~sent[x] /\ ~async[x]
  BY DEF SendSync, Callable, Running, CanPerform
<1>2. TypeOK /\ Core /\ \A y \in Xhrs : RequestInv(y)
  BY <1>1, Given DEF XhrInv
<1> DEFINE S == (IF slist[x] THEN {"headers"} ELSE {}) \union (IF Inside(x) THEN {"nested"} ELSE {})
           h == FreedHeaders(x, SentHeaders(x))
<1>3. /\ UNCHANGED <<alive, held, curl_h, sent, async, events, hbuf, resp, msglist,
                     easy, ownMulti, fault>>
      /\ slist' = [slist EXCEPT ![x] = FALSE]
      /\ ready_state' = [ready_state EXCEPT ![x] = DONE]
      /\ headers' = [headers EXCEPT ![x] = h]
      /\ last' = [last EXCEPT ![x] = 0]
      /\ past' = [past EXCEPT ![x] = @ \union S]
  BY DEF SendSync, Remember
<1>4. HandleInv(x) /\ DropInv(x) /\ HeadersInv(x) /\ SentInv(x) /\ UnderWay(x) /\ EventInv(x)
  BY <1>2 DEF RequestInv
<1>5. S \subseteq {"headers", "nested"} /\ h \in {None, "live", "dangling"}
  BY <1>2, TypeFacts DEF SentHeaders, FreedHeaders
<1>6. /\ past' \in [Xhrs -> SUBSET Deeds]
      /\ past'[x] = past[x] \union S
      /\ \A y \in Xhrs : past[y] \subseteq past'[y] /\ (y # x => past'[y] = past[y])
  BY <1>2, <1>3, <1>5, TypeFacts, Remembered DEF Deeds
<1>7. /\ Inside(x) => "nested" \in past'[x]
      /\ slist[x] => "headers" \in past'[x]
  BY <1>6
<1>8. ~slist[x] => h = headers[x]
  BY DEF SentHeaders, FreedHeaders
<1> HIDE DEF S, h
<1>9. ~Nested(x)' =>
        ~Nested(x) /\ \A k \in {"cb", "perform", "null", "sent"} : ~Has(stack, k, x)
  BY <1>6, <1>7, FrameSets DEF Nested
<1>10. FaultCause' /\ NotNested' \subseteq NotNested
  BY <1>1, <1>2, <1>6, CauseKept, TypeFacts DEF None
<1>11. /\ stack' \in Seq(Frames) /\ stack' # <<>>
       /\ stack'[1] = Emit(x, "readystatechange") /\ stack'[2].k = "emit"
       /\ Stacked(stack') /\ InOrder(stack', NotNested')
       /\ \A k, y : k # "emit" => (Has(stack', k, y) <=> (k = "sent" /\ y = x) \/ Has(stack, k, y))
       /\ \A y, ev : y # x => (Due(stack', y, ev) <=> Due(stack, y, ev))
  <2>1. stack \in Seq(Frames) /\ Stacked(stack) /\ InOrder(stack, NotNested')
    BY <1>2, <1>10, TypeFacts, InOrderFewer DEF Core
  <2>2. Quiet(stack) /\ (stack # <<>> => stack[1].k = "js")
    BY <1>1, WhenRunning
  <2>3. stack # <<>> => Follows(F("sent", x), stack[1])
    BY <2>2, FrameTypes DEF Follows
  <2>4. x \in NotNested' => \A ev \in Ending : ~Due(stack, x, ev)
    BY <1>9, <2>1, DueEnds DEF NotNested
  <2> DEFINE t == DoneEvents(x, "error") \o <<F("sent", x)>> \o stack
  <2>5. stack' = t
    BY DEF SendSync
  <2>6. /\ t \in Seq(Frames) /\ t # <<>>
        /\ t[1] = Emit(x, "readystatechange") /\ t[2].k = "emit"
        /\ Stacked(t) /\ InOrder(t, NotNested')
        /\ \A kk, y : kk # "emit" => (Has(t, kk, y) <=> (kk = "sent" /\ y = x) \/ Has(stack, kk, y))
        /\ \A y, ev : y # x => (Due(t, y, ev) <=> Due(stack, y, ev))
    BY <2>1, <2>2, <2>3, <2>4, DonePush DEF Results
  <2> HIDE DEF t
  <2> QED BY <2>5, <2>6
<1>12. /\ ready_state'[x] = DONE /\ headers'[x] = h /\ last'[x] = 0
       /\ \A y \in Xhrs : y # x => /\ ready_state'[y] = ready_state[y] /\ last'[y] = last[y]
                                   /\ headers'[y] = headers[y]
  BY <1>2, <1>3, TypeFacts
<1>13. TypeOK'
  <2>1. /\ calls' \in [Xhrs -> Nat]
        /\ \E b \in Budgets : \A y \in Xhrs : calls'[y] <= b[y]
    BY <1>2, CallCounted DEF SendSync
  <2>2. /\ slist' \in [Xhrs -> BOOLEAN] /\ ready_state' \in [Xhrs -> 0..4]
        /\ headers' \in [Xhrs -> {None, "live", "dangling"}] /\ last' \in [Xhrs -> 0..10]
    BY <1>2, <1>3, <1>5, TypeFacts DEF DONE
  <2> QED BY <1>1, <1>2, <1>3, <1>6, <1>11, <2>1, <2>2, TypeFacts, TypeNext
<1>14. RequestInv(x)'
  <2>1. HandleInv(x)'
    BY <1>1, <1>3, <1>4, <1>6, <1>11 DEF HandleInv
  <2>2. DropInv(x)'
    BY <1>1, <1>3 DEF DropInv
  <2>3. HeadersInv(x)'
    BY <1>3, <1>4, <1>6, <1>7, <1>8, <1>11, <1>12 DEF HeadersInv
  <2>4. ~Nested(x)' => easy[x] \in {"idle", "freed"}
    <3>1. easy[x] \in {"idle", "multi", "own", "freed"}
      BY <1>2, TypeFacts
    <3> QED BY <1>1, <1>4, <1>9, <3>1 DEF HandleInv, SentInv
  <2>5. SentInv(x)' /\ UnderWay(x)'
    BY <1>1, <1>3, <1>11, <1>12, <2>4 DEF SentInv, UnderWay, DONE
  <2>6. EventInv(x)'
    <3>1. \A ev \in Ending : 0 <= EndPlace(ev)
      BY DEF EndPlace
    <3> QED BY <1>12, <3>1 DEF EventInv, DONE, LOADING
  <2> QED BY <2>1, <2>2, <2>3, <2>5, <2>6 DEF RequestInv
<1>15. ASSUME NEW y \in Xhrs, y # x
       PROVE  RequestInv(y)'
  <2>1. \A k \in {"js", "ret", "cb", "perform", "null", "sent"} : Has(stack', k, y) <=> Has(stack, k, y)
    BY <1>11, <1>15
  <2> QED BY <1>2, <1>3, <1>6, <1>11, <1>12, <1>15, <2>1, Unmoved
<1>16. TopInv'
  BY <1>11, <1>12, FrameTypes DEF TopInv, Top, Ready
<1>17. Stacked(stack)' /\ TopReturns(stack)' /\ InOrder(stack, NotNested)' /\ OneEach(msglist)'
  BY <1>2, <1>3, <1>11, FrameTypes DEF Core, TopReturns
<1> QED BY <1>10, <1>13, <1>14, <1>15, <1>16, <1>17 DEF XhrInv, Core

-----------------------------------------------------------------------------
(***************************************************************************)
(* The finalizer                                                           *)
(***************************************************************************)

\* ijXhrFinalizer of a request that no method and no handler has on the stack: it
\* frees a handle that is in use only when the request was lost under way.
LEMMA Finalized ==
  ASSUME XhrInv, fault = None, NEW x \in Xhrs, alive[x], ~held[x], Finalizer(x),
         UNCHANGED <<request, last, past>>,
         \A k \in {"js", "perform", "sent", "ret"} : ~Has(stack', k, x),
         \A k \in {"cb", "perform", "null", "sent"} : Has(stack', k, x) <=> Has(stack, k, x),
         \A ev \in Ending : Due(stack', x, ev) => Due(stack, x, ev)
  PROVE  /\ alive' \in [Xhrs -> BOOLEAN]
         /\ easy' \in [Xhrs -> {"idle", "multi", "own", "freed"}]
         /\ resp' \in [Xhrs -> {None, "head", "body"}]
         /\ msglist' \in Seq(Messages) /\ OneEach(msglist')
         /\ easy'[x] \in {"idle", "freed"}
         /\ \A y \in Xhrs : y # x => /\ alive'[y] = alive[y]
                                     /\ easy'[y] = easy[y] /\ resp'[y] = resp[y]
                                     /\ Listed(msglist', y) <=> Listed(msglist, y)
         /\ fault' \in {None, "easy"}
         /\ fault' = "easy" => "dropped" \in past[x]
         /\ fault' = None => RequestInv(x)'
<1>1. TypeOK /\ OneEach(msglist) /\ RequestInv(x)
  BY Given
<1>2. HandleInv(x) /\ DropInv(x) /\ HeadersInv(x) /\ SentInv(x) /\ UnderWay(x) /\ EventInv(x)
  BY <1>1 DEF RequestInv
<1>3. /\ alive' = [alive EXCEPT ![x] = FALSE] /\ held' = held /\ curl_h' = curl_h
      /\ headers' = headers /\ sent' = sent /\ async' = async /\ ready_state' = ready_state
      /\ hbuf' = hbuf /\ last' = last /\ past' = past
  BY DEF Finalizer, request
<1>4. /\ alive' \in [Xhrs -> BOOLEAN] /\ alive'[x] = FALSE
      /\ \A y \in Xhrs : y # x => alive'[y] = alive[y]
  BY <1>1, <1>3, TypeFacts
<1>5. ~Has(stack, "perform", x) /\ ~Has(stack, "sent", x)
  OBVIOUS
<1>6. easy[x] # "own" /\ (curl_h[x] => easy[x] # "freed")
  BY <1>2, <1>5 DEF HandleInv
<1>7. easy[x] \in {"idle", "multi", "own", "freed"}
  BY <1>1, TypeFacts
<1>8. CASE ~curl_h[x]
  <2>1. easy' = easy /\ resp' = resp /\ msglist' = msglist /\ fault' = fault
    BY <1>8 DEF Finalizer, FinalizerCleans
  <2>2. easy[x] \in {"idle", "freed"} /\ ~Listed(msglist, x)
    BY <1>2, <1>6, <1>7, <1>8 DEF HandleInv
  <2>3. HandleInv(x)'
    BY <1>2, <1>3, <1>4, <2>1, <2>2 DEF HandleInv
  <2>4. DropInv(x)'
    BY <1>2, <1>3, <2>1 DEF DropInv
  <2>5. HeadersInv(x)'
    BY <1>2, <1>3, <2>1, <2>2 DEF HeadersInv
  <2>6. SentInv(x)'
    BY <1>2, <1>3, <2>1 DEF SentInv, Nested
  <2>7. UnderWay(x)'
    BY <1>4 DEF UnderWay
  <2>8. EventInv(x)'
    BY <1>2, <1>3, <2>1, <2>2 DEF EventInv, Nested, Transfers
  <2>9. RequestInv(x)'
    BY <2>3, <2>4, <2>5, <2>6, <2>7, <2>8 DEF RequestInv
  <2> QED BY <1>1, <1>4, <2>1, <2>2, <2>9, TypeFacts DEF None
<1>9. CASE curl_h[x]
  <2>1. CleanupEasy(x)
    BY <1>9 DEF Finalizer, FinalizerCleans
  <2>2. /\ easy' \in [Xhrs -> {"idle", "multi", "own", "freed"}]
        /\ resp' \in [Xhrs -> {None, "head", "body"}]
        /\ msglist' \in Seq(Messages) /\ OneEach(msglist')
        /\ easy'[x] = "freed" /\ resp'[x] = None /\ ~Listed(msglist', x)
        /\ \A y \in Xhrs : y # x => /\ easy'[y] = easy[y] /\ resp'[y] = resp[y]
                                    /\ Listed(msglist', y) <=> Listed(msglist, y)
        /\ fault' = IF CleanupFault(x) THEN "easy" ELSE None
    BY <1>1, <2>1, CleanupFacts
  <2>3. CleanupFault(x) => "dropped" \in past[x]
    <3>1. easy[x] = "multi" \/ Has(stack, "cb", x) => "dropped" \in past[x]
      BY <1>2 DEF DropInv
    <3>2. OnStack(x, {"cb"}) <=> Has(stack, "cb", x)
      BY FrameSets
    <3> QED BY <1>6, <1>9, <3>1, <3>2 DEF CleanupFault
  <2>4. ASSUME fault' = None
        PROVE  RequestInv(x)'
    <3>1. ~CleanupFault(x)
      BY <2>2, <2>4 DEF None
    <3>2. ~Has(stack, "cb", x)
      BY <3>1, FrameSets DEF CleanupFault
    <3>3. HandleInv(x)'
      <4>1. Has(stack', "null", x) => "dropped" \in past[x]
        BY <1>2 DEF DropInv
      <4> QED BY <1>2, <1>3, <1>4, <2>2, <3>2, <4>1 DEF HandleInv
    <3>4. DropInv(x)'
      BY <1>2, <1>3, <2>2 DEF DropInv
    <3>5. HeadersInv(x)' /\ UnderWay(x)'
      BY <1>4, <2>2 DEF HeadersInv, UnderWay
    <3>6. SentInv(x)'
      BY <1>2, <1>3, <2>2 DEF SentInv, Nested
    <3>7. EventInv(x)'
      BY <1>2, <1>3, <2>2 DEF EventInv, Nested, Transfers
    <3> QED BY <3>3, <3>4, <3>5, <3>6, <3>7 DEF RequestInv
  <2> QED BY <1>4, <2>2, <2>3, <2>4 DEF None
<1> QED BY <1>8, <1>9

\* The collector, which runs where the program runs and in curlmProcessCb
LEMMA CollectStep ==
  ASSUME XhrInv, NEW x \in Xhrs, Collect(x)
  PROVE  XhrInv'
<1>1. fault = None /\ alive[x] /\ ~Kept(x) /\ Finalizer(x) /\ (Running \/ Top("alloc"))
  BY DEF Collect, Running
<1>2. TypeOK /\ Core /\ \A y \in Xhrs : RequestInv(y)
  BY <1>1, Given DEF XhrInv
<1>3. /\ UNCHANGED <<held, curl_h, ownMulti, headers, slist, sent, async, ready_state, events,
                     hbuf, stack, last, past, calls>>
      /\ UNCHANGED <<request, last, past>>
  BY DEF Collect, Finalizer, request
<1>4. ~held[x] /\ \A k \in {"js", "perform", "sent", "ret"} : ~Has(stack', k, x)
  BY <1>1, <1>3, FrameSets
<1>5. /\ alive' \in [Xhrs -> BOOLEAN]
      /\ easy' \in [Xhrs -> {"idle", "multi", "own", "freed"}]
      /\ resp' \in [Xhrs -> {None, "head", "body"}]
      /\ msglist' \in Seq(Messages) /\ OneEach(msglist')
      /\ easy'[x] \in {"idle", "freed"}
      /\ \A y \in Xhrs : y # x => /\ alive'[y] = alive[y]
                                  /\ easy'[y] = easy[y] /\ resp'[y] = resp[y]
                                  /\ Listed(msglist', y) <=> Listed(msglist, y)
      /\ fault' \in {None, "easy"}
      /\ fault' = "easy" => "dropped" \in past[x]
      /\ fault' = None => RequestInv(x)'
  BY <1>1, <1>3, <1>4, Finalized
<1>6. TypeOK'
  <2>1. /\ calls' \in [Xhrs -> Nat] /\ \E b \in Budgets : \A y \in Xhrs : calls'[y] <= b[y]
    BY <1>2, <1>3 DEF TypeOK
  <2> QED BY <1>2, <1>3, <1>5, <2>1, TypeFacts, TypeNext
<1>7. FaultCause' /\ NotNested' \subseteq NotNested
  <2>1. fault' = "easy" => \E y \in Xhrs : past'[y] \intersect {"abortInside", "dropped"} # {}
    BY <1>3, <1>5
  <2> QED BY <1>2, <1>3, <1>5, <2>1, CauseKept, TypeFacts DEF None
<1>8. ASSUME NEW y \in Xhrs, y # x
      PROVE  RequestInv(y)'
  BY <1>2, <1>3, <1>5, <1>8, Unmoved
<1>9. TopInv'
  <2>1. CASE Running
    BY <1>3, <2>1, WhenRunning, NoEventNext
  <2>2. CASE Top("alloc")
    <3>1. PICK z \in Xhrs : stack # <<>> /\ stack[1].k = "alloc" /\ stack[1].x = z
      <4>1. stack # <<>> /\ stack[1].k = "alloc"
        BY <2>2 DEF Top
      <4>2. stack[1] \in Frames
        BY <1>2, <4>1, TypeFacts, StackShape
      <4> QED BY <4>1, <4>2, FrameTypes DEF Calling
    <3>2. ASSUME ~Nested(z)'
          PROVE  Ready(z, "progress", stack[2])'
      <4>1. ~Nested(z)
        BY <1>3, <3>2 DEF Nested
      <4>2. Ready(z, "progress", stack[2])
        BY <1>2, <2>2, <3>1, <4>1 DEF Core, TopInv
      <4>3. last[z] <= 5 /\ (Transfers(z) => ready_state[z] = LOADING /\ resp[z] = "body")
        BY <4>2 DEF Ready
      <4>4. Transfers(z)' => Transfers(z) /\ z # x
        BY <1>3, <1>5, <3>1 DEF Transfers
      <4>5. last'[z] <= 5 /\ (Transfers(z)' => ready_state'[z] = LOADING /\ resp'[z] = "body")
        BY <1>3, <1>5, <3>1, <4>3, <4>4
      <4> QED BY <4>5 DEF Ready
    <3> QED BY <1>3, <3>1, <3>2 DEF TopInv, Top
  <2> QED BY <1>1, <2>1, <2>2
<1>10. Stacked(stack)' /\ TopReturns(stack)' /\ InOrder(stack, NotNested)' /\ OneEach(msglist)'
  BY <1>2, <1>3, <1>5, <1>7, InOrderFewer DEF Core
<1> QED BY <1>5, <1>6, <1>7, <1>8, <1>9, <1>10 DEF XhrInv, Core

\* The handler returns.
LEMMA ReturnStep ==
  ASSUME XhrInv, Return
  PROVE  XhrInv'
<1>1. fault = None /\ stack # <<>> /\ stack[1].k = "js" /\ stack' = Left
  BY DEF Return, Top
<1>2. TypeOK /\ Core /\ \A y \in Xhrs : RequestInv(y)
  BY <1>1, Given DEF XhrInv
<1>3. stack \in Seq(Frames) /\ Stacked(stack) /\ stack[1] \in Frames
  BY <1>1, <1>2, TypeFacts, StackShape DEF Core
<1>4. PICK x \in Xhrs : stack[1].x = x /\ Has(stack, "js", x) /\ alive[x]
  <2>1. stack[1].x \in Xhrs
    BY <1>1, <1>3, FrameTypes DEF Calling
  <2>2. Has(stack, "js", stack[1].x)
    BY <1>1, <1>3, TailFrames
  <2> QED BY <1>2, <2>1, <2>2 DEF RequestInv, HandleInv
<1> DEFINE Lost == /\ ~held[x] /\ ~events[x]
                   /\ \A i \in 2..Len(stack) :
                        ~(stack[i].x = x /\ stack[i].k \in {"js", "perform", "sent", "ret"})
<1>5. /\ UNCHANGED <<held, curl_h, ownMulti, headers, slist, sent, async, ready_state, events,
                     hbuf, last, past, calls>>
      /\ UNCHANGED <<request, last, past>>
      /\ Lost => Finalizer(x)
      /\ ~Lost => UNCHANGED <<alive, easy, resp, msglist, fault>>
  BY <1>4 DEF Return, request, object, Finalizer
<1>6. /\ Left \in Seq(Frames) /\ Stacked(Left) /\ TopReturns(Left)
      /\ Left # <<>> => Left[1].k # "alloc" /\ (Left[1].k = "emit" => IsEnding(Left[1]))
      /\ \A X : InOrder(stack, X) => InOrder(Left, X)
      /\ \A y : \A k \in {"cb", "perform", "null", "sent"} : Has(Left, k, y) <=> Has(stack, k, y)
      /\ \A k, y : Has(Left, k, y) => Has(Tail(stack), k, y)
      /\ \A y, ev : Due(Left, y, ev) => Due(Tail(stack), y, ev)
  BY <1>1, <1>3, Returned
<1>7. /\ \A k, y : Has(stack', k, y) => Has(stack, k, y)
      /\ \A y, ev : Due(stack', y, ev) => Due(stack, y, ev)
      /\ \A y : \A k \in {"cb", "perform", "null", "sent"} : Has(stack', k, y) <=> Has(stack, k, y)
  BY <1>1, <1>3, <1>6, TailFrames
<1>8. Lost => \A k \in {"js", "perform", "sent", "ret"} : ~Has(stack', k, x)
  <2> SUFFICES ASSUME Lost, NEW k \in {"js", "perform", "sent", "ret"}, Has(Tail(stack), k, x)
               PROVE  FALSE
    BY <1>1, <1>6
  <2>1. PICK i \in DOMAIN Tail(stack) : Tail(stack)[i].k = k /\ Tail(stack)[i].x = x
    BY DEF Has
  <2>2. /\ Tail(stack) \in Seq(Frames) /\ Len(stack) \in Nat /\ Len(Tail(stack)) = Len(stack) - 1
        /\ \A j \in 1..(Len(stack) - 1) : Tail(stack)[j] = stack[j + 1]
    BY <1>1, <1>3, StackShape
  <2>3. DOMAIN Tail(stack) = 1..(Len(stack) - 1)
    BY <2>2
  <2>4. i + 1 \in 2..Len(stack) /\ stack[i + 1] = Tail(stack)[i]
    BY <2>1, <2>2, <2>3
  <2> QED BY <2>1, <2>4
<1>9. CASE Lost
  <2>1. ~held[x] /\ Finalizer(x)
    BY <1>5, <1>9
  <2> HIDE DEF Lost
  <2>2. /\ alive' \in [Xhrs -> BOOLEAN]
        /\ easy' \in [Xhrs -> {"idle", "multi", "own", "freed"}]
        /\ resp' \in [Xhrs -> {None, "head", "body"}]
        /\ msglist' \in Seq(Messages) /\ OneEach(msglist')
        /\ \A y \in Xhrs : y # x => /\ alive'[y] = alive[y]
                                    /\ easy'[y] = easy[y] /\ resp'[y] = resp[y]
                                    /\ Listed(msglist', y) <=> Listed(msglist, y)
        /\ fault' \in {None, "easy"}
        /\ fault' = "easy" => "dropped" \in past[x]
        /\ fault' = None => RequestInv(x)'
    BY <1>1, <1>4, <1>5, <1>7, <1>8, <1>9, <2>1, Finalized
  <2>3. ASSUME NEW y \in Xhrs, y # x
        PROVE  RequestInv(y)'
    BY <1>2, <1>5, <1>7, <2>2, <2>3, Unmoved
  <2>4. fault' = "easy" => \E y \in Xhrs : past'[y] \intersect {"abortInside", "dropped"} # {}
    BY <1>4, <1>5, <2>2
  <2>5. FaultCause' /\ NotNested' \subseteq NotNested
    BY <1>2, <1>5, <2>2, <2>4, CauseKept, TypeFacts DEF None
  <2>6. TypeOK'
    <3>1. /\ calls' \in [Xhrs -> Nat] /\ \E b \in Budgets : \A y \in Xhrs : calls'[y] <= b[y]
      BY <1>2, <1>5 DEF TypeOK
    <3> QED BY <1>1, <1>2, <1>5, <1>6, <2>2, <3>1, TypeFacts, TypeNext
  <2>7. TopInv'
    BY <1>1, <1>6, NoEventNext
  <2>8. Stacked(stack)' /\ TopReturns(stack)' /\ InOrder(stack, NotNested)' /\ OneEach(msglist)'
    BY <1>1, <1>2, <1>6, <2>2, <2>5, InOrderFewer DEF Core
  <2> QED BY <2>2, <2>3, <2>5, <2>6, <2>7, <2>8 DEF XhrInv, Core
<1>10. CASE ~Lost
  <2>1. UNCHANGED <<alive, easy, resp, msglist, fault>>
    BY <1>5, <1>10
  <2> HIDE DEF Lost
  <2>2. ASSUME NEW y \in Xhrs
        PROVE  RequestInv(y)'
    BY <1>2, <1>5, <1>7, <2>1, Unmoved
  <2>3. FaultCause' /\ NotNested' \subseteq NotNested
    BY <1>1, <1>2, <1>5, <2>1, CauseKept, TypeFacts DEF None
  <2>4. TypeOK'
    <3>1. /\ calls' \in [Xhrs -> Nat] /\ \E b \in Budgets : \A y \in Xhrs : calls'[y] <= b[y]
      BY <1>2, <1>5 DEF TypeOK
    <3> QED BY <1>1, <1>2, <1>5, <1>6, <2>1, <3>1, TypeFacts, TypeNext
  <2>5. TopInv'
    BY <1>1, <1>6, NoEventNext
  <2>6. Stacked(stack)' /\ TopReturns(stack)' /\ InOrder(stack, NotNested)' /\ OneEach(msglist)'
    BY <1>1, <1>2, <1>6, <2>1, <2>3, InOrderFewer DEF Core
  <2> QED BY <2>2, <2>3, <2>4, <2>5, <2>6 DEF XhrInv, Core
<1> QED BY <1>9, <1>10

-----------------------------------------------------------------------------
(***************************************************************************)
(* libcurl                                                                 *)
(***************************************************************************)

\* A transfer that libcurl works on is one whose request exists and has not ended.
LEMMA WhenTransferring ==
  ASSUME XhrInv, NEW x \in Xhrs, Transferring(x)
  PROVE  /\ fault = None /\ stack # <<>> /\ Quiet(stack)
         /\ stack[1].k = "socket" \/ stack[1] = F("perform", x)
         /\ stack[1].k = "socket" => easy[x] = "multi" /\ ~Listed(msglist, x)
         /\ stack[1].k = "perform" => easy[x] = "own" /\ stack[1] = F("perform", x)
         /\ stack[1].k = "socket" => stack = <<F("socket", None)>> /\ \A k, y : k # "socket" => ~Has(stack, k, y)
         /\ Transfers(x) /\ easy[x] \in {"multi", "own"} /\ alive[x] /\ curl_h[x]
         /\ held[x] \/ "dropped" \in past[x]
<1>1. fault = None /\ stack # <<>>
  BY DEF Transferring, Top
<1>2. stack \in Seq(Frames) /\ Stacked(stack) /\ stack[1] \in Frames /\ HandleInv(x) /\ DropInv(x)
  BY <1>1, Given, StackShape
<1>3. /\ stack[1].k \in {"socket", "perform"}
      /\ stack[1].k = "socket" => easy[x] = "multi" /\ ~Listed(msglist, x)
      /\ stack[1].k = "perform" => stack[1].x = x
  BY DEF Transferring, Top, Listed
<1>4. stack[1].k = "perform" => stack[1] = F("perform", x) /\ Has(stack, "perform", x)
  BY <1>1, <1>2, <1>3, FrameTypes, TailFrames DEF Calling
<1>5. stack[1].k = "perform" => easy[x] = "own"
  BY <1>2, <1>4 DEF HandleInv
<1>6. ASSUME stack[1].k = "socket"
      PROVE  stack = <<F("socket", None)>> /\ \A k, y : k # "socket" => ~Has(stack, k, y)
  <2>1. Tail(stack) = <<>>
    BY <1>1, <1>2, <1>6, UnderTop
  <2>2. stack[1] = F("socket", None)
    BY <1>2, <1>6 DEF Frames, Calling, F
  <2>3. stack = <<stack[1]>> \o Tail(stack)
    BY <1>1, <1>2, StackShape
  <2>4. <<stack[1]>> \o <<>> = <<stack[1]>>
    <3>1. <<stack[1]>> \in Seq(Frames)
      BY <1>2
    <3> QED BY <3>1, ConcatEmptySeq
  <2>5. \A k, y : ~Has(<<>>, k, y)
    BY DEF Has
  <2>6. \A k, y : k # "socket" => ~Has(stack, k, y)
    BY <1>1, <1>2, <1>6, <2>1, <2>5, TailFrames
  <2> QED BY <2>1, <2>2, <2>3, <2>4, <2>6
<1>7. Quiet(stack)
  BY <1>1, <1>2, <1>3, QuietStack
<1>8. Transfers(x) /\ easy[x] \in {"multi", "own"}
  BY <1>3, <1>5, <1>6 DEF Transfers
<1>9. alive[x] /\ curl_h[x]
  BY <1>2, <1>8 DEF HandleInv
<1>10. held[x] \/ "dropped" \in past[x]
  BY <1>2, <1>8 DEF HandleInv, DropInv
<1> QED BY <1>1, <1>3, <1>4, <1>5, <1>6, <1>7, <1>8, <1>9, <1>10

\* A callback of libcurl delivers an event of x.
LEMMA CallbackPush ==
  ASSUME NEW s \in Seq(Frames), Stacked(s), Quiet(s), s # <<>>, NEW x \in Xhrs,
         s[1].k = "socket" \/ s[1] = F("perform", x),
         NEW e \in {"loadstart", "progress", "readystatechange"}
  PROVE  LET t == <<Emit(x, e)>> \o <<F("cb", x)>> \o s IN
         /\ t = <<Emit(x, e)>> \o (<<F("cb", x)>> \o s)
         /\ t \in Seq(Frames) /\ t # <<>> /\ t[1] = Emit(x, e) /\ t[2] = F("cb", x)
         /\ Stacked(t) /\ Quiet(Tail(t))
         /\ \A X : InOrder(s, X) => InOrder(t, X)
         /\ \A k, y : k # "emit" => (Has(t, k, y) <=> (k = "cb" /\ y = x) \/ Has(s, k, y))
         /\ \A y : \A ev \in Ending : Due(t, y, ev) <=> Due(s, y, ev)
<1> DEFINE f == Emit(x, e)
           g == F("cb", x)
           u == <<g>> \o s
           v == <<f>> \o u
           t == <<Emit(x, e)>> \o <<F("cb", x)>> \o s
<1>1. /\ f \in Frames /\ f.k = "emit" /\ f.x = x /\ f.ev = e
      /\ g \in Frames /\ g.k = "cb" /\ g.x = x
      /\ \A y, ev : g # Emit(y, ev)
      /\ \A y, ev : f = Emit(y, ev) => ev = e
  BY FrameTypes DEF Calling, EventNames
<1>2. t = v
  <2>1. <<f>> \in Seq(Frames) /\ <<g>> \in Seq(Frames)
    BY <1>1
  <2> QED BY <2>1, ConcatAssociative
<1> HIDE DEF f, g, t
<1>3. ~IsEnding(f) /\ ~IsEnding(g)
  BY <1>1 DEF IsEnding, Ending
<1>4. /\ u \in Seq(Frames) /\ u # <<>> /\ u[1] = g /\ Stacked(u) /\ Quiet(u)
      /\ \A X : InOrder(s, X) => InOrder(u, X)
  <2>1. Follows(g, s[1])
    BY <1>1 DEF Follows
  <2>2. Stacked(u)
    BY <1>1, <1>3, <2>1, StackedPush
  <2>3. u \in Seq(Frames) /\ u # <<>> /\ u[1] = g
    BY <1>1, PushShape
  <2>4. Quiet(u)
    BY <1>1, <2>2, <2>3, QuietStack
  <2> QED BY <1>1, <1>3, <2>2, <2>3, <2>4, InOrderPush
<1>5. /\ \A k, y : Has(u, k, y) <=> (k = "cb" /\ y = x) \/ Has(s, k, y)
      /\ \A y, ev : Due(u, y, ev) <=> Due(s, y, ev)
  BY <1>1, PushHas, PushDue
<1> HIDE DEF u
<1>6. /\ v \in Seq(Frames) /\ v # <<>> /\ v[1] = f /\ v[2] = g /\ Stacked(v) /\ Quiet(Tail(v))
      /\ \A X : InOrder(s, X) => InOrder(v, X)
  <2>1. Follows(f, u[1])
    BY <1>1, <1>4 DEF Follows, Ending
  <2>2. Stacked(v)
    BY <1>1, <1>3, <1>4, <2>1, StackedPush
  <2>3. /\ v \in Seq(Frames) /\ v # <<>> /\ v[1] = f /\ (\A i \in 1..Len(u) : v[i + 1] = u[i])
        /\ Tail(v) = u
    BY <1>1, <1>4, PushShape
  <2>4. 1 \in 1..Len(u) /\ 1 + 1 = 2
    BY <1>4
  <2>5. v[2] = g
    BY <1>4, <2>3, <2>4
  <2>6. \A X : InOrder(s, X) => InOrder(v, X)
    BY <1>1, <1>3, <1>4, InOrderPush
  <2> QED BY <1>4, <2>2, <2>3, <2>5, <2>6
<1>7. /\ \A k, y : k # "emit" => (Has(v, k, y) <=> (k = "cb" /\ y = x) \/ Has(s, k, y))
      /\ \A y : \A ev \in Ending : Due(v, y, ev) <=> Due(s, y, ev)
  <2>1. \A y : \A ev \in Ending : f # Emit(y, ev)
    BY <1>1 DEF Ending
  <2> QED BY <1>1, <1>4, <1>5, <2>1, PushHas, PushDue
<1> HIDE DEF v
<1>8. /\ t \in Seq(Frames) /\ t # <<>> /\ t[1] = Emit(x, e) /\ t[2] = F("cb", x)
      /\ Stacked(t) /\ Quiet(Tail(t))
      /\ \A X : InOrder(s, X) => InOrder(t, X)
      /\ \A k, y : k # "emit" => (Has(t, k, y) <=> (k = "cb" /\ y = x) \/ Has(s, k, y))
      /\ \A y : \A ev \in Ending : Due(t, y, ev) <=> Due(s, y, ev)
  BY <1>2, <1>6, <1>7 DEF f, g
<1>9. t = <<Emit(x, e)>> \o (<<F("cb", x)>> \o s)
  BY <1>2 DEF v, u, f, g
<1> QED BY <1>8, <1>9 DEF t

\* A step of a transfer: it may push a callback with an event, and change what is
\* known of the response.
LEMMA TransferStep ==
  ASSUME XhrInv, NEW x \in Xhrs, Transferring(x),
         UNCHANGED <<alive, held, curl_h, easy, ownMulti, headers, slist, sent, async, events,
                     msglist, last, past, calls>>,
         resp' \in [Xhrs -> {None, "head", "body"}], \A y \in Xhrs : y # x => resp'[y] = resp[y],
         hbuf' \in [Xhrs -> BOOLEAN], \A y \in Xhrs : y # x => hbuf'[y] = hbuf[y],
         ready_state' \in [Xhrs -> 0..4],
         \A y \in Xhrs : y # x => ready_state'[y] = ready_state[y],
         ready_state'[x] \in {ready_state[x], HEADERS_RECEIVED, LOADING},
         stack' \in Seq(Frames), Stacked(stack'), TopReturns(stack'), InOrder(stack', NotNested),
         \A k, y : k \notin {"emit", "alloc"} =>
           /\ Has(stack, k, y) => Has(stack', k, y)
           /\ Has(stack', k, y) => (k = "cb" /\ y = x) \/ Has(stack, k, y),
         \A y : \A ev \in Ending : Due(stack', y, ev) <=> Due(stack, y, ev),
         fault' \in {None, "headers"}, fault' = "headers" => "headers" \in past[x],
         ~Nested(x) => /\ resp'[x] = None /\ ~hbuf'[x] => last[x] <= 2
                       /\ resp'[x] # "body" => last[x] <= 3
                       /\ ready_state'[x] = HEADERS_RECEIVED => last[x] <= 4
                       /\ ready_state'[x] = LOADING => resp'[x] = "body",
         TopInv'
  PROVE  XhrInv'
<1>1. /\ fault = None /\ Transfers(x) /\ easy[x] \in {"multi", "own"} /\ alive[x] /\ curl_h[x]
      /\ held[x] \/ "dropped" \in past[x]
  BY WhenTransferring
<1>2. TypeOK /\ Core /\ \A y \in Xhrs : RequestInv(y)
  BY <1>1, Given DEF XhrInv
<1>3. HandleInv(x) /\ DropInv(x) /\ HeadersInv(x) /\ SentInv(x) /\ UnderWay(x) /\ EventInv(x)
  BY <1>2 DEF RequestInv
<1>4. TypeOK'
  <2>1. /\ calls' \in [Xhrs -> Nat] /\ \E b \in Budgets : \A y \in Xhrs : calls'[y] <= b[y]
    BY <1>2 DEF TypeOK
  <2> QED BY <1>2, <2>1, TypeFacts, TypeNext
<1>5. FaultCause' /\ NotNested' \subseteq NotNested
  <2>1. fault' = "headers" => \E y \in Xhrs : past'[y] \intersect {"headers"} # {}
    OBVIOUS
  <2> QED BY <1>2, <2>1, CauseKept, TypeFacts DEF None
<1>6. RequestInv(x)'
  <2>1. \A k \in {"perform", "null", "sent", "js", "ret"} : Has(stack', k, x) <=> Has(stack, k, x)
    OBVIOUS
  <2>2. HandleInv(x)'
    BY <1>1, <1>3, <2>1 DEF HandleInv
  <2>3. DropInv(x)'
    BY <1>1 DEF DropInv
  <2>4. HeadersInv(x)'
    BY <1>3, <2>1 DEF HeadersInv
  <2>5. SentInv(x)'
    BY <1>1, <1>3, <2>1 DEF SentInv, Nested, DONE, HEADERS_RECEIVED, LOADING
  <2>6. UnderWay(x)'
    BY <1>1, <1>3 DEF UnderWay, SentInv, Nested, Excused
  <2>7. EventInv(x)'
    <3>1. Transfers(x)' <=> Transfers(x)
      BY <2>1 DEF Transfers
    <3> QED BY <1>3, <2>1, <3>1 DEF EventInv, Nested
  <2> QED BY <2>2, <2>3, <2>4, <2>5, <2>6, <2>7 DEF RequestInv
<1>7. ASSUME NEW y \in Xhrs, y # x
      PROVE  RequestInv(y)'
  <2>1. \A k \in {"js", "ret", "cb", "perform", "null", "sent"} : Has(stack', k, y) <=> Has(stack, k, y)
    BY <1>7
  <2> QED BY <1>2, <1>7, <2>1, Unmoved
<1>8. InOrder(stack, NotNested)' /\ OneEach(msglist)'
  BY <1>2, <1>5, InOrderFewer DEF Core
<1> QED BY <1>4, <1>5, <1>6, <1>7, <1>8 DEF XhrInv, Core

\* The stack of a callback that delivers event e of x
LEMMA Delivering ==
  ASSUME XhrInv, NEW x \in Xhrs, Transferring(x),
         NEW e \in {"loadstart", "progress", "readystatechange"},
         stack' = <<Emit(x, e)>> \o <<F("cb", x)>> \o stack
  PROVE  /\ stack' \in Seq(Frames) /\ stack' # <<>>
         /\ stack'[1] = Emit(x, e) /\ stack'[2] = F("cb", x)
         /\ Stacked(stack') /\ TopReturns(stack') /\ InOrder(stack', NotNested)
         /\ \A k, y : k \notin {"emit", "alloc"} =>
              /\ Has(stack, k, y) => Has(stack', k, y)
              /\ Has(stack', k, y) => (k = "cb" /\ y = x) \/ Has(stack, k, y)
         /\ \A y : \A ev \in Ending : Due(stack', y, ev) <=> Due(stack, y, ev)
<1>1. /\ fault = None /\ stack # <<>> /\ Quiet(stack)
      /\ stack[1].k = "socket" \/ stack[1] = F("perform", x)
  BY WhenTransferring
<1>2. stack \in Seq(Frames) /\ Stacked(stack) /\ InOrder(stack, NotNested)
  BY <1>1, Given
<1> DEFINE t == <<Emit(x, e)>> \o <<F("cb", x)>> \o stack
<1>3. /\ t \in Seq(Frames) /\ t # <<>> /\ t[1] = Emit(x, e) /\ t[2] = F("cb", x)
      /\ Stacked(t)
      /\ \A X : InOrder(stack, X) => InOrder(t, X)
      /\ \A k, y : k # "emit" => (Has(t, k, y) <=> (k = "cb" /\ y = x) \/ Has(stack, k, y))
      /\ \A y : \A ev \in Ending : Due(t, y, ev) <=> Due(stack, y, ev)
  BY <1>1, <1>2, CallbackPush
<1>4. stack' = t
  OBVIOUS
<1> HIDE DEF t
<1>5. TopReturns(stack')
  BY <1>3, <1>4, FrameTypes DEF TopReturns
<1> QED BY <1>2, <1>3, <1>4, <1>5

\* curlmHeaderCb, a status line
LEMMA StatusLineStep ==
  ASSUME XhrInv, NEW x \in Xhrs, StatusLine(x)
  PROVE  XhrInv'
<1>1. Transferring(x) /\ resp[x] = None
  BY DEF StatusLine
<1>2. /\ fault = None /\ stack # <<>> /\ Transfers(x)
      /\ stack[1].k = "socket" \/ stack[1] = F("perform", x)
  BY <1>1, WhenTransferring
<1>3. /\ TypeOK /\ stack \in Seq(Frames) /\ Stacked(stack) /\ TopReturns(stack)
      /\ InOrder(stack, NotNested) /\ EventInv(x)
  BY <1>2, Given
<1>4. /\ UNCHANGED <<alive, held, curl_h, easy, ownMulti, headers, slist, sent, async, events,
                     msglist, last, past, calls, ready_state, fault>>
      /\ resp' = [resp EXCEPT ![x] = "head"] /\ hbuf' = [hbuf EXCEPT ![x] = FALSE]
  BY DEF StatusLine, object
<1>5. /\ resp' \in [Xhrs -> {None, "head", "body"}] /\ resp'[x] = "head"
      /\ \A y \in Xhrs : y # x => resp'[y] = resp[y]
      /\ hbuf' \in [Xhrs -> BOOLEAN] /\ hbuf'[x] = FALSE
      /\ \A y \in Xhrs : y # x => hbuf'[y] = hbuf[y]
      /\ ready_state' \in [Xhrs -> 0..4]
  BY <1>3, <1>4, TypeFacts
<1>6. ~Nested(x) => /\ last[x] <= 3 /\ (~hbuf[x] => last[x] <= 2)
                    /\ ready_state[x] = HEADERS_RECEIVED => last[x] <= 4
                    /\ ready_state[x] # LOADING
  BY <1>1, <1>2, <1>3 DEF EventInv, None
<1>7. ~Nested(x) => /\ resp'[x] = None /\ ~hbuf'[x] => last[x] <= 2
                    /\ resp'[x] # "body" => last[x] <= 3
                    /\ ready_state'[x] = HEADERS_RECEIVED => last[x] <= 4
                    /\ ready_state'[x] = LOADING => resp'[x] = "body"
  BY <1>4, <1>5, <1>6 DEF None
<1>8. fault' \in {None, "headers"} /\ fault' # "headers"
  BY <1>2, <1>4 DEF None
<1>9. CASE hbuf[x]
  <2>1. stack' = stack
    BY <1>9 DEF StatusLine
  <2>2. TopInv'
    <3>1. stack[1].k \notin {"alloc", "emit"}
      BY <1>2, FrameTypes
    <3> QED BY <2>1, <3>1, NoEventNext
  <2> QED BY <1>1, <1>2, <1>3, <1>4, <1>5, <1>7, <1>8, <2>1, <2>2, TransferStep
<1>10. CASE ~hbuf[x]
  <2>1. stack' = <<Emit(x, "loadstart")>> \o <<F("cb", x)>> \o stack
    BY <1>10 DEF StatusLine, Callback
  <2>2. /\ stack' \in Seq(Frames) /\ stack' # <<>>
        /\ stack'[1] = Emit(x, "loadstart") /\ stack'[2] = F("cb", x)
        /\ Stacked(stack') /\ TopReturns(stack') /\ InOrder(stack', NotNested)
        /\ \A k, y : k \notin {"emit", "alloc"} =>
             /\ Has(stack, k, y) => Has(stack', k, y)
             /\ Has(stack', k, y) => (k = "cb" /\ y = x) \/ Has(stack, k, y)
        /\ \A y : \A ev \in Ending : Due(stack', y, ev) <=> Due(stack, y, ev)
    BY <1>1, <2>1, Delivering
  <2>3. TopInv'
    <3>1. ~Nested(x)' => last'[x] <= 2 /\ resp'[x] # None
      BY <1>4, <1>5, <1>6, <1>10 DEF Nested, None
    <3>2. ~Nested(x)' => Ready(x, "loadstart", F("cb", x))'
      BY <3>1 DEF Ready
    <3> QED BY <2>2, <3>2, FrameTypes DEF TopInv, Top
  <2> QED BY <1>1, <1>2, <1>4, <1>5, <1>7, <1>8, <2>2, <2>3, TransferStep
<1> QED BY <1>9, <1>10

\* curlmHeaderCb, the rest of the head of a response
LEMMA EmptyLineStep ==
  ASSUME XhrInv, NEW x \in Xhrs, NEW kind \in Kinds, EmptyLine(x, kind)
  PROVE  XhrInv'
<1>1. Transferring(x) /\ resp[x] = "head"
  BY DEF EmptyLine
<1>2. /\ fault = None /\ stack # <<>> /\ Transfers(x)
      /\ stack[1].k = "socket" \/ stack[1] = F("perform", x)
  BY <1>1, WhenTransferring
<1>3. /\ TypeOK /\ stack \in Seq(Frames) /\ Stacked(stack) /\ TopReturns(stack)
      /\ InOrder(stack, NotNested) /\ EventInv(x) /\ HeadersInv(x)
  BY <1>2, Given
<1> PICK filled \in BOOLEAN : (kind # "3xx" => filled) /\ hbuf' = [hbuf EXCEPT ![x] = filled]
  BY DEF EmptyLine
<1>4. /\ UNCHANGED <<alive, held, curl_h, easy, ownMulti, headers, slist, sent, async, events,
                     msglist, last, past, calls>>
      /\ resp' = [resp EXCEPT ![x] = IF kind \in {"followed", "1xx"} THEN None ELSE "body"]
      /\ fault' = IF kind = "followed" /\ headers[x] = "dangling" THEN "headers" ELSE fault
  BY DEF EmptyLine, object
<1>5. /\ resp' \in [Xhrs -> {None, "head", "body"}]
      /\ \A y \in Xhrs : y # x => resp'[y] = resp[y]
      /\ hbuf' \in [Xhrs -> BOOLEAN] /\ (kind # "3xx" => hbuf'[x])
      /\ (kind = "3xx" => resp'[x] = "body")
      /\ \A y \in Xhrs : y # x => hbuf'[y] = hbuf[y]
  BY <1>3, <1>4, TypeFacts
<1>6. ~Nested(x) => last[x] <= 3 /\ ready_state[x] # LOADING
  BY <1>1, <1>2, <1>3 DEF EventInv, None
<1>7. fault' \in {None, "headers"} /\ (fault' = "headers" => "headers" \in past[x])
  <2>1. headers[x] = "dangling" => "headers" \in past[x]
    BY <1>2, <1>3 DEF HeadersInv, Transfers, None
  <2> QED BY <1>2, <1>4, <2>1 DEF None
<1>8. last \in [Xhrs -> 0..10]
  BY <1>3, TypeFacts
<1>9. CASE kind \in {"followed", "3xx"}
  <2>1. stack' = stack /\ ready_state' = ready_state
    BY <1>9 DEF EmptyLine
  <2>2. TopInv'
    <3>1. stack[1].k \notin {"alloc", "emit"}
      BY <1>2, FrameTypes
    <3> QED BY <2>1, <3>1, NoEventNext
  <2>3. ~Nested(x) => /\ resp'[x] = None /\ ~hbuf'[x] => last[x] <= 2
                      /\ resp'[x] # "body" => last[x] <= 3
                      /\ ready_state'[x] = HEADERS_RECEIVED => last[x] <= 4
                      /\ ready_state'[x] = LOADING => resp'[x] = "body"
    BY <1>5, <1>6, <1>8, <1>9, <2>1 DEF None
  <2>4. ready_state' \in [Xhrs -> 0..4]
    BY <1>3, <2>1, TypeFacts
  <2> QED BY <1>1, <1>2, <1>3, <1>4, <1>5, <1>7, <2>1, <2>2, <2>3, <2>4, TransferStep
<1>10. CASE kind \notin {"followed", "3xx"}
  <2>1. /\ stack' = <<Emit(x, "readystatechange")>> \o <<F("cb", x)>> \o stack
        /\ ready_state' = [ready_state EXCEPT ![x] = HEADERS_RECEIVED]
    BY <1>10 DEF EmptyLine, Callback
  <2>2. /\ stack' \in Seq(Frames) /\ stack' # <<>>
        /\ stack'[1] = Emit(x, "readystatechange") /\ stack'[2] = F("cb", x)
        /\ Stacked(stack') /\ TopReturns(stack') /\ InOrder(stack', NotNested)
        /\ \A k, y : k \notin {"emit", "alloc"} =>
             /\ Has(stack, k, y) => Has(stack', k, y)
             /\ Has(stack', k, y) => (k = "cb" /\ y = x) \/ Has(stack, k, y)
        /\ \A y : \A ev \in Ending : Due(stack', y, ev) <=> Due(stack, y, ev)
    BY <1>1, <2>1, Delivering
  <2>3. /\ ready_state' \in [Xhrs -> 0..4] /\ ready_state'[x] = HEADERS_RECEIVED
        /\ \A y \in Xhrs : y # x => ready_state'[y] = ready_state[y]
    BY <1>3, <2>1, TypeFacts DEF HEADERS_RECEIVED
  <2>4. TopInv'
    <3>1. ~Nested(x)' => last'[x] <= 3 /\ hbuf'[x]
      BY <1>4, <1>5, <1>6, <1>10 DEF Nested
    <3>2. ~Nested(x)' => Ready(x, "readystatechange", F("cb", x))'
      BY <2>3, <3>1, FrameTypes DEF Ready
    <3> QED BY <2>2, <3>2, FrameTypes DEF TopInv, Top
  <2>5. ~Nested(x) => /\ resp'[x] = None /\ ~hbuf'[x] => last[x] <= 2
                      /\ resp'[x] # "body" => last[x] <= 3
                      /\ ready_state'[x] = HEADERS_RECEIVED => last[x] <= 4
                      /\ ready_state'[x] = LOADING => resp'[x] = "body"
    BY <1>5, <1>6, <1>8, <1>10, <2>3 DEF HEADERS_RECEIVED, LOADING
  <2> QED BY <1>1, <1>2, <1>4, <1>5, <1>7, <2>2, <2>3, <2>4, <2>5, TransferStep
<1> QED BY <1>9, <1>10

\* curlmDataCb
LEMMA DataStep ==
  ASSUME XhrInv, NEW x \in Xhrs, Data(x)
  PROVE  XhrInv'
<1>1. Transferring(x) /\ resp[x] = "body" /\ ready_state[x] = HEADERS_RECEIVED
  BY DEF Data
<1>2. fault = None /\ stack # <<>> /\ Transfers(x)
  BY <1>1, WhenTransferring
<1>3. TypeOK /\ EventInv(x)
  BY <1>2, Given
<1>4. /\ UNCHANGED <<alive, held, curl_h, easy, ownMulti, headers, slist, sent, async, events,
                     msglist, last, past, calls, resp, hbuf, fault>>
      /\ ready_state' = [ready_state EXCEPT ![x] = LOADING]
      /\ stack' = <<Emit(x, "readystatechange")>> \o <<F("cb", x)>> \o stack
  BY DEF Data, object, Callback
<1>5. /\ stack' \in Seq(Frames) /\ stack' # <<>>
      /\ stack'[1] = Emit(x, "readystatechange") /\ stack'[2] = F("cb", x)
      /\ Stacked(stack') /\ TopReturns(stack') /\ InOrder(stack', NotNested)
      /\ \A k, y : k \notin {"emit", "alloc"} =>
           /\ Has(stack, k, y) => Has(stack', k, y)
           /\ Has(stack', k, y) => (k = "cb" /\ y = x) \/ Has(stack, k, y)
      /\ \A y : \A ev \in Ending : Due(stack', y, ev) <=> Due(stack, y, ev)
  BY <1>1, <1>4, Delivering
<1>6. /\ ready_state' \in [Xhrs -> 0..4] /\ ready_state'[x] = LOADING
      /\ \A y \in Xhrs : y # x => ready_state'[y] = ready_state[y]
  BY <1>3, <1>4, TypeFacts DEF LOADING
<1>7. ~Nested(x) => last[x] <= 4
  BY <1>1, <1>2, <1>3 DEF EventInv
<1>8. TopInv'
  <2>1. ~Nested(x)' => last'[x] <= 4
    BY <1>4, <1>7 DEF Nested
  <2>2. ~Nested(x)' => Ready(x, "readystatechange", F("cb", x))'
    BY <1>6, <2>1, FrameTypes DEF Ready
  <2> QED BY <1>5, <2>2, FrameTypes DEF TopInv, Top
<1>9. ~Nested(x) => /\ resp'[x] = None /\ ~hbuf'[x] => last[x] <= 2
                    /\ resp'[x] # "body" => last[x] <= 3
                    /\ ready_state'[x] = HEADERS_RECEIVED => last[x] <= 4
                    /\ ready_state'[x] = LOADING => resp'[x] = "body"
  BY <1>1, <1>4, <1>7 DEF None
<1>10. resp' \in [Xhrs -> {None, "head", "body"}] /\ hbuf' \in [Xhrs -> BOOLEAN]
  BY <1>3, <1>4, TypeFacts
<1>11. fault' \in {None, "headers"} /\ fault' # "headers"
  BY <1>2, <1>4 DEF None
<1> QED BY <1>1, <1>2, <1>4, <1>5, <1>6, <1>8, <1>9, <1>10, <1>11, TransferStep

\* curlmProcessCb
LEMMA ProgressStep ==
  ASSUME XhrInv, NEW x \in Xhrs, Progress(x)
  PROVE  XhrInv'
<1>1. Transferring(x) /\ ready_state[x] = LOADING
  BY DEF Progress
<1>2. /\ fault = None /\ stack # <<>> /\ Transfers(x) /\ easy[x] \in {"multi", "own"} /\ Quiet(stack)
      /\ stack[1].k = "socket" \/ stack[1] = F("perform", x)
  BY <1>1, WhenTransferring
<1>3. /\ TypeOK /\ HandleInv(x) /\ EventInv(x)
      /\ stack \in Seq(Frames) /\ Stacked(stack) /\ InOrder(stack, NotNested)
  BY <1>2, Given
<1>4. /\ UNCHANGED <<alive, held, curl_h, easy, ownMulti, headers, slist, sent, async, events,
                     msglist, last, past, calls, resp, hbuf, ready_state, fault>>
      /\ stack' = <<F("alloc", x), Emit(x, "progress")>> \o <<F("cb", x)>> \o stack
  BY DEF Progress, object, request, Callback
<1> DEFINE t == <<Emit(x, "progress")>> \o <<F("cb", x)>> \o stack
           f == F("alloc", x)
           v == <<f>> \o t
<1>5. /\ t = <<Emit(x, "progress")>> \o (<<F("cb", x)>> \o stack)
      /\ t \in Seq(Frames) /\ t # <<>> /\ t[1] = Emit(x, "progress") /\ t[2] = F("cb", x)
      /\ Stacked(t) /\ Quiet(Tail(t))
      /\ \A X : InOrder(stack, X) => InOrder(t, X)
      /\ \A k, y : k # "emit" => (Has(t, k, y) <=> (k = "cb" /\ y = x) \/ Has(stack, k, y))
      /\ \A y : \A ev \in Ending : Due(t, y, ev) <=> Due(stack, y, ev)
  BY <1>2, <1>3, CallbackPush
<1>6. /\ f \in Frames /\ f.k = "alloc" /\ f.x = x /\ (\A y, ev : f # Emit(y, ev))
      /\ Emit(x, "progress") \in Frames /\ F("cb", x) \in Frames
  BY FrameTypes DEF Calling, EventNames
<1>7. stack' = v
  <2> DEFINE p == <<f, Emit(x, "progress")>>
             c == <<F("cb", x)>>
  <2>1. p \in Seq(Frames) /\ c \in Seq(Frames)
    BY <1>6
  <2>2. (p \o c) \o stack = p \o (c \o stack)
    BY <1>3, <2>1, ConcatAssociative
  <2>3. c \o stack \in Seq(Frames)
    BY <1>3, <1>6, PushShape
  <2>4. p \o (c \o stack) = <<f>> \o (<<Emit(x, "progress")>> \o (c \o stack))
    BY <1>6, <2>3, PushPair
  <2> QED BY <1>4, <1>5, <2>2, <2>4
<1> HIDE DEF t, f
<1>8. v \in Seq(Frames) /\ v # <<>> /\ v[1] = f /\ Stacked(v) /\ InOrder(v, NotNested)
  <2>1. Follows(f, t[1])
    BY <1>5, <1>6 DEF Follows
  <2>2. ~IsEnding(f)
    BY <1>6 DEF IsEnding
  <2>3. Stacked(v)
    BY <1>5, <1>6, <2>1, <2>2, StackedPush
  <2> QED BY <1>3, <1>5, <1>6, <2>2, <2>3, PushShape, InOrderPush
<1>9. /\ \A k, y : k \notin {"emit", "alloc"} =>
           /\ Has(stack, k, y) => Has(v, k, y)
           /\ Has(v, k, y) => (k = "cb" /\ y = x) \/ Has(stack, k, y)
      /\ \A y : \A ev \in Ending : Due(v, y, ev) <=> Due(stack, y, ev)
  BY <1>5, <1>6, PushHas, PushDue
<1> HIDE DEF v
<1>10. ~Nested(x) => last[x] <= 5 /\ resp[x] = "body" /\ (resp[x] # "body" => last[x] <= 3)
  BY <1>1, <1>2, <1>3 DEF EventInv, HandleInv, Transfers
<1>11. TopInv'
  <2>1. ~Nested(x)' => last'[x] <= 5 /\ ready_state'[x] = LOADING /\ resp'[x] = "body"
    BY <1>1, <1>4, <1>10 DEF Nested
  <2>2. \A g : ~Nested(x)' => Ready(x, "progress", g)'
    BY <2>1 DEF Ready
  <2> QED BY <1>6, <1>7, <1>8, <2>2 DEF TopInv, Top
<1>12. ~Nested(x) => /\ resp'[x] = None /\ ~hbuf'[x] => last[x] <= 2
                     /\ resp'[x] # "body" => last[x] <= 3
                     /\ ready_state'[x] = HEADERS_RECEIVED => last[x] <= 4
                     /\ ready_state'[x] = LOADING => resp'[x] = "body"
  BY <1>1, <1>4, <1>10 DEF None, LOADING, HEADERS_RECEIVED
<1>13. /\ resp' \in [Xhrs -> {None, "head", "body"}] /\ hbuf' \in [Xhrs -> BOOLEAN]
       /\ ready_state' \in [Xhrs -> 0..4] /\ TopReturns(stack')
  BY <1>3, <1>4, <1>6, <1>7, <1>8, TypeFacts DEF TopReturns
<1>14. fault' \in {None, "headers"} /\ fault' # "headers"
  BY <1>2, <1>4 DEF None
<1>15. /\ stack' \in Seq(Frames) /\ Stacked(stack') /\ InOrder(stack', NotNested)
       /\ \A k, y : k \notin {"emit", "alloc"} =>
            /\ Has(stack, k, y) => Has(stack', k, y)
            /\ Has(stack', k, y) => (k = "cb" /\ y = x) \/ Has(stack, k, y)
       /\ \A y : \A ev \in Ending : Due(stack', y, ev) <=> Due(stack, y, ev)
  BY <1>7, <1>8, <1>9
<1>16. /\ UNCHANGED <<alive, held, curl_h, easy, ownMulti, headers, slist, sent, async, events,
                      msglist, last, past, calls>>
       /\ \A y \in Xhrs : y # x => /\ resp'[y] = resp[y] /\ hbuf'[y] = hbuf[y]
                                    /\ ready_state'[y] = ready_state[y]
       /\ ready_state'[x] \in {ready_state[x], HEADERS_RECEIVED, LOADING}
  BY <1>4
<1> QED BY <1>1, <1>11, <1>12, <1>13, <1>14, <1>15, <1>16, TransferStep

\* A transfer of the multi handle is over.
LEMMA CompleteStep ==
  ASSUME XhrInv, NEW x \in Xhrs, NEW res \in Results, Complete(x, res)
  PROVE  XhrInv'
<1>1. Transferring(x) /\ stack # <<>> /\ stack[1].k = "socket"
  BY DEF Complete, Top
<1>2. /\ fault = None /\ easy[x] = "multi" /\ ~Listed(msglist, x)
      /\ \A k, y : k # "socket" => ~Has(stack, k, y)
  BY <1>1, WhenTransferring
<1>3. TypeOK /\ Core /\ \A y \in Xhrs : RequestInv(y)
  BY <1>2, Given DEF XhrInv
<1>4. HandleInv(x) /\ DropInv(x) /\ HeadersInv(x) /\ SentInv(x) /\ UnderWay(x) /\ EventInv(x)
  BY <1>3 DEF RequestInv
<1>5. /\ UNCHANGED <<alive, held, curl_h, easy, ownMulti, headers, slist, sent, async, ready_state,
                     events, hbuf, stack, last, past, calls, fault>>
      /\ msglist' = Append(msglist, [x |-> x, res |-> res])
      /\ resp' = [resp EXCEPT ![x] = None]
  BY DEF Complete, object, request
<1>6. /\ msglist' \in Seq(Messages) /\ OneEach(msglist') /\ Listed(msglist', x)
      /\ \A y \in Xhrs : y # x => (Listed(msglist', y) <=> Listed(msglist, y))
  BY <1>2, <1>3, <1>5, TypeFacts, AppendFacts DEF Core
<1>7. /\ resp' \in [Xhrs -> {None, "head", "body"}]
      /\ \A y \in Xhrs : y # x => resp'[y] = resp[y]
  BY <1>3, <1>5, TypeFacts
<1>8. TypeOK'
  <2>1. /\ calls' \in [Xhrs -> Nat] /\ \E b \in Budgets : \A y \in Xhrs : calls'[y] <= b[y]
    BY <1>3, <1>5 DEF TypeOK
  <2> QED BY <1>2, <1>3, <1>5, <1>6, <1>7, <2>1, TypeFacts, TypeNext
<1>9. FaultCause' /\ NotNested' \subseteq NotNested
  BY <1>2, <1>3, <1>5, CauseKept, TypeFacts DEF None
<1>10. RequestInv(x)'
  <2>1. HandleInv(x)' /\ DropInv(x)' /\ HeadersInv(x)'
    BY <1>2, <1>4, <1>5 DEF HandleInv, DropInv, HeadersInv
  <2>2. SentInv(x)' /\ UnderWay(x)'
    BY <1>4, <1>5 DEF SentInv, UnderWay, Nested, Excused
  <2>3. EventInv(x)'
    <3>1. ~Transfers(x)'
      BY <1>2, <1>5, <1>6 DEF Transfers
    <3> QED BY <1>4, <1>5, <3>1 DEF EventInv, Nested
  <2> QED BY <2>1, <2>2, <2>3 DEF RequestInv
<1>11. ASSUME NEW y \in Xhrs, y # x
       PROVE  RequestInv(y)'
  BY <1>3, <1>5, <1>6, <1>7, <1>11, Unmoved
<1>12. TopInv'
  BY <1>1, <1>5, NoEventNext
<1>13. Stacked(stack)' /\ TopReturns(stack)' /\ InOrder(stack, NotNested)' /\ OneEach(msglist)'
  BY <1>3, <1>5, <1>6, <1>9, InOrderFewer DEF Core
<1> QED BY <1>8, <1>9, <1>10, <1>11, <1>12, <1>13 DEF XhrInv, Core

\* curl_easy_perform returns, and curlDoneCb is called for send().
LEMMA PerformDoneStep ==
  ASSUME XhrInv, NEW x \in Xhrs, NEW res \in Results, PerformDone(x, res)
  PROVE  XhrInv'
<1>1. Transferring(x) /\ stack # <<>> /\ stack[1].k = "perform"
  BY DEF PerformDone, Top
<1>2. /\ fault = None /\ easy[x] = "own" /\ stack[1] = F("perform", x) /\ alive[x] /\ curl_h[x]
      /\ held[x] \/ "dropped" \in past[x]
  BY <1>1, WhenTransferring
<1>3. TypeOK /\ Core /\ \A y \in Xhrs : RequestInv(y)
  BY <1>2, Given DEF XhrInv
<1>4. HandleInv(x) /\ DropInv(x) /\ HeadersInv(x) /\ SentInv(x) /\ UnderWay(x) /\ EventInv(x)
  BY <1>3 DEF RequestInv
<1> DEFINE h == FreedHeaders(x, headers[x])
<1>5. /\ UNCHANGED <<alive, held, curl_h, ownMulti, sent, async, events, hbuf, msglist, last,
                     past, calls, fault>>
      /\ easy' = [easy EXCEPT ![x] = "idle"]
      /\ resp' = [resp EXCEPT ![x] = None]
      /\ headers' = [headers EXCEPT ![x] = h]
      /\ slist' = [slist EXCEPT ![x] = FALSE]
      /\ ready_state' = [ready_state EXCEPT ![x] = DONE]
  BY <1>3, TypeFacts DEF PerformDone, object
<1>6. ~Has(stack, "null", x) /\ (~Nested(x) => ~Has(stack, "sent", x)) /\ ~Listed(msglist, x)
  BY <1>2, <1>4 DEF HandleInv, SentInv
<1>7. /\ stack' \in Seq(Frames) /\ stack' # <<>>
      /\ stack'[1] = Emit(x, "readystatechange") /\ stack'[2].k = "emit"
      /\ Stacked(stack') /\ InOrder(stack', NotNested)
      /\ \A k, y : k \notin {"emit", "perform"} =>
           (Has(stack', k, y) <=> (k = "sent" /\ y = x) \/ Has(stack, k, y))
      /\ ~Has(stack', "perform", x) /\ ~Has(stack', "cb", x)
      /\ \A y : y # x => (Has(stack', "perform", y) <=> Has(stack, "perform", y))
      /\ \A y : \A ev \in Ending : y # x => (Due(stack', y, ev) <=> Due(stack, y, ev))
  <2> DEFINE s == Tail(stack)
             t == DoneEvents(x, res) \o <<F("sent", x)>> \o s
  <2>1. stack \in Seq(Frames) /\ Stacked(stack) /\ InOrder(stack, NotNested)
    BY <1>3, TypeFacts DEF Core
  <2>2. s \in Seq(Frames) /\ Stacked(s) /\ InOrder(s, NotNested) /\ Quiet(s)
    BY <1>1, <2>1, StackShape, StackedTail, InOrderTail, QuietStack
  <2>3. s # <<>> => s[1].k = "js"
    <3>1. s # <<>> => Follows(stack[1], s[1])
      BY <1>1, <2>1, StackedTail
    <3> QED BY <1>1, <3>1 DEF Follows
  <2>4. ~Has(s, "perform", x) /\ ~Has(s, "cb", x)
    BY <1>1, <1>2, <2>1, StackedTail, FrameTypes
  <2>5. /\ \A k, y : Has(stack, k, y) <=> (k = "perform" /\ y = x) \/ Has(s, k, y)
        /\ \A y, ev : Due(stack, y, ev) <=> Due(s, y, ev)
    <3>1. /\ stack[1].k = "perform" /\ stack[1].x = x /\ \A y, ev : stack[1] # Emit(y, ev)
      BY <1>2, FrameTypes
    <3> QED BY <1>1, <2>1, <3>1, TailFrames
  <2>6. x \in NotNested => \A ev \in Ending : ~Due(s, x, ev)
    BY <1>6, <2>1, <2>5, DueEnds DEF NotNested
  <2>7. stack' = t
    BY DEF PerformDone
  <2> HIDE DEF s
  <2>8. s # <<>> => Follows(F("sent", x), s[1])
    BY <2>3, FrameTypes DEF Follows
  <2>9. /\ t \in Seq(Frames) /\ t # <<>>
        /\ t[1] = Emit(x, "readystatechange") /\ t[2].k = "emit"
        /\ Stacked(t) /\ InOrder(t, NotNested)
        /\ \A kk, y : kk # "emit" => (Has(t, kk, y) <=> (kk = "sent" /\ y = x) \/ Has(s, kk, y))
        /\ \A y, ev : y # x => (Due(t, y, ev) <=> Due(s, y, ev))
    BY <2>2, <2>6, <2>8, DonePush
  <2> HIDE DEF t
  <2> QED BY <2>4, <2>5, <2>7, <2>9
<1>8. /\ easy'[x] = "idle" /\ resp'[x] = None /\ headers'[x] = h /\ ready_state'[x] = DONE
      /\ \A y \in Xhrs : y # x =>
           /\ easy'[y] = easy[y] /\ resp'[y] = resp[y] /\ headers'[y] = headers[y]
           /\ ready_state'[y] = ready_state[y]
  BY <1>3, <1>5, TypeFacts
<1>9. TypeOK'
  <2>1. /\ calls' \in [Xhrs -> Nat] /\ \E b \in Budgets : \A y \in Xhrs : calls'[y] <= b[y]
    BY <1>3, <1>5 DEF TypeOK
  <2>2. h \in {None, "live", "dangling"}
    BY <1>3, TypeFacts DEF FreedHeaders
  <2>3. /\ easy' \in [Xhrs -> {"idle", "multi", "own", "freed"}]
        /\ resp' \in [Xhrs -> {None, "head", "body"}]
        /\ headers' \in [Xhrs -> {None, "live", "dangling"}]
        /\ slist' \in [Xhrs -> BOOLEAN] /\ ready_state' \in [Xhrs -> 0..4]
    BY <1>3, <1>5, <2>2, TypeFacts DEF DONE
  <2> QED BY <1>2, <1>3, <1>5, <1>7, <2>1, <2>3, TypeFacts, TypeNext
<1>10. FaultCause' /\ NotNested' \subseteq NotNested
  BY <1>2, <1>3, <1>5, CauseKept, TypeFacts DEF None
<1>11. RequestInv(x)'
  <2>1. HandleInv(x)'
    BY <1>2, <1>4, <1>5, <1>6, <1>7, <1>8 DEF HandleInv
  <2>2. DropInv(x)'
    BY <1>2, <1>5 DEF DropInv
  <2>3. HeadersInv(x)'
    BY <1>2, <1>4, <1>5, <1>8 DEF HeadersInv, FreedHeaders, None
  <2>4. SentInv(x)' /\ UnderWay(x)'
    BY <1>2, <1>4, <1>5, <1>7, <1>8 DEF SentInv, UnderWay, Nested, DONE
  <2>5. EventInv(x)'
    <3>1. ~Nested(x) => last[x] <= 5
      BY <1>2, <1>4, <1>6 DEF EventInv
    <3>2. \A ev \in Ending : EndPlace(ev) \in 7..9
      BY DEF EndPlace
    <3>3. last[x] \in 0..10
      BY <1>3, TypeFacts
    <3>4. ~Nested(x) => \A ev \in Ending : last[x] <= EndPlace(ev)
      BY <3>1, <3>2, <3>3
    <3> QED BY <1>5, <1>8, <3>4 DEF EventInv, Nested, Transfers
  <2> QED BY <2>1, <2>2, <2>3, <2>4, <2>5 DEF RequestInv
<1>12. ASSUME NEW y \in Xhrs, y # x
       PROVE  RequestInv(y)'
  <2>1. \A k \in {"js", "ret", "cb", "perform", "null", "sent"} : Has(stack', k, y) <=> Has(stack, k, y)
    BY <1>7, <1>12
  <2> QED BY <1>3, <1>5, <1>7, <1>8, <1>12, <2>1, Unmoved
<1>13. TopInv'
  <2>1. ~Nested(x)' => last'[x] <= 6
    <3>1. ~Nested(x) => last[x] <= 5
      BY <1>2, <1>4, <1>6 DEF EventInv
    <3>2. last[x] \in 0..10
      BY <1>3, TypeFacts
    <3> QED BY <1>5, <3>1, <3>2 DEF Nested
  <2> QED BY <1>7, <1>8, <2>1, FrameTypes DEF TopInv, Top, Ready
<1>14. Stacked(stack)' /\ TopReturns(stack)' /\ InOrder(stack, NotNested)' /\ OneEach(msglist)'
  BY <1>3, <1>5, <1>7, <1>10, InOrderFewer, FrameTypes DEF Core, TopReturns
<1> QED BY <1>9, <1>10, <1>11, <1>12, <1>13, <1>14 DEF XhrInv, Core

-----------------------------------------------------------------------------
(***************************************************************************)
(* The rest of the C stack                                                 *)
(***************************************************************************)

\* A step that changes the stack only
LEMMA StackStep ==
  ASSUME XhrInv, fault = None,
         UNCHANGED <<alive, held, curl_h, easy, ownMulti, headers, slist, sent, async, ready_state,
                     events, hbuf, resp, msglist, last, past, calls, fault>>,
         stack' \in Seq(Frames), Stacked(stack'), TopReturns(stack'), InOrder(stack', NotNested),
         \A y \in Xhrs : \A k \in {"js", "ret", "cb"} : Has(stack', k, y) => Has(stack, k, y),
         \A y \in Xhrs : \A k \in {"perform", "null", "sent"} : Has(stack', k, y) <=> Has(stack, k, y),
         \A y \in Xhrs : \A ev \in Ending : Due(stack', y, ev) => Due(stack, y, ev),
         TopInv'
  PROVE  XhrInv'
<1>1. TypeOK /\ Core /\ \A y \in Xhrs : RequestInv(y)
  BY Given DEF XhrInv
<1>2. TypeOK'
  <2>1. /\ calls' \in [Xhrs -> Nat] /\ \E b \in Budgets : \A y \in Xhrs : calls'[y] <= b[y]
    BY <1>1 DEF TypeOK
  <2> QED BY <1>1, <2>1, TypeFacts, TypeNext
<1>3. FaultCause' /\ NotNested' \subseteq NotNested
  BY <1>1, CauseKept, TypeFacts DEF None
<1>4. ASSUME NEW y \in Xhrs
      PROVE  RequestInv(y)'
  BY <1>1, Unmoved
<1>5. InOrder(stack, NotNested)' /\ OneEach(msglist)'
  BY <1>1, <1>3, InOrderFewer DEF Core
<1> QED BY <1>2, <1>3, <1>4, <1>5 DEF XhrInv, Core

\* A stack of one frame of the loop
LEMMA LoopFrame ==
  ASSUME NEW k \in {"socket", "check"}, NEW X
  PROVE  LET t == <<F(k, None)>> IN
         /\ t \in Seq(Frames) /\ t # <<>> /\ t[1] = F(k, None) /\ Tail(t) = <<>>
         /\ Stacked(t) /\ TopReturns(t) /\ InOrder(t, X) /\ Quiet(t)
         /\ \A kk, y : kk # k => ~Has(t, kk, y)
         /\ \A y, ev : ~Due(t, y, ev)
<1> DEFINE f == F(k, None)
           t == <<f>>
           e == << >>
           v == <<f>> \o e
<1>1. /\ f \in Frames /\ f.k = k /\ (\A y, ev : f # Emit(y, ev)) /\ ~IsEnding(f)
  BY FrameTypes DEF IsEnding
<1> HIDE DEF f
<1>2. /\ e \in Seq(Frames) /\ Stacked(e) /\ Quiet(e) /\ InOrder(e, X)
      /\ \A kk, y : ~Has(e, kk, y)
      /\ \A y, ev : ~Due(e, y, ev)
  BY DEF Stacked, Quiet, InOrder, Has, Due
<1>3. t = v
  <2>1. <<f>> \in Seq(Frames)
    BY <1>1
  <2> QED BY <2>1, ConcatEmptySeq
<1> HIDE DEF e
<1>4. v \in Seq(Frames) /\ v # <<>> /\ v[1] = f /\ Tail(v) = e
  BY <1>1, <1>2, PushShape
<1>5. Stacked(v) /\ InOrder(v, X)
  <2>1. e = <<>>
    BY DEF e
  <2> QED BY <1>1, <1>2, <2>1, StackedPush, InOrderPush DEF Outermost
<1>6. /\ \A kk, y : kk # k => ~Has(v, kk, y)
      /\ \A y, ev : ~Due(v, y, ev)
  BY <1>1, <1>2, PushHas, PushDue
<1>7. Quiet(v) /\ TopReturns(v)
  BY <1>1, <1>4, <1>5, QuietStack DEF TopReturns
<1> HIDE DEF v, t
<1>8. /\ t \in Seq(Frames) /\ t # <<>> /\ t[1] = f /\ Tail(t) = <<>>
      /\ Stacked(t) /\ TopReturns(t) /\ InOrder(t, X) /\ Quiet(t)
      /\ \A kk, y : kk # k => ~Has(t, kk, y)
      /\ \A y, ev : ~Due(t, y, ev)
  BY <1>3, <1>4, <1>5, <1>6, <1>7 DEF e
<1> QED BY <1>8 DEF f, t

\* uvPollCb and uvTimerCb
LEMMA SocketActionStep ==
  ASSUME XhrInv, SocketAction
  PROVE  XhrInv'
<1>1. fault = None /\ stack = <<>>
  BY DEF SocketAction
<1>2. /\ UNCHANGED <<alive, held, curl_h, easy, ownMulti, headers, slist, sent, async, ready_state,
                     events, hbuf, resp, msglist, last, past, calls, fault>>
      /\ stack' = <<F("socket", None)>>
  BY DEF SocketAction, object, request
<1> DEFINE t == <<F("socket", None)>>
<1>3. /\ t \in Seq(Frames) /\ t # <<>> /\ t[1] = F("socket", None)
      /\ Stacked(t) /\ TopReturns(t) /\ InOrder(t, NotNested)
      /\ \A kk, y : kk # "socket" => ~Has(t, kk, y)
      /\ \A y, ev : ~Due(t, y, ev)
  BY LoopFrame
<1>4. \A k, y : ~Has(stack, k, y)
  BY <1>1 DEF Has
<1>5. stack' = t
  BY <1>2
<1> HIDE DEF t
<1>6. TopInv'
  BY <1>3, <1>5, FrameTypes, NoEventNext
<1> QED BY <1>1, <1>2, <1>3, <1>4, <1>5, <1>6, StackStep

\* A stack whose innermost frame is one of the loop is that frame.
LEMMA OnlyLoopFrame ==
  ASSUME NEW s \in Seq(Frames), Stacked(s), s # <<>>, NEW k \in {"socket", "check"}, s[1].k = k
  PROVE  s = <<F(k, None)>> /\ Tail(s) = <<>>
<1>1. Tail(s) = <<>>
  BY UnderTop
<1>2. s[1] \in Frames /\ s = <<s[1]>> \o Tail(s)
  BY StackShape
<1>3. s[1] = F(k, None)
  BY <1>2 DEF Frames, Calling, F
<1>4. <<s[1]>> \in Seq(Frames)
  BY <1>2
<1>5. <<s[1]>> \o <<>> = <<s[1]>>
  BY <1>4, ConcatEmptySeq
<1> QED BY <1>1, <1>2, <1>3, <1>5

\* curl_multi_socket_action returns.
LEMMA SocketReturnsStep ==
  ASSUME XhrInv, SocketReturns
  PROVE  XhrInv'
<1>1. fault = None /\ stack # <<>> /\ stack[1].k = "socket"
  BY DEF SocketReturns, Top
<1>2. stack \in Seq(Frames) /\ Stacked(stack)
  BY <1>1, Given
<1> DEFINE t == <<F("check", None)>>
           u == <<F("socket", None)>>
<1>3. stack = u /\ Tail(stack) = <<>>
  BY <1>1, <1>2, OnlyLoopFrame
<1>4. /\ UNCHANGED <<alive, held, curl_h, easy, ownMulti, headers, slist, sent, async, ready_state,
                     events, hbuf, resp, msglist, last, past, calls, fault>>
      /\ stack' = t \o Tail(stack)
  BY DEF SocketReturns, object, request
<1>5. /\ t \in Seq(Frames) /\ t # <<>> /\ t[1] = F("check", None)
      /\ Stacked(t) /\ TopReturns(t) /\ InOrder(t, NotNested)
      /\ \A kk, y : kk # "check" => ~Has(t, kk, y)
      /\ \A y, ev : ~Due(t, y, ev)
  BY LoopFrame
<1>6. \A kk, y : kk # "socket" => ~Has(u, kk, y)
  BY LoopFrame
<1> HIDE DEF t, u
<1>7. stack' = t
  BY <1>3, <1>4, <1>5, ConcatEmptySeq
<1>8. TopInv'
  BY <1>5, <1>7, FrameTypes, NoEventNext
<1> QED BY <1>1, <1>3, <1>4, <1>5, <1>6, <1>7, <1>8, StackStep

\* ijCheckMultiInfo: the next message is of a transfer that has ended, whose handle
\* the request still has.
LEMMA CheckMultiInfoStep ==
  ASSUME XhrInv, CheckMultiInfo
  PROVE  XhrInv'
<1>1. fault = None /\ stack # <<>> /\ stack[1].k = "check"
  BY DEF CheckMultiInfo, Top
<1>2. /\ TypeOK /\ Core /\ stack \in Seq(Frames) /\ Stacked(stack) /\ msglist \in Seq(Messages)
      /\ OneEach(msglist) /\ \A y \in Xhrs : RequestInv(y)
  BY <1>1, Given DEF XhrInv
<1> DEFINE u == <<F("check", None)>>
<1>3. stack = u /\ Tail(stack) = <<>>
  BY <1>1, <1>2, OnlyLoopFrame
<1>4. /\ \A kk, y : kk # "check" => ~Has(u, kk, y)
      /\ \A y, ev : ~Due(u, y, ev)
      /\ \A X : InOrder(u, X)
      /\ Quiet(u)
  BY LoopFrame
<1> HIDE DEF u
<1>5. UNCHANGED <<alive, held, curl_h, easy, ownMulti, sent, async, events, hbuf, resp, last, past, calls>>
  BY DEF CheckMultiInfo, object
<1>6. CASE msglist = <<>>
  <2>1. /\ UNCHANGED <<alive, held, curl_h, easy, ownMulti, headers, slist, sent, async, ready_state,
                       events, hbuf, resp, msglist, last, past, calls, fault>>
        /\ stack' = <<>>
    BY <1>3, <1>5, <1>6 DEF CheckMultiInfo
  <2>2. /\ <<>> \in Seq(Frames) /\ Stacked(<<>>) /\ TopReturns(<<>>) /\ InOrder(<<>>, NotNested)
        /\ \A kk, y : ~Has(<<>>, kk, y)
        /\ \A y, ev : ~Due(<<>>, y, ev)
    BY DEF Stacked, TopReturns, InOrder, Has, Due
  <2>3. TopInv'
    BY <2>1, NoEventNext
  <2> QED BY <1>1, <1>3, <1>4, <2>1, <2>2, <2>3, StackStep
<1>7. CASE msglist # <<>>
  <2>1. PICK x \in Xhrs, res \in Results : Head(msglist).x = x /\ Head(msglist).res = res
    <3>1. Head(msglist) \in Messages
      BY <1>2, <1>7, TailFacts
    <3> QED BY <3>1 DEF Messages
  <2> DEFINE h == FreedHeaders(x, headers[x])
             t == DoneEvents(x, res) \o <<F("null", x)>> \o stack
  <2>2. /\ Listed(msglist, x) /\ Tail(msglist) \in Seq(Messages) /\ OneEach(Tail(msglist))
        /\ ~Listed(Tail(msglist), x)
        /\ \A y \in Xhrs : y # x => (Listed(Tail(msglist), y) <=> Listed(msglist, y))
    BY <1>2, <1>7, <2>1, TailFacts
  <2>3. HandleInv(x) /\ DropInv(x) /\ HeadersInv(x) /\ SentInv(x) /\ UnderWay(x) /\ EventInv(x)
    BY <1>2 DEF RequestInv
  <2>4. easy[x] = "multi" /\ curl_h[x] /\ alive[x]
    BY <2>2, <2>3 DEF HandleInv
  <2>5. /\ msglist' = Tail(msglist) /\ fault' = None
        /\ headers' = [headers EXCEPT ![x] = h]
        /\ slist' = [slist EXCEPT ![x] = FALSE]
        /\ ready_state' = [ready_state EXCEPT ![x] = DONE]
        /\ stack' = t
    <3>1. /\ msglist' = Tail(msglist)
          /\ fault' = IF curl_h[x] THEN fault ELSE "check"
          /\ headers' = [headers EXCEPT ![x] = FreedHeaders(x, @)]
          /\ slist' = [slist EXCEPT ![x] = FALSE]
          /\ ready_state' = [ready_state EXCEPT ![x] = DONE]
          /\ stack' = t
      BY <1>7, <2>1 DEF CheckMultiInfo
    <3> QED BY <1>1, <1>2, <2>4, <3>1, TypeFacts
  <2>6. /\ t \in Seq(Frames) /\ t # <<>>
        /\ t[1] = Emit(x, "readystatechange") /\ t[2].k = "emit"
        /\ Stacked(t) /\ InOrder(t, NotNested)
        /\ \A kk, y : kk # "emit" => (Has(t, kk, y) <=> (kk = "null" /\ y = x) \/ Has(stack, kk, y))
        /\ \A y, ev : y # x => (Due(t, y, ev) <=> Due(stack, y, ev))
    <3>1. Follows(F("null", x), stack[1])
      BY <1>1, FrameTypes DEF Follows
    <3>2. Quiet(stack) /\ InOrder(stack, NotNested) /\ \A ev \in Ending : ~Due(stack, x, ev)
      BY <1>3, <1>4
    <3> QED BY <1>1, <1>2, <3>1, <3>2, DonePush
  <2> HIDE DEF t
  <2>7. \A k, y : k \notin {"emit", "check"} => (Has(stack', k, y) <=> k = "null" /\ y = x)
    BY <1>3, <1>4, <2>5, <2>6
  <2>8. \A k, y : k # "check" => ~Has(stack, k, y)
    BY <1>3, <1>4
  <2>9. /\ headers'[x] = h /\ ready_state'[x] = DONE
        /\ \A y \in Xhrs : y # x => headers'[y] = headers[y] /\ ready_state'[y] = ready_state[y]
    BY <1>2, <2>5, TypeFacts
  <2>10. TypeOK'
    <3>1. /\ calls' \in [Xhrs -> Nat] /\ \E b \in Budgets : \A y \in Xhrs : calls'[y] <= b[y]
      BY <1>2, <1>5 DEF TypeOK
    <3>2. h \in {None, "live", "dangling"}
      BY <1>2, TypeFacts DEF FreedHeaders
    <3>3. /\ headers' \in [Xhrs -> {None, "live", "dangling"}]
          /\ slist' \in [Xhrs -> BOOLEAN] /\ ready_state' \in [Xhrs -> 0..4]
      BY <1>2, <2>5, <3>2, TypeFacts DEF DONE
    <3> QED BY <1>2, <1>5, <2>2, <2>5, <2>6, <3>1, <3>3, TypeFacts, TypeNext
  <2>11. FaultCause' /\ NotNested' \subseteq NotNested
    BY <1>2, <1>5, <2>5, CauseKept, TypeFacts DEF None
  <2>12. ~Nested(x) => last[x] <= 5
    BY <2>3, <2>4, <2>8 DEF EventInv
  <2>13. last[x] \in 0..10
    BY <1>2, TypeFacts
  <2>14. RequestInv(x)'
    <3>1. HandleInv(x)'
      BY <1>5, <2>2, <2>3, <2>4, <2>5, <2>7, <2>8 DEF HandleInv
    <3>2. DropInv(x)'
      BY <1>5, <2>3, <2>4 DEF DropInv
    <3>3. HeadersInv(x)'
      BY <1>5, <2>4, <2>7 DEF HeadersInv
    <3>4. SentInv(x)' /\ UnderWay(x)'
      BY <1>5, <2>3, <2>4, <2>7, <2>9 DEF SentInv, UnderWay, Nested
    <3>5. EventInv(x)'
      <4>1. \A ev \in Ending : EndPlace(ev) \in 7..9
        BY DEF EndPlace
      <4>2. ~Nested(x) => \A ev \in Ending : last[x] <= EndPlace(ev)
        BY <2>12, <2>13, <4>1
      <4>3. Has(stack', "null", x)
        BY <2>7
      <4> QED BY <1>5, <2>4, <4>2, <4>3 DEF EventInv, Nested, Transfers
    <3> QED BY <3>1, <3>2, <3>3, <3>4, <3>5 DEF RequestInv
  <2>15. ASSUME NEW y \in Xhrs, y # x
         PROVE  RequestInv(y)'
    <3>1. \A k \in {"js", "ret", "cb", "perform", "null", "sent"} : Has(stack', k, y) <=> Has(stack, k, y)
      BY <2>7, <2>8, <2>15
    <3> QED BY <1>2, <1>5, <2>2, <2>5, <2>6, <2>9, <2>15, <3>1, Unmoved
  <2>16. TopInv'
    <3>1. ~Nested(x)' => last'[x] <= 6
      BY <1>5, <2>12, <2>13 DEF Nested
    <3> QED BY <2>5, <2>6, <2>9, <3>1, FrameTypes DEF TopInv, Top, Ready
  <2>17. Stacked(stack)' /\ TopReturns(stack)' /\ InOrder(stack, NotNested)' /\ OneEach(msglist)'
    BY <2>2, <2>5, <2>6, <2>11, InOrderFewer, FrameTypes DEF TopReturns
  <2> QED BY <2>10, <2>11, <2>14, <2>15, <2>16, <2>17 DEF XhrInv, Core
<1> QED BY <1>6, <1>7


\* curlmDoneCb ends and ijCheckMultiInfo cleans the handle up.
LEMMA DoneReturnsStep ==
  ASSUME XhrInv, DoneReturns
  PROVE  XhrInv'
<1>1. fault = None /\ stack # <<>> /\ stack[1].k = "null" /\ stack' = Tail(stack)
  BY DEF DoneReturns, Top
<1>2. /\ TypeOK /\ Core /\ stack \in Seq(Frames) /\ Stacked(stack) /\ stack[1] \in Frames
      /\ \A y \in Xhrs : RequestInv(y)
  BY <1>1, Given, StackShape DEF XhrInv
<1>3. PICK x \in Xhrs : stack[1].x = x /\ Has(stack, "null", x)
  <2>1. stack[1].x \in Xhrs
    BY <1>1, <1>2, FrameTypes DEF Calling
  <2>2. Has(stack, "null", stack[1].x)
    BY <1>1, <1>2, TailFrames
  <2> QED BY <2>1, <2>2
<1>4. /\ UNCHANGED <<alive, held, ownMulti, headers, slist, sent, async, ready_state, events, hbuf,
                     resp, msglist, last, calls>>
      /\ curl_h' = [curl_h EXCEPT ![x] = FALSE]
      /\ easy' = [easy EXCEPT ![x] = "freed"]
      /\ fault' = CASE ~alive[x] -> "object"
                    [] alive[x] /\ easy[x] = "freed" -> "easy"
                    [] OTHER -> fault
      /\ past' = [past EXCEPT ![x] = @ \union {"finished"}]
  BY <1>3 DEF DoneReturns, object, request, HandleAfterDone, Remember
<1>5. HandleInv(x) /\ DropInv(x) /\ HeadersInv(x) /\ SentInv(x) /\ UnderWay(x) /\ EventInv(x)
  BY <1>2 DEF RequestInv
<1>6. /\ fault' \in {None, "object", "easy"}
      /\ fault' = "object" => "dropped" \in past[x]
      /\ fault' = "easy" => "abortInside" \in past[x] \/ "dropped" \in past[x]
      /\ fault' = None => alive[x] /\ easy[x] = "multi"
  <2>1. alive[x] \in BOOLEAN
    BY <1>2, TypeFacts
  <2>2. CASE ~alive[x]
    <3>1. fault' = "object"
      BY <1>4, <2>2
    <3>2. "dropped" \in past[x]
      BY <1>3, <1>5, <2>2 DEF HandleInv, DropInv
    <3> QED BY <3>1, <3>2 DEF None
  <2>3. CASE alive[x] /\ easy[x] = "freed"
    <3>1. fault' = "easy"
      BY <1>4, <2>3
    <3>2. "abortInside" \in past[x] \/ "dropped" \in past[x]
      BY <1>3, <1>5, <2>3 DEF HandleInv
    <3> QED BY <3>1, <3>2 DEF None
  <2>4. CASE alive[x] /\ easy[x] # "freed"
    <3>1. fault' = fault
      BY <1>4, <2>4
    <3>2. easy[x] = "multi"
      BY <1>3, <1>5, <2>4 DEF HandleInv
    <3> QED BY <1>1, <2>4, <3>1, <3>2 DEF None
  <2> QED BY <2>1, <2>2, <2>3, <2>4
<1>7. /\ past' \in [Xhrs -> SUBSET Deeds] /\ past'[x] = past[x] \union {"finished"}
      /\ \A y \in Xhrs : past[y] \subseteq past'[y] /\ (y # x => past'[y] = past[y])
  BY <1>2, <1>4, Remembered, TypeFacts DEF Deeds
<1> DEFINE u == <<F("check", None)>>
<1>8. /\ u \in Seq(Frames) /\ u # <<>> /\ u[1] = F("check", None)
      /\ Stacked(u) /\ TopReturns(u) /\ InOrder(u, NotNested)
      /\ \A kk, y : kk # "check" => ~Has(u, kk, y)
      /\ \A y, ev : ~Due(u, y, ev)
  BY LoopFrame
<1> HIDE DEF u
<1>9. stack' = u
  <2> DEFINE t == Tail(stack)
  <2>1. t \in Seq(Frames) /\ Stacked(t) /\ t # <<>> /\ Follows(stack[1], t[1])
    BY <1>1, <1>2, StackShape, StackedTail, UnderTop DEF Outermost
  <2>2. t[1].k = "check"
    BY <1>1, <2>1 DEF Follows
  <2> HIDE DEF t
  <2>3. t = <<F("check", None)>>
    BY <2>1, <2>2, OnlyLoopFrame
  <2> QED BY <1>1, <2>3 DEF t, u
<1>10. \A k, y : k # "check" => (Has(stack, k, y) <=> k = "null" /\ y = x)
  <2>1. \A k, y : Has(stack, k, y) <=> (stack[1].k = k /\ stack[1].x = y) \/ Has(Tail(stack), k, y)
    BY <1>1, <1>2, TailFrames
  <2>2. Tail(stack) = u
    BY <1>1, <1>9
  <2>3. \A k, y : k # "check" => ~Has(Tail(stack), k, y)
    BY <1>8, <2>2
  <2> QED BY <1>1, <1>3, <2>1, <2>3
<1>11. TypeOK'
  <2>1. /\ calls' \in [Xhrs -> Nat] /\ \E b \in Budgets : \A y \in Xhrs : calls'[y] <= b[y]
    BY <1>2, <1>4 DEF TypeOK
  <2>2. /\ curl_h' \in [Xhrs -> BOOLEAN]
        /\ easy' \in [Xhrs -> {"idle", "multi", "own", "freed"}]
    BY <1>2, <1>4, TypeFacts
  <2> QED BY <1>2, <1>4, <1>6, <1>7, <1>8, <1>9, <2>1, <2>2, TypeFacts, TypeNext
<1>12. FaultCause' /\ NotNested' \subseteq NotNested
  <2>1. /\ fault' = "object" => \E y \in Xhrs : past'[y] \intersect {"dropped"} # {}
        /\ fault' = "easy" => \E y \in Xhrs : past'[y] \intersect {"abortInside", "dropped"} # {}
    BY <1>6, <1>7
  <2> QED BY <1>2, <1>6, <1>7, <2>1, CauseKept, TypeFacts DEF None
<1>13. /\ easy'[x] = "freed" /\ ~curl_h'[x]
       /\ \A y \in Xhrs : y # x => easy'[y] = easy[y] /\ curl_h'[y] = curl_h[y]
  BY <1>2, <1>4, TypeFacts
<1>14. ASSUME fault' = None
       PROVE  RequestInv(x)'
  <2>1. ~Listed(msglist, x) /\ alive[x] /\ easy[x] = "multi"
    BY <1>3, <1>5, <1>6, <1>14 DEF HandleInv
  <2>2. \A k \in {"js", "ret", "cb", "perform", "null", "sent"} : ~Has(stack', k, x)
    BY <1>8, <1>9
  <2>3. HandleInv(x)'
    BY <1>4, <1>7, <1>13, <2>1, <2>2 DEF HandleInv
  <2>4. DropInv(x)' /\ HeadersInv(x)'
    BY <1>13, <2>2 DEF DropInv, HeadersInv
  <2>5. SentInv(x)'
    <3>1. ~Nested(x) => sent[x]
      BY <1>5, <2>1 DEF SentInv
    <3> QED BY <1>4, <1>7, <1>13, <2>2, <3>1 DEF SentInv, Nested
  <2>6. UnderWay(x)'
    BY <1>7 DEF UnderWay, Excused
  <2>7. EventInv(x)'
    BY <1>8, <1>9, <1>13 DEF EventInv, Transfers
  <2> QED BY <2>3, <2>4, <2>5, <2>6, <2>7 DEF RequestInv
<1>15. ASSUME NEW y \in Xhrs, y # x
       PROVE  RequestInv(y)'
  <2>1. \A k \in {"js", "ret", "cb", "perform", "null", "sent"} : Has(stack', k, y) <=> Has(stack, k, y)
    BY <1>8, <1>9, <1>10, <1>15
  <2> QED BY <1>2, <1>4, <1>7, <1>8, <1>9, <1>13, <1>15, <2>1, Unmoved
<1>16. TopInv'
  BY <1>8, <1>9, FrameTypes, NoEventNext
<1>17. Stacked(stack)' /\ TopReturns(stack)' /\ InOrder(stack, NotNested)' /\ OneEach(msglist)'
  BY <1>2, <1>4, <1>8, <1>9, <1>12, InOrderFewer DEF Core
<1> QED BY <1>11, <1>12, <1>14, <1>15, <1>16, <1>17 DEF XhrInv, Core

\* A callback of libcurl, the allocation of curlmProcessCb or send() returns.
LEMMA PopStep ==
  ASSUME XhrInv, Pop
  PROVE  XhrInv'
<1>1. /\ fault = None /\ stack # <<>> /\ stack[1].k \in {"cb", "alloc", "sent"}
      /\ stack' = Tail(stack)
  BY DEF Pop
<1>2. /\ TypeOK /\ Core /\ stack \in Seq(Frames) /\ Stacked(stack) /\ stack[1] \in Frames
      /\ InOrder(stack, NotNested) /\ \A y \in Xhrs : RequestInv(y)
  BY <1>1, Given, StackShape DEF XhrInv
<1>3. PICK x \in Xhrs : stack[1].x = x /\ Has(stack, stack[1].k, x)
  <2>1. stack[1].x \in Xhrs
    BY <1>1, <1>2, FrameTypes DEF Calling
  <2>2. Has(stack, stack[1].k, stack[1].x)
    BY <1>1, <1>2, TailFrames
  <2> QED BY <2>1, <2>2
<1>4. /\ UNCHANGED <<alive, held, curl_h, easy, ownMulti, headers, slist, async, ready_state,
                     events, hbuf, resp, msglist, last, past, calls>>
      /\ fault' = IF stack[1].k = "cb" /\ ~alive[x] THEN "object" ELSE fault
      /\ sent' = IF stack[1].k = "sent" THEN [sent EXCEPT ![x] = TRUE] ELSE sent
  BY <1>1, <1>3 DEF Pop, object, Top
<1>5. HandleInv(x) /\ DropInv(x) /\ HeadersInv(x) /\ SentInv(x) /\ UnderWay(x) /\ EventInv(x)
  BY <1>2 DEF RequestInv
<1>6. fault' = None
  <2>1. stack[1].k = "cb" => alive[x]
    BY <1>3, <1>5 DEF HandleInv
  <2> QED BY <1>1, <1>4, <2>1
<1> DEFINE t == Tail(stack)
<1>7. /\ t \in Seq(Frames) /\ Stacked(t) /\ InOrder(t, NotNested) /\ TopReturns(t)
      /\ t # <<>> => Follows(stack[1], t[1]) /\ t[1].k # "alloc"
      /\ t # <<>> /\ stack[1].k # "alloc" => (t[1].k = "emit" => IsEnding(t[1]))
      /\ stack[1].k = "alloc" => t # <<>>
  <2>1. TopReturns(t)
    BY <1>1, <1>2, UnderTop DEF TopReturns
  <2> QED BY <1>1, <1>2, <2>1, StackShape, StackedTail, InOrderTail, UnderTop DEF Outermost
<1>8. /\ \A k, y : Has(stack, k, y) <=> (stack[1].k = k /\ stack[1].x = y) \/ Has(t, k, y)
      /\ \A y, ev : Due(t, y, ev) => Due(stack, y, ev)
  BY <1>1, <1>2, TailFrames
<1>9. stack' = t
  BY <1>1
<1> HIDE DEF t
<1>10. CASE stack[1].k \in {"cb", "alloc"}
  <2>1. UNCHANGED <<alive, held, curl_h, easy, ownMulti, headers, slist, sent, async, ready_state,
                    events, hbuf, resp, msglist, last, past, calls, fault>>
    BY <1>1, <1>4, <1>6, <1>10
  <2>2. \A y \in Xhrs : \A k \in {"perform", "null", "sent"} : Has(stack', k, y) <=> Has(stack, k, y)
    BY <1>8, <1>9, <1>10
  <2>3. TopInv'
    <3>1. CASE stack[1].k = "cb"
      BY <1>7, <1>9, <3>1, NoEventNext
    <3>2. CASE stack[1].k = "alloc"
      <4>1. stack'[1] = Emit(x, "progress")
        BY <1>3, <1>7, <1>9, <3>2 DEF Follows
      <4>2. ~Nested(x) => Ready(x, "progress", stack[2])
        BY <1>1, <1>2, <1>3, <3>2 DEF Core, TopInv, Top
      <4>3. Transfers(x)' <=> Transfers(x)
        BY <2>1, <2>2 DEF Transfers
      <4>4. ASSUME NEW g, NEW h, Ready(x, "progress", g)
            PROVE  Ready(x, "progress", h)'
        BY <2>1, <4>3, <4>4 DEF Ready
      <4> QED BY <2>1, <4>1, <4>2, <4>4, FrameTypes DEF TopInv, Top, Nested
    <3> QED BY <1>10, <3>1, <3>2
  <2> QED BY <1>1, <1>7, <1>8, <1>9, <2>1, <2>2, <2>3, StackStep
<1>11. CASE stack[1].k = "sent"
  <2>1. /\ sent' = [sent EXCEPT ![x] = TRUE]
        /\ \A k, y : Has(stack', k, y) => Has(stack, k, y)
        /\ \A y : \A k \in {"perform", "null"} : Has(stack', k, y) <=> Has(stack, k, y)
        /\ \A y : y # x => (Has(stack', "sent", y) <=> Has(stack, "sent", y))
        /\ \A y, ev : Due(stack', y, ev) => Due(stack, y, ev)
    BY <1>3, <1>4, <1>8, <1>9, <1>11
  <2>2. sent' \in [Xhrs -> BOOLEAN] /\ sent'[x] /\ \A y \in Xhrs : y # x => sent'[y] = sent[y]
    BY <1>2, <2>1, TypeFacts
  <2>3. TypeOK'
    <3>1. /\ calls' \in [Xhrs -> Nat] /\ \E b \in Budgets : \A y \in Xhrs : calls'[y] <= b[y]
      BY <1>2, <1>4 DEF TypeOK
    <3> QED BY <1>2, <1>4, <1>6, <1>7, <1>9, <2>2, <3>1, TypeFacts, TypeNext
  <2>4. FaultCause' /\ NotNested' \subseteq NotNested
    BY <1>2, <1>4, <1>6, CauseKept, TypeFacts DEF None
  <2>5. RequestInv(x)'
    <3>1. Has(stack, "sent", x)
      BY <1>3, <1>11
    <3>2. HandleInv(x)'
      BY <1>4, <1>5, <2>1 DEF HandleInv
    <3>3. DropInv(x)' /\ HeadersInv(x)'
      BY <1>4, <1>5, <2>1 DEF DropInv, HeadersInv
    <3>4. SentInv(x)'
      BY <1>4, <1>5, <2>1, <2>2, <3>1 DEF SentInv, Nested
    <3>5. UnderWay(x)'
      <4>1. Nested(x) \/ ready_state[x] = DONE
        BY <1>5, <3>1 DEF SentInv
      <4> QED BY <1>4, <4>1 DEF UnderWay, Excused, Nested, DONE
    <3>6. EventInv(x)'
      BY <1>4, <1>5, <2>1 DEF EventInv, Nested, Transfers
    <3> QED BY <3>2, <3>3, <3>4, <3>5, <3>6 DEF RequestInv
  <2>6. ASSUME NEW y \in Xhrs, y # x
        PROVE  RequestInv(y)'
    BY <1>2, <1>4, <2>1, <2>2, <2>6, Unmoved
  <2>7. TopInv'
    BY <1>7, <1>9, <1>11, NoEventNext
  <2>8. Stacked(stack)' /\ TopReturns(stack)' /\ InOrder(stack, NotNested)' /\ OneEach(msglist)'
    BY <1>2, <1>4, <1>7, <1>9, <2>4, InOrderFewer DEF Core
  <2> QED BY <2>3, <2>4, <2>5, <2>6, <2>7, <2>8 DEF XhrInv, Core
<1> QED BY <1>1, <1>10, <1>11

-----------------------------------------------------------------------------
(***************************************************************************)
(* Events                                                                  *)
(***************************************************************************)

\* The places of the events are in their range, those of the end known.
LEMMA Places ==
  ASSUME TypeOK, NEW x \in Xhrs, NEW ev \in EventNames
  PROVE  /\ Place(x, ev) \in 1..10
         /\ ev \in Ending => Place(x, ev) = EndPlace(ev)
         /\ ev = "abort" => Place(x, ev) = 10
         /\ ev = "loadstart" => Place(x, ev) = 2
         /\ ev = "progress" => Place(x, ev) = 5
         /\ ev = "readystatechange" =>
              /\ ready_state[x] = OPENED => Place(x, ev) = 1
              /\ ready_state[x] = HEADERS_RECEIVED => Place(x, ev) = 3
              /\ ready_state[x] = LOADING => Place(x, ev) = 4
              /\ ready_state[x] = DONE => Place(x, ev) = 6
<1>1. ready_state[x] \in {0, 1, 2, 3, 4}
  <2>1. ready_state[x] \in 0..4
    BY TypeFacts
  <2> QED BY <2>1
<1>2. CASE ev = "readystatechange"
  <2> DEFINE q == <<1, 1, 3, 4, 6>>
  <2>1. q[1] = 1 /\ q[2] = 1 /\ q[3] = 3 /\ q[4] = 4 /\ q[5] = 6
    OBVIOUS
  <2>2. Place(x, ev) = q[ready_state[x] + 1]
    BY <1>2 DEF Place
  <2> HIDE DEF q
  <2>3. /\ ready_state[x] \in {0, 1} => Place(x, ev) = 1
        /\ ready_state[x] = 2 => Place(x, ev) = 3
        /\ ready_state[x] = 3 => Place(x, ev) = 4
        /\ ready_state[x] = 4 => Place(x, ev) = 6
    BY <2>1, <2>2
  <2> QED BY <1>1, <1>2, <2>3 DEF Ending, OPENED, HEADERS_RECEIVED, LOADING, DONE
<1>3. CASE ev # "readystatechange"
  BY <1>3 DEF Place, EventNames, Ending, EndPlace
<1> QED BY <1>2, <1>3

\* A request whose events of the end are being delivered is not transferred.
LEMMA AtTheEnd ==
  ASSUME NEW x \in Xhrs, HandleInv(x), SentInv(x), ~Nested(x),
         Has(stack, "null", x) \/ Has(stack, "sent", x)
  PROVE  /\ ~(easy[x] \in {"multi", "own"} /\ ~Has(stack, "null", x))
         /\ ~Transfers(x)
BY DEF HandleInv, SentInv, Transfers

\* An event is delivered for a callback of libcurl, for a method, or for the end
\* of a request.
LEMMA EventFrames ==
  ASSUME stack \in Seq(Frames), Stacked(stack), stack # <<>>, NEW x, NEW ev \in EventNames,
         stack[1] = Emit(x, ev)
  PROVE  /\ Tail(stack) # <<>> /\ Tail(stack)[1] = stack[2] /\ Follows(stack[1], stack[2])
         /\ \/ stack[2].k \in {"cb", "ret"} /\ Has(stack, stack[2].k, x)
            \/ Has(stack, "null", x) \/ Has(stack, "sent", x)
         /\ ev \in Ending \/ stack[2].k = "emit" =>
              Has(stack, "null", x) \/ Has(stack, "sent", x)
<1>1. stack[1].k = "emit" /\ stack[1].x = x /\ stack[1].ev = ev
  BY FrameTypes
<1> DEFINE t == Tail(stack)
<1>2. /\ t \in Seq(Frames) /\ Stacked(t) /\ t # <<>> /\ t[1] = stack[2] /\ Follows(stack[1], t[1])
      /\ t[1].k = "emit" => IsEnding(t[1])
  BY <1>1, StackShape, StackedTail, UnderTop DEF Outermost
<1>3. /\ \A k, y : Has(t, k, y) => Has(stack, k, y)
      /\ \A k, y : t[1].k = k /\ t[1].x = y => Has(t, k, y)
      /\ \A y, e : t[1] = Emit(y, e) => Due(t, y, e)
  BY <1>2, TailFrames
<1>4. t[1] \in Frames
  BY <1>2
<1>5. t[1].x = x
  BY <1>1, <1>2 DEF Follows
<1> HIDE DEF t
<1>6. ev \in Ending => Has(stack, "null", x) \/ Has(stack, "sent", x)
  <2> SUFFICES ASSUME ev \in Ending PROVE Has(stack, "null", x) \/ Has(stack, "sent", x)
    OBVIOUS
  <2>1. Due(stack, x, ev)
    BY TailFrames
  <2> QED BY <2>1, DueEnds
<1>7. t[1].k = "emit" => Has(stack, "null", x) \/ Has(stack, "sent", x)
  <2> SUFFICES ASSUME t[1].k = "emit" PROVE Has(stack, "null", x) \/ Has(stack, "sent", x)
    OBVIOUS
  <2>1. t[1] = Emit(x, t[1].ev) /\ t[1].ev \in Ending
    BY <1>2, <1>4, <1>5, FrameTypes DEF IsEnding
  <2>2. Due(t, x, t[1].ev)
    BY <1>3, <2>1
  <2>3. Has(t, "null", x) \/ Has(t, "sent", x)
    BY <1>2, <2>1, <2>2, DueEnds
  <2> QED BY <1>3, <2>3
<1>8. ev \notin Ending => t[1].k \in {"cb", "ret", "emit"}
  <2>1. ev \notin Ending => ev \in {"loadstart", "progress", "abort", "readystatechange"}
    BY DEF Ending, EventNames
  <2> QED BY <1>1, <1>2, <2>1 DEF Follows, IsEnding
<1>9. \/ t[1].k \in {"cb", "ret"} /\ Has(stack, t[1].k, x)
      \/ Has(stack, "null", x) \/ Has(stack, "sent", x)
  BY <1>3, <1>5, <1>6, <1>7, <1>8
<1> QED BY <1>2, <1>6, <1>7, <1>9 DEF t

\* The event that is next does not come before the last one, and what may follow
\* does not come before it.
LEMMA EventNext ==
  ASSUME XhrInv, fault = None, stack # <<>>, NEW x \in Xhrs, NEW ev \in EventNames,
         stack[1] = Emit(x, ev), ~Nested(x)
  PROVE  LET p == Place(x, ev) IN
         /\ p >= last[x] \/ p = 1
         /\ easy[x] \in {"multi", "own"} /\ ~Has(stack, "null", x) => p <= 5
         /\ Transfers(x) =>
              /\ resp[x] = None /\ ~hbuf[x] => p <= 2
              /\ resp[x] # "body" => p <= 3
              /\ ready_state[x] = HEADERS_RECEIVED => p <= 4
              /\ ready_state[x] = LOADING => resp[x] = "body"
         /\ \A e \in Ending : Due(Tail(stack), x, e) => p <= EndPlace(e)
<1> DEFINE p == Place(x, ev)
<1>1. /\ TypeOK /\ stack \in Seq(Frames) /\ Stacked(stack) /\ InOrder(stack, NotNested) /\ TopInv
      /\ HandleInv(x) /\ SentInv(x) /\ EventInv(x)
  BY Given
<1>2. stack[1].k = "emit" /\ stack[1].x = x /\ stack[1].ev = ev
  BY FrameTypes
<1>3. Ready(x, ev, stack[2])
  BY <1>1, <1>2 DEF TopInv, Top
<1>4. /\ p \in 1..10
      /\ ev \in Ending => p = EndPlace(ev)
      /\ ev = "abort" => p = 10
      /\ ev = "loadstart" => p = 2
      /\ ev = "progress" => p = 5
      /\ ev = "readystatechange" =>
           /\ ready_state[x] = OPENED => p = 1
           /\ ready_state[x] = HEADERS_RECEIVED => p = 3
           /\ ready_state[x] = LOADING => p = 4
           /\ ready_state[x] = DONE => p = 6
  BY <1>1, Places
<1>5. /\ ev \in Ending \/ stack[2].k = "emit" => Has(stack, "null", x) \/ Has(stack, "sent", x)
  BY <1>1, EventFrames
<1>6. /\ last[x] \in 0..10
      /\ \A e \in Ending : EndPlace(e) \in 7..9
      /\ Transfers(x) /\ ready_state[x] = LOADING => resp[x] = "body"
      /\ \A e \in Ending : Due(Tail(stack), x, e) => Due(stack, x, e)
  <2>1. \A e \in Ending : EndPlace(e) \in 7..9
    BY DEF EndPlace
  <2> QED BY <1>1, <2>1, TypeFacts, TailFrames DEF EventInv
<1> HIDE DEF p
<1> SUFFICES /\ p >= last[x] \/ p = 1
             /\ easy[x] \in {"multi", "own"} /\ ~Has(stack, "null", x) => p <= 5
             /\ Transfers(x) =>
                  /\ resp[x] = None /\ ~hbuf[x] => p <= 2
                  /\ resp[x] # "body" => p <= 3
                  /\ ready_state[x] = HEADERS_RECEIVED => p <= 4
             /\ \A e \in Ending : Due(Tail(stack), x, e) => p <= EndPlace(e)
  BY <1>6 DEF p
<1>7. CASE ev = "abort"
  <2>1. easy[x] = "freed" /\ ~Has(stack, "null", x) /\ ~Has(stack, "sent", x)
    BY <1>3, <1>7 DEF Ready
  <2>2. \A e \in Ending : ~Due(stack, x, e)
    BY <1>1, <2>1, DueEnds
  <2>3. p >= last[x]
    BY <1>4, <1>6, <1>7
  <2> QED BY <1>6, <2>1, <2>2, <2>3 DEF Transfers
<1>8. CASE ev = "loadstart"
  <2>1. last[x] <= 2 /\ resp[x] # None /\ p = 2
    BY <1>3, <1>4, <1>8 DEF Ready
  <2> QED BY <1>6, <2>1
<1>9. CASE ev = "progress"
  <2>1. last[x] <= 5 /\ p = 5 /\ (Transfers(x) => ready_state[x] = LOADING /\ resp[x] = "body")
    BY <1>3, <1>4, <1>9 DEF Ready
  <2> QED BY <1>6, <2>1 DEF LOADING, HEADERS_RECEIVED, None
<1>10. CASE ev = "readystatechange"
  <2>1. \/ stack[2].k = "ret" /\ ready_state[x] = OPENED
        \/ stack[2].k = "emit" /\ ready_state[x] = DONE /\ last[x] <= 6
        \/ stack[2].k = "cb" /\ ready_state[x] = HEADERS_RECEIVED /\ last[x] <= 3
                             /\ (resp[x] = "body" \/ hbuf[x])
        \/ stack[2].k = "cb" /\ ready_state[x] = LOADING /\ last[x] <= 4
    BY <1>3, <1>10 DEF Ready
  <2>2. CASE ready_state[x] = OPENED
    <3>1. p = 1
      BY <1>4, <1>10, <2>2
    <3> QED BY <1>6, <3>1
  <2>3. CASE stack[2].k = "emit" /\ ready_state[x] = DONE /\ last[x] <= 6
    <3>1. p = 6
      BY <1>4, <1>10, <2>3
    <3>2. ~(easy[x] \in {"multi", "own"} /\ ~Has(stack, "null", x)) /\ ~Transfers(x)
      BY <1>1, <1>5, <2>3, AtTheEnd
    <3> QED BY <1>6, <2>3, <3>1, <3>2
  <2>4. CASE ready_state[x] = HEADERS_RECEIVED /\ last[x] <= 3 /\ (resp[x] = "body" \/ hbuf[x])
    <3>1. p = 3
      BY <1>4, <1>10, <2>4
    <3> QED BY <1>6, <2>4, <3>1 DEF None
  <2>5. CASE ready_state[x] = LOADING /\ last[x] <= 4
    <3>1. p = 4
      BY <1>4, <1>10, <2>5
    <3> QED BY <1>6, <2>5, <3>1 DEF None
  <2> QED BY <2>1, <2>2, <2>3, <2>4, <2>5
<1>11. CASE ev \in Ending
  <2>1. p = EndPlace(ev)
    BY <1>4, <1>11
  <2>2. ~(easy[x] \in {"multi", "own"} /\ ~Has(stack, "null", x)) /\ ~Transfers(x)
    BY <1>1, <1>5, <1>11, AtTheEnd
  <2>3. last[x] <= EndPlace(ev)
    <3>1. Due(stack, x, ev)
      BY <1>1, TailFrames
    <3> QED BY <1>1, <1>11, <3>1 DEF EventInv
  <2>4. \A e \in Ending : Due(Tail(stack), x, e) => EndPlace(ev) <= EndPlace(e)
    <3>1. IsEnding(stack[1]) /\ x \in NotNested
      BY <1>2, <1>11 DEF IsEnding, NotNested
    <3> QED BY <1>1, <1>2, <3>1, InOrderTail
  <2>5. EndPlace(ev) >= last[x]
    BY <1>6, <1>11, <2>3
  <2> QED BY <2>1, <2>2, <2>4, <2>5
<1>12. ev \in {"abort", "loadstart", "progress", "readystatechange"} \union Ending
  BY DEF EventNames, Ending
<1> QED BY <1>7, <1>8, <1>9, <1>10, <1>11, <1>12

\* An event of a request that is gone is one of a request that was lost.
LEMMA EventOfLost ==
  ASSUME XhrInv, fault = None, stack # <<>>, NEW x \in Xhrs, NEW ev \in EventNames,
         stack[1] = Emit(x, ev), ~alive[x]
  PROVE  "dropped" \in past[x]
<1>1. stack \in Seq(Frames) /\ Stacked(stack) /\ HandleInv(x) /\ DropInv(x)
  BY Given
<1>2. \/ stack[2].k \in {"cb", "ret"} /\ Has(stack, stack[2].k, x)
      \/ Has(stack, "null", x) \/ Has(stack, "sent", x)
  BY <1>1, EventFrames
<1>3. ~Has(stack, "ret", x) /\ ~Has(stack, "cb", x) /\ ~held[x]
  BY <1>1 DEF HandleInv
<1> QED BY <1>1, <1>2, <1>3 DEF DropInv

\* The handler of x is called in the place of the event.
LEMMA HandlerPush ==
  ASSUME stack \in Seq(Frames), Stacked(stack), stack # <<>>, NEW x \in Xhrs, NEW ev \in EventNames,
         stack[1] = Emit(x, ev), NEW X, InOrder(stack, X)
  PROVE  LET v == <<F("js", x)>> \o Tail(stack) IN
         /\ v \in Seq(Frames) /\ v # <<>> /\ v[1] = F("js", x)
         /\ Stacked(v) /\ TopReturns(v) /\ InOrder(v, X)
         /\ \A k, y : k # "emit" => (Has(v, k, y) <=> (k = "js" /\ y = x) \/ Has(stack, k, y))
         /\ \A y, e : Due(v, y, e) <=> Due(Tail(stack), y, e)
<1> DEFINE t == Tail(stack)
           f == F("js", x)
           v == <<f>> \o t
<1>1. /\ f \in Frames /\ f.k = "js" /\ f.x = x /\ ~IsEnding(f) /\ \A y, e : f # Emit(y, e)
  BY FrameTypes DEF Calling, IsEnding
<1>2. /\ stack[1].k = "emit" /\ stack[1].x = x /\ stack[1].ev = ev
  BY FrameTypes
<1>3. /\ t \in Seq(Frames) /\ Stacked(t) /\ t # <<>> /\ Quiet(t) /\ InOrder(t, X)
      /\ Follows(stack[1], t[1])
  BY <1>2, StackShape, StackedTail, UnderTop, QuietStack, InOrderTail DEF Outermost
<1>4. \A k, y : k # "emit" => (Has(t, k, y) <=> Has(stack, k, y))
  BY <1>2, TailFrames
<1>5. Follows(f, t[1])
  <2>1. ev \in {"loadstart", "progress", "abort", "readystatechange"} \union Ending
    BY DEF EventNames, Ending
  <2>2. t[1].x = x /\ (t[1].k \in {"cb", "null", "sent", "ret"} \/ IsEnding(t[1]))
    BY <1>2, <1>3, <2>1 DEF Follows
  <2> QED BY <1>1, <2>2 DEF Follows
<1> HIDE DEF t, f
<1>6. v \in Seq(Frames) /\ v # <<>> /\ v[1] = f
  BY <1>1, <1>3, PushShape
<1>7. Stacked(v)
  BY <1>1, <1>3, <1>5, StackedPush
<1>8. InOrder(v, X)
  BY <1>1, <1>3, InOrderPush
<1>9. TopReturns(v)
  BY <1>1, <1>6 DEF TopReturns
<1>10. /\ \A k, y : Has(v, k, y) <=> (f.k = k /\ f.x = y) \/ Has(t, k, y)
       /\ \A y, e : Due(v, y, e) <=> Due(t, y, e)
  BY <1>1, <1>3, PushHas, PushDue
<1>11. \A k, y : k # "emit" => (Has(v, k, y) <=> (k = "js" /\ y = x) \/ Has(stack, k, y))
  BY <1>1, <1>4, <1>10
<1> QED BY <1>6, <1>7, <1>8, <1>9, <1>10, <1>11 DEF t, f

\* ijMaybeEmitEvent
LEMMA EmitEventStep ==
  ASSUME XhrInv, EmitEvent
  PROVE  XhrInv'
<1>1. fault = None /\ stack # <<>> /\ stack[1].k = "emit"
  BY DEF EmitEvent, Top
<1>2. /\ TypeOK /\ Core /\ stack \in Seq(Frames) /\ Stacked(stack) /\ stack[1] \in Frames
      /\ InOrder(stack, NotNested) /\ OneEach(msglist) /\ \A y \in Xhrs : RequestInv(y)
  BY <1>1, Given, StackShape DEF XhrInv
<1>3. PICK x \in Xhrs, ev \in EventNames :
        stack[1] = Emit(x, ev) /\ stack[1].x = x /\ stack[1].ev = ev
  BY <1>1, <1>2, FrameTypes
<1>4. /\ UNCHANGED <<alive, held, curl_h, easy, ownMulti, headers, slist, sent, async, ready_state,
                     events, hbuf, resp, msglist, past, calls>>
      /\ fault' = IF alive[x] THEN fault ELSE "object"
      /\ alive[x] /\ events[x] => /\ last' = [last EXCEPT ![x] = Place(x, ev)]
                                  /\ stack' = <<F("js", x)>> \o Tail(stack)
      /\ ~(alive[x] /\ events[x]) => stack' = Left /\ last' = last
  BY <1>3 DEF EmitEvent, object, request
<1>5. HandleInv(x) /\ DropInv(x) /\ HeadersInv(x) /\ SentInv(x) /\ UnderWay(x) /\ EventInv(x)
  BY <1>2 DEF RequestInv
<1>6. /\ fault' \in {None, "object"}
      /\ fault' = "object" => "dropped" \in past[x]
  BY <1>1, <1>3, <1>4, EventOfLost DEF None
<1>7. FaultCause' /\ NotNested' \subseteq NotNested
  <2>1. fault' = "object" => \E y \in Xhrs : past'[y] \intersect {"dropped"} # {}
    BY <1>4, <1>6
  <2> QED BY <1>2, <1>4, <1>6, <2>1, CauseKept, TypeFacts DEF None
<1>8. /\ calls' \in [Xhrs -> Nat] /\ \E b \in Budgets : \A y \in Xhrs : calls'[y] <= b[y]
  BY <1>2, <1>4 DEF TypeOK
<1>9. CASE ~(alive[x] /\ events[x])
  <2>1. /\ Left \in Seq(Frames) /\ Stacked(Left) /\ TopReturns(Left)
        /\ Left # <<>> => Left[1].k # "alloc" /\ (Left[1].k = "emit" => IsEnding(Left[1]))
        /\ InOrder(Left, NotNested)
        /\ \A y : \A k \in {"cb", "perform", "null", "sent"} : Has(Left, k, y) <=> Has(stack, k, y)
        /\ \A k, y : Has(Left, k, y) => Has(Tail(stack), k, y)
        /\ \A y, e : Due(Left, y, e) => Due(Tail(stack), y, e)
    BY <1>1, <1>2, Returned
  <2>2. /\ \A k, y : Has(stack', k, y) => Has(stack, k, y)
        /\ \A y : \A k \in {"cb", "perform", "null", "sent"} : Has(stack', k, y) <=> Has(stack, k, y)
        /\ \A y, e : Due(stack', y, e) => Due(stack, y, e)
    BY <1>1, <1>2, <1>4, <1>9, <2>1, TailFrames
  <2>3. stack' = Left /\ last' = last
    BY <1>4, <1>9
  <2>4. TypeOK'
    BY <1>2, <1>4, <1>6, <1>8, <2>1, <2>3, TypeFacts, TypeNext
  <2>5. ASSUME NEW y \in Xhrs
        PROVE  RequestInv(y)'
    BY <1>2, <1>4, <2>2, <2>3, Unmoved
  <2>6. TopInv'
    BY <2>1, <2>3, NoEventNext
  <2>7. Stacked(stack)' /\ TopReturns(stack)' /\ InOrder(stack, NotNested)' /\ OneEach(msglist)'
    BY <1>2, <1>4, <1>7, <2>1, <2>3, InOrderFewer
  <2> QED BY <1>7, <2>4, <2>5, <2>6, <2>7 DEF XhrInv, Core
<1>10. CASE alive[x] /\ events[x]
  <2> DEFINE v == <<F("js", x)>> \o Tail(stack)
             p == Place(x, ev)
  <2>1. /\ v \in Seq(Frames) /\ v # <<>> /\ v[1] = F("js", x)
        /\ Stacked(v) /\ TopReturns(v) /\ InOrder(v, NotNested)
        /\ \A k, y : k # "emit" => (Has(v, k, y) <=> (k = "js" /\ y = x) \/ Has(stack, k, y))
        /\ \A y, e : Due(v, y, e) <=> Due(Tail(stack), y, e)
    BY <1>1, <1>2, <1>3, HandlerPush
  <2>2. p \in 1..10
    BY <1>2, Places
  <2>3. ~Nested(x) =>
          /\ easy[x] \in {"multi", "own"} /\ ~Has(stack, "null", x) => p <= 5
          /\ Transfers(x) =>
               /\ resp[x] = None /\ ~hbuf[x] => p <= 2
               /\ resp[x] # "body" => p <= 3
               /\ ready_state[x] = HEADERS_RECEIVED => p <= 4
               /\ ready_state[x] = LOADING => resp[x] = "body"
          /\ \A e \in Ending : Due(Tail(stack), x, e) => p <= EndPlace(e)
    BY <1>1, <1>3, EventNext
  <2>4. stack' = v /\ last' = [last EXCEPT ![x] = p]
    BY <1>4, <1>10
  <2> HIDE DEF v, p
  <2>5. /\ last' \in [Xhrs -> 0..10] /\ last'[x] = p
        /\ \A y \in Xhrs : y # x => last'[y] = last[y]
    BY <1>2, <2>2, <2>4, TypeFacts
  <2>6. /\ \A k, y : k # "emit" => (Has(stack', k, y) <=> (k = "js" /\ y = x) \/ Has(stack, k, y))
        /\ \A y, e : Due(stack', y, e) <=> Due(Tail(stack), y, e)
        /\ \A y, e : Due(stack', y, e) => Due(stack, y, e)
    BY <1>1, <1>2, <2>1, <2>4, TailFrames
  <2>7. TypeOK'
    BY <1>2, <1>4, <1>6, <1>8, <2>1, <2>4, <2>5, TypeFacts, TypeNext
  <2>8. RequestInv(x)'
    <3>1. \A k \in {"ret", "cb", "perform", "null", "sent"} : Has(stack', k, x) <=> Has(stack, k, x)
      BY <2>6
    <3>2. HandleInv(x)'
      BY <1>4, <1>5, <1>10, <3>1 DEF HandleInv
    <3>3. DropInv(x)' /\ HeadersInv(x)'
      BY <1>4, <1>5, <3>1 DEF DropInv, HeadersInv
    <3>4. SentInv(x)' /\ UnderWay(x)'
      BY <1>4, <1>5, <3>1 DEF SentInv, UnderWay, Nested, Excused
    <3>5. EventInv(x)'
      BY <1>4, <2>3, <2>5, <2>6, <3>1 DEF EventInv, Nested, Transfers
    <3> QED BY <3>2, <3>3, <3>4, <3>5 DEF RequestInv
  <2>9. ASSUME NEW y \in Xhrs, y # x
        PROVE  RequestInv(y)'
    <3>1. \A k \in {"js", "ret", "cb", "perform", "null", "sent"} : Has(stack', k, y) <=> Has(stack, k, y)
      BY <2>6, <2>9
    <3> QED BY <1>2, <1>4, <2>5, <2>6, <2>9, <3>1, Unmoved
  <2>10. TopInv'
    BY <2>1, <2>4, FrameTypes, NoEventNext
  <2>11. Stacked(stack)' /\ TopReturns(stack)' /\ InOrder(stack, NotNested)' /\ OneEach(msglist)'
    BY <1>2, <1>4, <1>7, <2>1, <2>4, InOrderFewer
  <2> QED BY <1>7, <2>7, <2>8, <2>9, <2>10, <2>11 DEF XhrInv, Core
<1> QED BY <1>9, <1>10

-----------------------------------------------------------------------------
(***************************************************************************)
(* The theorems                                                            *)
(***************************************************************************)

\* The requests of a program that has just begun
LEMMA XhrInit ==
  ASSUME Init
  PROVE  XhrInv
<1>1. TypeOK
  <2>1. \E b \in Budgets : \A x \in Xhrs : calls[x] <= b[x]
    <3>1. PICK b \in Budgets : TRUE
      BY XhrAssumption
    <3>2. b \in [Xhrs -> Nat]
      BY <3>1, XhrAssumption
    <3>3. \A x \in Xhrs : calls[x] <= b[x]
      BY <3>2 DEF Init
    <3> QED BY <3>3
  <2>2. stack \in Seq(Frames) /\ msglist \in Seq([x : Xhrs, res : Results])
    BY DEF Init
  <2> QED BY <2>1, <2>2 DEF TypeOK, Init, UNSENT, DONE
<1>2. FaultCause
  BY DEF FaultCause, Init, None
<1>3. /\ stack = <<>> /\ msglist = <<>>
      /\ \A k, y : ~Has(stack, k, y)
      /\ \A y, ev : ~Due(stack, y, ev)
      /\ \A y : ~Listed(msglist, y)
  BY DEF Init, Has, Due, Listed
<1>4. /\ Stacked(stack) /\ TopReturns(stack) /\ InOrder(stack, NotNested) /\ OneEach(msglist) /\ TopInv
  BY <1>3 DEF Stacked, TopReturns, InOrder, OneEach, TopInv, Top
<1>5. ASSUME NEW x \in Xhrs
      PROVE  RequestInv(x)
  <2>1. /\ alive[x] /\ held[x] /\ curl_h[x] /\ easy[x] = "idle" /\ headers[x] = None
        /\ ~sent[x] /\ ready_state[x] = UNSENT /\ last[x] = 0 /\ past[x] = {}
    BY DEF Init
  <2>2. HandleInv(x) /\ DropInv(x) /\ HeadersInv(x)
    BY <1>3, <2>1 DEF HandleInv, DropInv, HeadersInv
  <2>3. SentInv(x) /\ UnderWay(x)
    BY <1>3, <2>1 DEF SentInv, UnderWay, UNSENT, DONE
  <2>4. EventInv(x)
    BY <1>3, <2>1 DEF EventInv, Transfers
  <2> QED BY <2>2, <2>3, <2>4 DEF RequestInv
<1> QED BY <1>1, <1>2, <1>4, <1>5 DEF XhrInv, Core

\* A stuttering step
LEMMA XhrStutter ==
  ASSUME XhrInv, UNCHANGED vars
  PROVE  XhrInv'
<1>1. UNCHANGED <<alive, held, curl_h, easy, ownMulti, headers, slist, sent, async, ready_state,
                  events, hbuf, resp, msglist, stack, last, past, calls, fault>>
  BY DEF vars
<1>2. TypeOK' /\ FaultCause'
  BY <1>1 DEF XhrInv, TypeOK, FaultCause
<1>3. ASSUME fault = None
      PROVE  Core'
  <2>1. ASSUME NEW x \in Xhrs
        PROVE  RequestInv(x)'
    BY <1>1, <1>3, Given, Unmoved
  <2>2. \A x, ev, g : Ready(x, ev, g)' <=> Ready(x, ev, g)
    <3>1. \A x : Transfers(x)' <=> Transfers(x)
      BY <1>1 DEF Transfers
    <3> QED BY <1>1, <3>1 DEF Ready
  <2>3. TopInv'
    BY <1>1, <1>3, <2>2, Given DEF TopInv, Top, Nested
  <2>4. NotNested' = NotNested
    BY <1>1 DEF NotNested, Nested
  <2> QED BY <1>1, <1>3, <2>1, <2>3, <2>4, Given DEF Core
<1> QED BY <1>1, <1>2, <1>3 DEF XhrInv

\* Every step keeps the invariant.
LEMMA XhrStep ==
  ASSUME XhrInv, [Next]_vars
  PROVE  XhrInv'
<1>1. ASSUME NEW x \in Xhrs, NEW a \in BOOLEAN, Open(x, a)
      PROVE  XhrInv'
  BY <1>1, OpenStep
<1>2. ASSUME NEW x \in Xhrs, SetRequestHeader(x)
      PROVE  XhrInv'
  BY <1>2, SetRequestHeaderStep
<1>3. ASSUME NEW x \in Xhrs, SendAsync(x)
      PROVE  XhrInv'
  BY <1>3, SendAsyncStep
<1>4. ASSUME NEW x \in Xhrs, SendSync(x)
      PROVE  XhrInv'
  BY <1>4, SendSyncPerforms, SendSyncFails
<1>5. ASSUME NEW x \in Xhrs, Abort(x) \/ Drop(x) \/ Collect(x)
      PROVE  XhrInv'
  BY <1>5, AbortStep, DropStep, CollectStep
<1>6. ASSUME NEW x \in Xhrs, StatusLine(x) \/ Data(x) \/ Progress(x)
      PROVE  XhrInv'
  BY <1>6, StatusLineStep, DataStep, ProgressStep
<1>7. ASSUME NEW x \in Xhrs, NEW kind \in Kinds, EmptyLine(x, kind)
      PROVE  XhrInv'
  BY <1>7, EmptyLineStep
<1>8. ASSUME NEW x \in Xhrs, NEW res \in Results, Complete(x, res) \/ PerformDone(x, res)
      PROVE  XhrInv'
  BY <1>8, CompleteStep, PerformDoneStep
<1>9. ASSUME SocketAction \/ Unwind
      PROVE  XhrInv'
  BY <1>9, SocketActionStep, SocketReturnsStep, CheckMultiInfoStep, DoneReturnsStep, EmitEventStep,
     PopStep, ReturnStep DEF Unwind
<1>10. CASE UNCHANGED vars
  BY <1>10, XhrStutter
<1>11. CASE Program
  BY <1>1, <1>2, <1>3, <1>4, <1>5, <1>11 DEF Program
<1>12. CASE Libcurl
  BY <1>6, <1>7, <1>8, <1>12 DEF Libcurl
<1> QED BY <1>5, <1>9, <1>10, <1>11, <1>12 DEF Next

\* The invariant says that libcurl and the requests agree.
LEMMA XhrInvSafe ==
  ASSUME XhrInv
  PROVE  Inv
<1>1. ASSUME fault = None, NEW x \in Xhrs
      PROVE  /\ easy[x] \in {"multi", "own"} => alive[x] /\ curl_h[x]
             /\ alive[x] /\ curl_h[x] /\ ~OnStack(x, {"null"}) => easy[x] # "freed"
  BY <1>1, Given DEF HandleInv
<1>2. ASSUME fault = None, NEW i \in DOMAIN msglist
      PROVE  /\ easy[msglist[i].x] = "multi"
             /\ \A j \in DOMAIN msglist : msglist[j].x = msglist[i].x => j = i
  <2>1. msglist \in Seq(Messages) /\ OneEach(msglist) /\ \A x \in Xhrs : HandleInv(x)
    BY <1>2, Given
  <2>2. msglist[i] \in Messages
    BY <2>1
  <2>3. msglist[i].x \in Xhrs /\ Listed(msglist, msglist[i].x)
    BY <2>2 DEF Messages, Listed
  <2> QED BY <2>1, <2>3 DEF HandleInv, OneEach
<1> QED BY <1>1, <1>2 DEF XhrInv, Inv, NoDangling

\* The invariant says which requests are being transferred.
LEMMA XhrInvUnderWay ==
  ASSUME XhrInv
  PROVE  SentIsUnderWay
<1>1. ASSUME fault = None, NEW x \in Xhrs, alive[x] /\ sent[x] /\ ready_state[x] < DONE,
             past[x] \intersect {"aborted", "finished", "nested", "callback"} = {}
      PROVE  easy[x] = "multi"
  <2>1. UnderWay(x)
    BY <1>1, Given
  <2>2. ~Excused(x)
    BY <1>1 DEF Excused
  <2> QED BY <1>1, <2>1, <2>2 DEF UnderWay
<1> QED BY <1>1 DEF SentIsUnderWay

\* Only ijMaybeEmitEvent delivers an event, and only send() forgets the last one.
LEMMA XhrStepOrder ==
  ASSUME XhrInv, [Next]_vars, NEW x \in Xhrs
  PROVE  last'[x] >= last[x] \/ last'[x] \in {0, 1} \/ Nested(x)
<1>1. TypeOK /\ last \in [Xhrs -> 0..10]
  BY TypeFacts DEF XhrInv
<1>2. CASE last' = last
  <2>1. last[x] \in Int
    BY <1>1
  <2> QED BY <1>2, <2>1
<1>3. ASSUME NEW y \in Xhrs, last' = [last EXCEPT ![y] = 0]
      PROVE  last'[x] >= last[x] \/ last'[x] = 0
  <2>1. last[x] \in Int
    BY <1>1
  <2>2. last'[x] = 0 \/ last'[x] = last[x]
    BY <1>1, <1>3
  <2> QED BY <2>1, <2>2
<1>4. CASE EmitEvent /\ last' # last
  <2>1. fault = None /\ stack # <<>> /\ stack[1].k = "emit" /\ stack \in Seq(Frames)
    BY <1>1, <1>4, TypeFacts DEF EmitEvent, Top
  <2>2. stack[1] \in Frames
    BY <2>1, StackShape
  <2>3. PICK y \in Xhrs, ev \in EventNames :
          stack[1] = Emit(y, ev) /\ stack[1].x = y /\ stack[1].ev = ev
    BY <2>1, <2>2, FrameTypes
  <2>4. last' = [last EXCEPT ![y] = Place(y, ev)]
    BY <1>4, <2>3 DEF EmitEvent
  <2>5. CASE x = y
    <3>1. last'[x] = Place(x, ev)
      BY <1>1, <2>4, <2>5
    <3>2. ~Nested(x) => Place(x, ev) >= last[x] \/ Place(x, ev) = 1
      BY <2>1, <2>3, <2>5, EventNext
    <3> QED BY <3>1, <3>2
  <2>6. CASE x # y
    <3>1. last'[x] = last[x] /\ last[x] \in Int
      BY <1>1, <2>4, <2>6
    <3> QED BY <3>1
  <2> QED BY <2>5, <2>6
<1>5. \/ last' = last \/ (\E y \in Xhrs : last' = [last EXCEPT ![y] = 0]) \/ EmitEvent
  <2>1. CASE Program
    BY <2>1 DEF Program, Open, SetRequestHeader, SendAsync, SendSync, Abort, Drop
  <2>2. CASE (\E y \in Xhrs : Collect(y)) \/ SocketAction
    BY <2>2 DEF Collect, SocketAction
  <2>3. CASE Libcurl
    BY <2>3 DEF Libcurl, StatusLine, Data, Progress, EmptyLine, Complete, PerformDone
  <2>4. CASE Unwind
    BY <2>4 DEF Unwind, SocketReturns, CheckMultiInfo, DoneReturns, Pop, Return
  <2>5. CASE UNCHANGED vars
    BY <2>5 DEF vars
  <2> QED BY <2>1, <2>2, <2>3, <2>4, <2>5 DEF Next
<1> QED BY <1>2, <1>3, <1>4, <1>5

\* The inductive invariant holds for any number of requests and calls.
THEOREM XhrInvariance == Spec => []XhrInv
<1>1. Init => XhrInv
  BY XhrInit
<1>2. XhrInv /\ [Next]_vars => XhrInv'
  BY XhrStep
<1> QED BY <1>1, <1>2, PTL DEF Spec

\* libcurl and the requests agree on which transfers exist, and freed memory is
\* used for the causes that FaultCause names only: for any set of requests, any
\* number of calls and handlers inside handlers to any depth.
THEOREM XhrSafety == Spec => []Inv
<1>1. XhrInv => Inv
  BY XhrInvSafe
<1> QED BY <1>1, XhrInvariance, PTL

\* A request that was sent and is not done is being transferred, but for the
\* exceptions that SentIsUnderWay names.
THEOREM XhrSentIsUnderWay == Spec => []SentIsUnderWay
<1>1. XhrInv => SentIsUnderWay
  BY XhrInvUnderWay
<1> QED BY <1>1, XhrInvariance, PTL

\* The events of a request that ijMaybeEmitEvent delivers come in the order of its
\* life, unless it was opened, sent or aborted inside its own events.
THEOREM XhrEventOrder == Spec => EventOrder
<1>1. XhrInv /\ [Next]_vars =>
        [\A x \in Xhrs : \/ last'[x] >= last[x]
                         \/ last'[x] \in {0, 1}
                         \/ "nested" \in past[x]]_vars
  BY XhrStepOrder DEF Nested
<1> QED BY <1>1, XhrInvariance, PTL DEF Spec, EventOrder
=============================================================================
