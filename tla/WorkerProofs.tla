---------------------------- MODULE WorkerProofs -----------------------------
(***************************************************************************)
(* Proofs about Worker: its invariants hold for messages of any size,      *)
(* reads and sockets of any size, and any number of messages.              *)
(***************************************************************************)
EXTENDS Worker, FiniteSetTheorems, SequenceTheorems, TLAPS

-----------------------------------------------------------------------------
(***************************************************************************)
(* Queues                                                                  *)
(***************************************************************************)

\* The empty queue is of any type.
LEMMA EmptyIsSeq ==
  ASSUME NEW S
  PROVE  <<>> \in Seq(S)
  OBVIOUS

-----------------------------------------------------------------------------
(***************************************************************************)
(* The inductive invariant                                                 *)
(***************************************************************************)

\* A write queue: of each message that has a unit in it, the rest follows.
Packed(q) ==
  \A i \in DOMAIN q :
    /\ q[i].part <= q[i].of
    /\ i + (q[i].of - q[i].part) <= Len(q)
    /\ \A k \in 0..(q[i].of - q[i].part) :
         q[i + k] = [msg |-> q[i].msg, part |-> q[i].part + k, of |-> q[i].of]

\* The messages whose first unit is in q; a read that does not start with one
\* gives no message.
Starts(q) == {q[i].msg : i \in {j \in DOMAIN q : q[j].part = 1}}

Rising(q) ==
  \A i, j \in DOMAIN q : i < j /\ q[i].part = 1 /\ q[j].part = 1 => q[i].msg < q[j].msg

\* The messages that jobs js bring to the handler
Tells(j) == j.kind = "message" /\ j.msg # Leftover
Told(js) == {js[i].msg : i \in {j \in DOMAIN js : Tells(js[j])}}

RisingJobs(js) ==
  \A i, j \in DOMAIN js : i < j /\ Tells(js[i]) /\ Tells(js[j]) => js[i].msg < js[j].msg

\* The messages in rec
Got(rec) == {rec[i] : i \in {j \in DOMAIN rec : rec[j] # Leftover}}

RisingGot(rec) ==
  \A i, j \in DOMAIN rec : i < j /\ rec[i] # Leftover /\ rec[j] # Leftover => rec[i] < rec[j]

Below(A, B) == \A a \in A, b \in B : a < b

UnitsUpTo(q, n) == q \in Seq(Unit) /\ \A i \in DOMAIN q : q[i].msg <= n

\* One direction of the channel, when n messages were posted: what the handler
\* got, the jobs that are to call it, the units in the socket and those in the
\* write queue are messages in the order in which they were posted.
Chan(rec, js, nt, ot, n) ==
  /\ n \in 0..MaxPosts
  /\ rec \in Seq(0..MaxPosts) /\ RisingGot(rec) /\ Got(rec) \subseteq 1..n
  /\ js \in Seq(Job) /\ RisingJobs(js) /\ Told(js) \subseteq 1..n
  /\ UnitsUpTo(nt, n) /\ Rising(nt)
  /\ UnitsUpTo(ot, n) /\ Rising(ot) /\ Packed(ot)
  /\ Below(Got(rec), Told(js))
  /\ Below(Got(rec), Starts(nt)) /\ Below(Got(rec), Starts(ot))
  /\ Below(Told(js), Starts(nt)) /\ Below(Told(js), Starts(ot))
  /\ Below(Starts(nt), Starts(ot))

\* What is known of a side and of the messages it has posted: only a program
\* that posted waits for a write.
SideInv(s) ==
  /\ pollout[s] => out[s] # <<>>
  /\ Len(net[s]) <= Capacity
  /\ Chan(received[Peer(s)], jobs[Peer(s)], net[s], out[s], Len(posted[s]))
  /\ unacked[s] \subseteq 1..Len(posted[s])
  /\ broken[s] \subseteq 1..Len(posted[s])

MsgInv ==
  /\ out \in [Sides -> Seq(Unit)]
  /\ net \in [Sides -> Seq(Unit)]
  /\ pollout \in [Sides -> BOOLEAN]
  /\ unacked \in [Sides -> SUBSET (1..MaxPosts)]
  /\ broken \in [Sides -> SUBSET (1..MaxPosts)]
  /\ jobs \in [Sides -> Seq(Job)]
  /\ posted \in [Sides -> Seq(Sizes)]
  /\ received \in [Sides -> Seq(0..MaxPosts)]
  /\ \A s \in Sides : SideInv(s)

NotStarted == pc["worker"] \in {"none", "boot", "booted"}

\* The handshake and the life of the worker's runtime
StartInv ==
  /\ pc["worker"] \in {"boot", "booted"} => pc["main"] = "construct"
  /\ pc["worker"] = "none" => pc["main"] # "construct"
  /\ wdWrt <=> ~NotStarted
  /\ sem = 1 => ~NotStarted
  /\ ptr => ~NotStarted
  /\ ~NotStarted /\ pc["main"] # "construct" => ptr \/ pc["worker"] = "ended"
  /\ pc["worker"] \in {"none", "boot"} <=> rt = "none"
  /\ pc["worker"] \in {"booted", "poll", "check"} <=> rt = "live"
  /\ NotStarted => ~stopSent /\ ~stopFlag /\ ~failed

\* The worker is told to stop by its script, or by terminate(), which waits for
\* its end and then forgets the runtime.
StopInv ==
  stopSent \/ stopFlag \/ rt \in {"closing", "freed"} =>
    \/ failed
    \/ pc["main"] = "join"
    \/ ~ptr /\ pc["main"] # "construct"

\* The script is evaluated once, before all other jobs.
EvalInv ==
  \A s \in Sides : \A i \in DOMAIN jobs[s] :
    jobs[s][i] = Eval => s = "worker" /\ i = 1 /\ ~failed

PcValues == {"none", "boot", "booted", "check", "poll", "construct", "join", "exited", "free", "ended"}

ThreadTypes ==
  /\ pc \in [Sides -> PcValues]
  /\ pc["main"] \in {"check", "poll", "construct", "join", "exited"}
  /\ pc["worker"] \in {"none", "boot", "booted", "poll", "check", "free", "ended"}
  /\ sem \in 0..1
  /\ wdWrt \in BOOLEAN /\ ptr \in BOOLEAN /\ stopSent \in BOOLEAN
  /\ stopFlag \in BOOLEAN /\ held \in BOOLEAN /\ failed \in BOOLEAN
  /\ rt \in {"none", "live", "closing", "freed"}

ThreadInv == ThreadTypes /\ StartInv /\ StopInv

EndTypes ==
  /\ handle \in [Sides -> {"none", "open", "closed"}]
  /\ reading \in [Sides -> BOOLEAN]
  /\ fault \in {"none", "staleStop", "lateWrite", "freedHandler"}

WorkerInv == ThreadInv /\ EndTypes /\ MsgInv /\ EvalInv /\ FaultCause

-----------------------------------------------------------------------------
(***************************************************************************)
(* Units of messages in a queue                                            *)
(***************************************************************************)

LEMMA Constants ==
  /\ MaxPosts \in Nat /\ Capacity \in Nat /\ Capacity > 0 /\ Chunk \in Nat /\ Chunk > 0
  /\ MaxReads \in Nat /\ MaxReads > 0
  /\ Sizes \subseteq Nat /\ \A z \in Sizes : z > 0
  BY WorkerAssumption

LEMMA UnitFields ==
  ASSUME NEW u \in Unit
  PROVE  /\ u.msg \in 1..MaxPosts /\ u.msg \in Nat /\ u.msg # Leftover
         /\ u.part \in Nat /\ u.part >= 1 /\ u.of \in Nat /\ u.of >= 1 /\ u.of \in Sizes
  <1>1. u.msg \in 1..MaxPosts /\ u.part \in Nat \ {0} /\ u.of \in Sizes
    BY DEF Unit
  <1>2. u.of \in Nat /\ u.of > 0
    BY <1>1, Constants
  <1>3. QED
    BY <1>1, <1>2, Constants DEF Leftover

\* The first k units of a queue and the rest
LEMMA Split ==
  ASSUME NEW S, NEW q \in Seq(S), NEW k \in 0..Len(q)
  PROVE  /\ SubSeq(q, 1, k) \in Seq(S) /\ DOMAIN SubSeq(q, 1, k) = 1..k
         /\ Len(SubSeq(q, 1, k)) = k
         /\ \A i \in 1..k : SubSeq(q, 1, k)[i] = q[i]
         /\ SubSeq(q, k + 1, Len(q)) \in Seq(S)
         /\ DOMAIN SubSeq(q, k + 1, Len(q)) = 1..(Len(q) - k)
         /\ Len(SubSeq(q, k + 1, Len(q))) = Len(q) - k
         /\ \A i \in 1..(Len(q) - k) : SubSeq(q, k + 1, Len(q))[i] = q[i + k]
  <1>1. Len(q) \in Nat /\ DOMAIN q = 1..Len(q) /\ \A i \in 1..Len(q) : q[i] \in S
    OBVIOUS
  <1>2. k \in Nat /\ k <= Len(q)
    BY <1>1
  <1> DEFINE a == SubSeq(q, 1, k)
             b == SubSeq(q, k + 1, Len(q))
  <1>3. /\ a \in Seq(S)
        /\ Len(a) = IF 1 <= k THEN k - 1 + 1 ELSE 0
        /\ \A i \in 1..(k - 1 + 1) : a[i] = q[1 + i - 1]
    <2>1. \A i \in 1..k : q[i] \in S
      BY <1>1, <1>2
    <2>2. QED
      BY <1>2, <2>1, SubSeqProperties
  <1>4. /\ b \in Seq(S)
        /\ Len(b) = IF k + 1 <= Len(q) THEN Len(q) - (k + 1) + 1 ELSE 0
        /\ \A i \in 1..(Len(q) - (k + 1) + 1) : b[i] = q[k + 1 + i - 1]
    <2>1. \A i \in (k + 1)..Len(q) : q[i] \in S
      BY <1>1, <1>2
    <2>2. k + 1 \in Int /\ Len(q) \in Int
      BY <1>1, <1>2
    <2>3. QED
      BY <2>1, <2>2, SubSeqProperties
  <1> HIDE DEF a, b
  <1>5. DOMAIN a = 1..Len(a) /\ DOMAIN b = 1..Len(b)
    BY <1>3, <1>4
  <1>6. Len(a) = k /\ Len(b) = Len(q) - k
    <2>1. Len(a) = IF 1 <= k THEN k - 1 + 1 ELSE 0
      BY <1>3
    <2>2. Len(b) = IF k + 1 <= Len(q) THEN Len(q) - (k + 1) + 1 ELSE 0
      BY <1>4
    <2>3. Len(q) \in Nat
      BY <1>1
    <2>4. Len(a) = k
      BY <1>2, <2>1
    <2>5. Len(b) = Len(q) - k
      BY <1>2, <2>2, <2>3
    <2>6. QED
      BY <2>4, <2>5
  <1>7. /\ \A i \in 1..k : a[i] = q[i]
        /\ \A i \in 1..(Len(q) - k) : b[i] = q[i + k]
    <2>1. ASSUME NEW i \in 1..k PROVE a[i] = q[i]
      <3>1. i \in 1..(k - 1 + 1) /\ 1 + i - 1 = i
        BY <1>2
      <3>2. QED
        BY <1>3, <3>1
    <2>2. ASSUME NEW i \in 1..(Len(q) - k) PROVE b[i] = q[i + k]
      <3>1. i \in 1..(Len(q) - (k + 1) + 1) /\ k + 1 + i - 1 = i + k
        BY <1>1, <1>2
      <3>2. QED
        BY <1>4, <3>1
    <2>3. QED
      BY <2>1, <2>2
  <1>8. QED
    BY <1>3, <1>4, <1>5, <1>6, <1>7 DEF a, b

\* Both parts of a queue that is split
LEMMA SplitUnits ==
  ASSUME NEW n \in Nat, NEW q, UnitsUpTo(q, n), Rising(q), NEW k \in 0..Len(q)
  PROVE  LET a == SubSeq(q, 1, k)
             b == SubSeq(q, k + 1, Len(q))
         IN  /\ UnitsUpTo(a, n) /\ Rising(a) /\ Starts(a) \subseteq Starts(q)
             /\ UnitsUpTo(b, n) /\ Rising(b) /\ Starts(b) \subseteq Starts(q)
             /\ Below(Starts(a), Starts(b))
             /\ Packed(q) => Packed(b)
             /\ Len(a) = k /\ Len(b) = Len(q) - k
  <1> DEFINE a == SubSeq(q, 1, k)
             b == SubSeq(q, k + 1, Len(q))
  <1>0. q \in Seq(Unit)
    BY DEF UnitsUpTo
  <1>1. /\ a \in Seq(Unit) /\ DOMAIN a = 1..k /\ Len(a) = k
        /\ \A i \in 1..k : a[i] = q[i]
        /\ b \in Seq(Unit) /\ DOMAIN b = 1..(Len(q) - k) /\ Len(b) = Len(q) - k
        /\ \A i \in 1..(Len(q) - k) : b[i] = q[i + k]
    BY <1>0, Split
  <1>2. Len(q) \in Nat /\ DOMAIN q = 1..Len(q) /\ k \in Nat /\ k <= Len(q)
    BY <1>0
  <1> HIDE DEF a, b
  <1>3. /\ \A i \in DOMAIN a : i \in DOMAIN q /\ a[i] = q[i]
        /\ \A i \in DOMAIN b : i + k \in DOMAIN q /\ b[i] = q[i + k]
        /\ \A i \in DOMAIN a, j \in DOMAIN b : i < j + k
        /\ \A i, j \in DOMAIN b : i < j <=> i + k < j + k
    BY <1>1, <1>2
  <1>4. UnitsUpTo(a, n) /\ UnitsUpTo(b, n)
    BY <1>1, <1>3 DEF UnitsUpTo
  <1>5. Rising(a) /\ Rising(b)
    BY <1>3 DEF Rising
  <1>6. Starts(a) \subseteq Starts(q) /\ Starts(b) \subseteq Starts(q)
    BY <1>3 DEF Starts
  <1>7. Below(Starts(a), Starts(b))
    BY <1>3 DEF Starts, Below, Rising
  <1>8. ASSUME Packed(q) PROVE Packed(b)
    <2>1. SUFFICES ASSUME NEW i \in DOMAIN b
                   PROVE  /\ b[i].part <= b[i].of
                          /\ i + (b[i].of - b[i].part) <= Len(b)
                          /\ \A h \in 0..(b[i].of - b[i].part) :
                               b[i + h] = [msg |-> b[i].msg, part |-> b[i].part + h, of |-> b[i].of]
      BY DEF Packed
    <2> DEFINE u == q[i + k]
    <2>2. i + k \in DOMAIN q /\ b[i] = u /\ u \in Unit
      BY <1>0, <1>3
    <2>3. /\ u.part <= u.of
          /\ i + k + (u.of - u.part) <= Len(q)
          /\ \A h \in 0..(u.of - u.part) :
               q[i + k + h] = [msg |-> u.msg, part |-> u.part + h, of |-> u.of]
      BY <1>8, <2>2 DEF Packed
    <2>4. u.of \in Nat /\ u.part \in Nat
      BY <2>2, UnitFields
    <2> HIDE DEF u
    <2>5. i + (u.of - u.part) <= Len(b) /\ i \in Nat /\ i >= 1
      <3>1. Len(b) = Len(q) - k /\ i \in 1..(Len(q) - k)
        BY <1>1
      <3>2. i + k + (u.of - u.part) <= Len(q)
        BY <2>3
      <3>3. QED
        BY <1>2, <2>4, <3>1, <3>2
    <2>6. ASSUME NEW h \in 0..(u.of - u.part)
          PROVE  b[i + h] = [msg |-> u.msg, part |-> u.part + h, of |-> u.of]
      <3>1. h \in Nat /\ h <= u.of - u.part
        BY <2>4
      <3>2. i + h \in DOMAIN b /\ i + h + k = i + k + h
        <4>1. DOMAIN b = 1..Len(b) /\ Len(b) \in Nat
          BY <1>1
        <4>2. QED
          BY <1>2, <2>4, <2>5, <3>1, <4>1
      <3>3. b[i + h] = q[i + k + h]
        BY <1>3, <3>2
      <3>4. QED
        BY <2>3, <3>3
    <2>7. QED
      BY <2>2, <2>3, <2>5, <2>6
  <1>9. QED
    BY <1>1, <1>4, <1>5, <1>6, <1>7, <1>8 DEF a, b

\* One queue behind another
LEMMA Join ==
  ASSUME NEW S, NEW a \in Seq(S), NEW b \in Seq(S)
  PROVE  /\ a \o b \in Seq(S) /\ Len(a \o b) = Len(a) + Len(b)
         /\ DOMAIN (a \o b) = 1..(Len(a) + Len(b))
         /\ Len(a) \in Nat /\ Len(b) \in Nat /\ DOMAIN a = 1..Len(a) /\ DOMAIN b = 1..Len(b)
         /\ \A i \in 1..Len(a) : (a \o b)[i] = a[i]
         /\ \A i \in 1..Len(b) : (a \o b)[Len(a) + i] = b[i]
  OBVIOUS

\* An index of a \o b is one of a, or one of b behind them.
LEMMA JoinIndex ==
  ASSUME NEW m \in Nat, NEW n \in Nat, NEW i \in 1..(m + n)
  PROVE  i \in 1..m \/ \E j \in 1..n : i = m + j
  <1>1. i > m => i - m \in 1..n /\ i = m + (i - m)
    OBVIOUS
  <1>2. QED
    BY <1>1

LEMMA JoinUnits ==
  ASSUME NEW n \in Nat, NEW a, NEW b, UnitsUpTo(a, n), UnitsUpTo(b, n), Rising(a), Rising(b),
         Below(Starts(a), Starts(b))
  PROVE  /\ UnitsUpTo(a \o b, n) /\ Rising(a \o b)
         /\ Starts(a \o b) = Starts(a) \cup Starts(b)
         /\ Packed(a) /\ Packed(b) => Packed(a \o b)
  <1> DEFINE c == a \o b
             m == Len(a)
  <1>0. a \in Seq(Unit) /\ b \in Seq(Unit)
    BY DEF UnitsUpTo
  <1>1. /\ c \in Seq(Unit) /\ Len(c) = m + Len(b) /\ DOMAIN c = 1..(m + Len(b))
        /\ m \in Nat /\ Len(b) \in Nat /\ DOMAIN a = 1..m /\ DOMAIN b = 1..Len(b)
        /\ \A i \in 1..m : c[i] = a[i]
        /\ \A i \in 1..Len(b) : c[m + i] = b[i]
    BY <1>0, Join
  <1> HIDE DEF c, m
  <1>2. \A i \in DOMAIN c : i \in DOMAIN a \/ \E j \in DOMAIN b : i = m + j
    <2> DEFINE k == Len(b)
    <2>1. DOMAIN c = 1..(m + k) /\ DOMAIN a = 1..m /\ DOMAIN b = 1..k /\ m \in Nat /\ k \in Nat
      BY <1>1
    <2> HIDE DEF k
    <2>2. \A i \in 1..(m + k) : i \in 1..m \/ \E j \in 1..k : i = m + j
      BY <2>1, JoinIndex
    <2>3. QED
      BY <2>1, <2>2
  <1>3. /\ \A i \in DOMAIN a : i \in DOMAIN c /\ c[i] = a[i]
        /\ \A i \in DOMAIN b : m + i \in DOMAIN c /\ c[m + i] = b[i]
        /\ \A i, j \in DOMAIN b : m + i < m + j => i < j
        /\ \A i \in DOMAIN b, j \in DOMAIN a : ~(m + i < j)
    BY <1>1
  <1>4. UnitsUpTo(c, n)
    BY <1>1, <1>2, <1>3 DEF UnitsUpTo
  <1>5. Starts(c) = Starts(a) \cup Starts(b)
    <2>1. ASSUME NEW x \in Starts(c) PROVE x \in Starts(a) \cup Starts(b)
      BY <1>2, <1>3 DEF Starts
    <2>2. Starts(a) \subseteq Starts(c) /\ Starts(b) \subseteq Starts(c)
      BY <1>3 DEF Starts
    <2>3. QED
      BY <2>1, <2>2
  <1>6. Rising(c)
    <2>1. SUFFICES ASSUME NEW i \in DOMAIN c, NEW j \in DOMAIN c, i < j, c[i].part = 1, c[j].part = 1
                   PROVE  c[i].msg < c[j].msg
      BY DEF Rising
    <2>2. CASE i \in DOMAIN a /\ j \in DOMAIN a
      BY <1>3, <2>1, <2>2 DEF Rising
    <2>3. CASE i \in DOMAIN a /\ \E h \in DOMAIN b : j = m + h
      BY <1>3, <2>1, <2>3 DEF Below, Starts
    <2>4. CASE (\E g \in DOMAIN b : i = m + g) /\ (\E h \in DOMAIN b : j = m + h)
      BY <1>3, <2>1, <2>4 DEF Rising
    <2>5. QED
      BY <1>2, <1>3, <2>1, <2>2, <2>3, <2>4
  <1>7. ASSUME Packed(a), Packed(b) PROVE Packed(c)
    <2>0. SUFFICES ASSUME NEW i \in DOMAIN c
                   PROVE  /\ c[i].part <= c[i].of
                          /\ i + (c[i].of - c[i].part) <= Len(c)
                          /\ \A k \in 0..(c[i].of - c[i].part) :
                               c[i + k] = [msg |-> c[i].msg, part |-> c[i].part + k, of |-> c[i].of]
      BY DEF Packed
    <2>1. CASE i \in DOMAIN a
      <3> DEFINE u == a[i]
      <3>1. /\ u.part <= u.of /\ i + (u.of - u.part) <= m
            /\ \A k \in 0..(u.of - u.part) :
                 a[i + k] = [msg |-> u.msg, part |-> u.part + k, of |-> u.of]
        BY <1>7, <2>1 DEF Packed, m
      <3>2. c[i] = u /\ u.part \in Nat /\ u.of \in Nat
        BY <1>0, <1>3, <2>1, UnitFields
      <3> HIDE DEF u
      <3>3. i \in Nat /\ i >= 1 /\ Len(c) = m + Len(b) /\ m \in Nat /\ Len(b) \in Nat
        BY <1>1, <2>1
      <3>4. \A k \in 0..(u.of - u.part) : i + k \in 1..m
        BY <3>1, <3>2, <3>3
      <3>5. \A k \in 0..(u.of - u.part) : c[i + k] = a[i + k]
        BY <1>1, <3>4
      <3>6. i + (u.of - u.part) <= Len(c)
        BY <3>1, <3>2, <3>3
      <3>7. QED
        BY <3>1, <3>2, <3>5, <3>6
    <2>2. ASSUME NEW h \in DOMAIN b, i = m + h
          PROVE  /\ c[i].part <= c[i].of
                 /\ i + (c[i].of - c[i].part) <= Len(c)
                 /\ \A k \in 0..(c[i].of - c[i].part) :
                      c[i + k] = [msg |-> c[i].msg, part |-> c[i].part + k, of |-> c[i].of]
      <3> DEFINE u == b[h]
      <3>1. /\ u.part <= u.of /\ h + (u.of - u.part) <= Len(b)
            /\ \A k \in 0..(u.of - u.part) :
                 b[h + k] = [msg |-> u.msg, part |-> u.part + k, of |-> u.of]
        BY <1>7 DEF Packed
      <3>2. c[i] = u /\ u.part \in Nat /\ u.of \in Nat
        BY <1>0, <1>3, <2>2, UnitFields
      <3> HIDE DEF u
      <3>3. h \in Nat /\ h >= 1 /\ Len(c) = m + Len(b) /\ m \in Nat /\ Len(b) \in Nat
        BY <1>1, <2>2
      <3>4. \A k \in 0..(u.of - u.part) : h + k \in 1..Len(b) /\ i + k = m + (h + k)
        <4>1. h + (u.of - u.part) <= Len(b)
          BY <3>1
        <4> DEFINE d == u.of - u.part
                   l == Len(b)
        <4>2. d \in Int /\ l \in Nat /\ h \in Nat /\ h >= 1 /\ m \in Nat /\ h + d <= l
          BY <3>2, <3>3, <4>1
        <4>3. i = m + h
          BY <2>2
        <4> HIDE DEF d, l
        <4>4. \A k \in 0..d : h + k \in 1..l
          BY <4>2
        <4>5. \A k \in 0..d : i + k = m + (h + k)
          BY <4>2, <4>3
        <4>6. QED
          BY <4>4, <4>5 DEF d, l
      <3>5. \A k \in 0..(u.of - u.part) : c[i + k] = b[h + k]
        BY <1>1, <3>4
      <3>6. i + (u.of - u.part) <= Len(c)
        BY <2>2, <3>1, <3>2, <3>3
      <3>7. QED
        BY <3>1, <3>2, <3>5, <3>6
    <2>3. QED
      BY <1>2, <2>0, <2>1, <2>2
  <1>8. QED
    BY <1>4, <1>5, <1>6, <1>7 DEF c

\* The units of one message
LEMMA NewUnits ==
  ASSUME NEW m \in 1..MaxPosts, NEW size \in Sizes
  PROVE  LET u == Units(m, size)
         IN  /\ UnitsUpTo(u, m) /\ Rising(u) /\ Packed(u) /\ Starts(u) = {m}
             /\ Len(u) = size /\ u # <<>>
             /\ u[1] = [msg |-> m, part |-> 1, of |-> size]
  <1> DEFINE u == Units(m, size)
  <1>1. size \in Nat /\ size >= 1 /\ m \in Nat
    BY Constants
  <1>2. \A i \in 1..size : [msg |-> m, part |-> i, of |-> size] \in Unit
    BY <1>1 DEF Unit
  <1>3. /\ u \in Seq(Unit) /\ Len(u) = size /\ DOMAIN u = 1..size
        /\ \A i \in 1..size : u[i] = [msg |-> m, part |-> i, of |-> size]
    BY <1>1, <1>2 DEF Units
  <1> HIDE DEF u
  <1>4. \A i \in 1..size : u[i].msg = m /\ u[i].part = i /\ u[i].of = size
    BY <1>3
  <1>5. UnitsUpTo(u, m)
    BY <1>1, <1>3, <1>4 DEF UnitsUpTo
  <1>6. Rising(u)
    BY <1>1, <1>3, <1>4 DEF Rising
  <1>7. Starts(u) = {m}
    <2>1. 1 \in DOMAIN u /\ u[1].part = 1 /\ u[1].msg = m
      BY <1>1, <1>3, <1>4
    <2>2. QED
      BY <1>3, <1>4, <2>1 DEF Starts
  <1>8. Packed(u)
    <2>1. \A i \in 1..size : \A k \in 0..(size - i) : i + k \in 1..size
      BY <1>1
    <2>2. QED
      BY <1>1, <1>3, <1>4, <2>1 DEF Packed
  <1>9. QED
    BY <1>1, <1>3, <1>5, <1>6, <1>7, <1>8 DEF u

-----------------------------------------------------------------------------
(***************************************************************************)
(* One direction of the channel                                            *)
(***************************************************************************)

LEMMA JobFacts ==
  /\ Eval \in Job /\ ErrorJob \in Job /\ \A m \in 0..MaxPosts : MessageJob(m) \in Job
  /\ ErrorJob # Eval /\ ~Tells(Eval) /\ ~Tells(ErrorJob)
  /\ \A m : /\ MessageJob(m) # Eval /\ MessageJob(m).msg = m
            /\ Tells(MessageJob(m)) <=> m # Leftover
  /\ \A j \in Job : j.kind = "message" => j.msg \in 0..MaxPosts
  <1>1. /\ Eval.kind = "eval" /\ ErrorJob.kind = "error"
        /\ \A m : MessageJob(m).kind = "message" /\ MessageJob(m).msg = m
    BY DEF Eval, ErrorJob, MessageJob
  <1>2. Eval \in Job /\ ErrorJob \in Job /\ \A m \in 0..MaxPosts : MessageJob(m) \in Job
    BY DEF Job
  <1>3. ASSUME NEW j \in Job, j.kind = "message" PROVE j.msg \in 0..MaxPosts
    BY <1>1, <1>3, Zenon DEF Job
  <1>4. QED
    BY <1>1, <1>2, <1>3 DEF Tells

\* A job comes last.
LEMMA AppendJob ==
  ASSUME NEW js \in Seq(Job), NEW j \in Job, RisingJobs(js),
         Tells(j) => \A m \in Told(js) : m < j.msg
  PROVE  /\ Append(js, j) \in Seq(Job) /\ RisingJobs(Append(js, j))
         /\ Told(Append(js, j)) = Told(js) \cup (IF Tells(j) THEN {j.msg} ELSE {})
  <1> DEFINE a == Append(js, j)
             n == Len(js) + 1
  <1>1. /\ a \in Seq(Job) /\ DOMAIN a = 1..n /\ DOMAIN js = 1..Len(js) /\ Len(js) \in Nat
        /\ \A i \in 1..Len(js) : a[i] = js[i]
        /\ a[n] = j
    OBVIOUS
  <1>2. /\ \A i \in DOMAIN a : i \in DOMAIN js \/ i = n
        /\ \A i \in DOMAIN js : i \in DOMAIN a /\ a[i] = js[i] /\ i < n /\ ~(n < i)
        /\ n \in DOMAIN a /\ a[n] = j /\ ~(n < n)
    <2>1. n \in Nat /\ n = Len(js) + 1 /\ Len(js) \in Nat
      BY <1>1
    <2> HIDE DEF a, n
    <2>2. QED
      BY <1>1, <2>1
  <1> HIDE DEF a, n
  <1>3. RisingJobs(a)
    BY <1>2 DEF RisingJobs, Told
  <1>4. Told(a) = Told(js) \cup (IF Tells(j) THEN {j.msg} ELSE {})
    <2>1. \A x \in Told(a) : x \in Told(js) \/ (Tells(j) /\ x = j.msg)
      BY <1>2 DEF Told
    <2>2. Told(js) \subseteq Told(a) /\ (Tells(j) => j.msg \in Told(a))
      BY <1>2 DEF Told
    <2>3. QED
      BY <2>1, <2>2
  <1>5. QED
    BY <1>1, <1>3, <1>4 DEF a

\* The first job is taken.
LEMMA TailJobs ==
  ASSUME NEW js \in Seq(Job), js # <<>>, RisingJobs(js)
  PROVE  /\ Tail(js) \in Seq(Job) /\ RisingJobs(Tail(js)) /\ Told(Tail(js)) \subseteq Told(js)
         /\ Head(js) \in Job
         /\ Tells(Head(js)) => /\ Head(js).msg \in Told(js)
                               /\ \A m \in Told(Tail(js)) : Head(js).msg < m
  <1> DEFINE t == Tail(js)
  <1>1. /\ t \in Seq(Job) /\ Head(js) = js[1] /\ 1 \in DOMAIN js /\ js[1] \in Job
        /\ \A i \in DOMAIN t : i + 1 \in DOMAIN js /\ t[i] = js[i + 1]
        /\ DOMAIN t \subseteq Nat \ {0}
    OBVIOUS
  <1> HIDE DEF t
  <1>2. /\ \A i, j \in DOMAIN t : i < j => i + 1 < j + 1
        /\ \A i \in DOMAIN t : 1 < i + 1
    BY <1>1
  <1>3. RisingJobs(t) /\ Told(t) \subseteq Told(js)
    BY <1>1, <1>2 DEF RisingJobs, Told
  <1>4. Tells(Head(js)) => /\ Head(js).msg \in Told(js)
                           /\ \A m \in Told(t) : Head(js).msg < m
    BY <1>1, <1>2 DEF RisingJobs, Told
  <1>5. QED
    BY <1>1, <1>3, <1>4 DEF t

\* ks has no evaluation that js has not in the same place.
KeepsEval(ks, js) == \A i \in DOMAIN ks : ks[i] # Eval \/ (i \in DOMAIN js /\ ks[i] = js[i])

\* Errors bring no messages.
LEMMA ErrorJobs ==
  ASSUME NEW js \in Seq(Job), RisingJobs(js), NEW n \in Nat
  PROVE  LET a == js \o [i \in 1..n |-> ErrorJob]
         IN  /\ a \in Seq(Job) /\ RisingJobs(a) /\ Told(a) = Told(js)
             /\ KeepsEval(a, js)
  <1> DEFINE e == [i \in 1..n |-> ErrorJob]
             a == js \o e
             m == Len(js)
  <1>1. e \in Seq(Job) /\ Len(e) = n /\ \A i \in 1..n : e[i] = ErrorJob
    BY JobFacts
  <1> HIDE DEF e
  <1>2. /\ a \in Seq(Job) /\ DOMAIN a = 1..(m + n) /\ m \in Nat /\ DOMAIN js = 1..m
        /\ \A i \in 1..m : a[i] = js[i]
        /\ \A i \in 1..n : a[m + i] = ErrorJob
    <2>1. /\ a \in Seq(Job) /\ DOMAIN a = 1..(m + Len(e)) /\ m \in Nat /\ DOMAIN js = 1..m
          /\ \A i \in 1..m : a[i] = js[i]
          /\ \A i \in 1..Len(e) : a[m + i] = e[i]
      <3>1. e \in Seq(Job)
        BY <1>1
      <3>2. QED
        BY <3>1, Join
    <2> HIDE DEF a, m
    <2>2. QED
      BY <1>1, <2>1
  <1> HIDE DEF a, m
  <1>3. \A i \in 1..(m + n) : i \in 1..m \/ \E j \in 1..n : i = m + j
    BY <1>2, JoinIndex
  <1>4. /\ \A i \in DOMAIN a : a[i] = ErrorJob \/ (i \in DOMAIN js /\ a[i] = js[i])
        /\ \A i \in DOMAIN js : i \in DOMAIN a /\ a[i] = js[i]
    <2>1. \A i \in 1..m : i \in 1..(m + n)
      BY <1>2
    <2>2. ASSUME NEW i \in 1..(m + n) PROVE a[i] = ErrorJob \/ (i \in 1..m /\ a[i] = js[i])
      BY <1>2, <1>3
    <2>3. QED
      BY <1>2, <2>1, <2>2
  <1>5. RisingJobs(a)
    BY <1>4, JobFacts DEF RisingJobs
  <1>6. Told(a) = Told(js)
    BY <1>4, JobFacts DEF Told
  <1>7. KeepsEval(a, js)
    BY <1>4, JobFacts DEF KeepsEval
  <1>8. QED
    BY <1>2, <1>5, <1>6, <1>7 DEF a, e

\* A message, or a failed decoding, is received.
LEMMA AppendGot ==
  ASSUME NEW rec \in Seq(0..MaxPosts), NEW m \in 0..MaxPosts, RisingGot(rec),
         m # Leftover => \A x \in Got(rec) : x < m
  PROVE  /\ Append(rec, m) \in Seq(0..MaxPosts) /\ RisingGot(Append(rec, m))
         /\ Got(Append(rec, m)) = Got(rec) \cup (IF m # Leftover THEN {m} ELSE {})
  <1> DEFINE a == Append(rec, m)
             n == Len(rec) + 1
  <1>1. /\ a \in Seq(0..MaxPosts) /\ DOMAIN a = 1..n /\ DOMAIN rec = 1..Len(rec) /\ Len(rec) \in Nat
        /\ \A i \in 1..Len(rec) : a[i] = rec[i]
        /\ a[n] = m
    OBVIOUS
  <1>2. /\ \A i \in DOMAIN a : i \in DOMAIN rec \/ i = n
        /\ \A i \in DOMAIN rec : i \in DOMAIN a /\ a[i] = rec[i] /\ i < n /\ ~(n < i)
        /\ n \in DOMAIN a /\ a[n] = m /\ ~(n < n)
    <2>1. n \in Nat /\ n = Len(rec) + 1 /\ Len(rec) \in Nat
      BY <1>1
    <2> HIDE DEF a, n
    <2>2. QED
      BY <1>1, <2>1
  <1> HIDE DEF a, n
  <1>3. RisingGot(a)
    BY <1>2 DEF RisingGot, Got
  <1>4. Got(a) = Got(rec) \cup (IF m # Leftover THEN {m} ELSE {})
    <2>1. \A x \in Got(a) : x \in Got(rec) \/ (m # Leftover /\ x = m)
      BY <1>2 DEF Got
    <2>2. Got(rec) \subseteq Got(a) /\ (m # Leftover => m \in Got(a))
      BY <1>2 DEF Got
    <2>3. QED
      BY <2>1, <2>2
  <1>5. QED
    BY <1>1, <1>3, <1>4 DEF a

\* A message is posted: its units come behind the others.
LEMMA ChanPost ==
  ASSUME NEW rec, NEW js, NEW nt, NEW ot, NEW n, Chan(rec, js, nt, ot, n), n < MaxPosts,
         NEW size \in Sizes
  PROVE  Chan(rec, js, nt, ot \o Units(n + 1, size), n + 1)
  <1> DEFINE u == Units(n + 1, size)
             m == n + 1
  <1>1. n \in Nat /\ m \in 1..MaxPosts /\ m \in Nat /\ m \in 0..MaxPosts
    BY Constants DEF Chan
  <1>2. UnitsUpTo(u, m) /\ Rising(u) /\ Packed(u) /\ Starts(u) = {m}
    BY <1>1, NewUnits
  <1>3. UnitsUpTo(nt, n) /\ UnitsUpTo(ot, n) /\ Rising(ot) /\ Packed(ot)
    BY DEF Chan
  <1>4. Starts(nt) \subseteq 1..n /\ Starts(ot) \subseteq 1..n
    <2>1. ASSUME NEW q, UnitsUpTo(q, n) PROVE Starts(q) \subseteq 1..n
      <3>1. \A i \in DOMAIN q : q[i] \in Unit /\ q[i].msg <= n
        BY <2>1 DEF UnitsUpTo
      <3>2. \A i \in DOMAIN q : q[i].msg \in 1..n
        BY <1>1, <3>1, UnitFields
      <3>3. QED
        BY <3>2 DEF Starts
    <2>2. QED
      BY <1>3, <2>1
  <1>5. UnitsUpTo(nt, m) /\ UnitsUpTo(ot, m)
    <2>1. ASSUME NEW q, UnitsUpTo(q, n) PROVE UnitsUpTo(q, m)
      <3>1. q \in Seq(Unit) /\ \A i \in DOMAIN q : q[i] \in Unit /\ q[i].msg <= n
        BY <2>1 DEF UnitsUpTo
      <3>2. \A i \in DOMAIN q : q[i].msg <= m
        BY <1>1, <3>1, UnitFields
      <3>3. QED
        BY <3>1, <3>2 DEF UnitsUpTo
    <2>2. QED
      BY <1>3, <2>1
  <1>6. \A x \in 1..n : x < m /\ x \in 1..m
    BY <1>1
  <1> HIDE DEF u, m
  <1>7. Below(Starts(ot), Starts(u))
    BY <1>2, <1>4, <1>6 DEF Below
  <1>8. /\ UnitsUpTo(ot \o u, m) /\ Rising(ot \o u) /\ Packed(ot \o u)
        /\ Starts(ot \o u) = Starts(ot) \cup {m}
    BY <1>1, <1>2, <1>3, <1>5, <1>7, JoinUnits
  <1>9. Got(rec) \subseteq 1..n /\ Told(js) \subseteq 1..n
    BY DEF Chan
  <1>10. /\ Below(Got(rec), Starts(ot \o u)) /\ Below(Told(js), Starts(ot \o u))
         /\ Below(Starts(nt), Starts(ot \o u))
    BY <1>4, <1>6, <1>8, <1>9 DEF Below, Chan
  <1>11. Got(rec) \subseteq 1..m /\ Told(js) \subseteq 1..m
    BY <1>6, <1>9
  <1>12. Chan(rec, js, nt, ot \o u, m)
    BY <1>1, <1>5, <1>8, <1>10, <1>11 DEF Chan
  <1>13. QED
    BY <1>12 DEF u, m

\* k units go from the write queue to the socket.
LEMMA ChanWrite ==
  ASSUME NEW rec, NEW js, NEW nt, NEW ot, NEW n, Chan(rec, js, nt, ot, n), NEW k \in 0..Len(ot)
  PROVE  Chan(rec, js, nt \o SubSeq(ot, 1, k), SubSeq(ot, k + 1, Len(ot)), n)
  <1> DEFINE a == SubSeq(ot, 1, k)
             b == SubSeq(ot, k + 1, Len(ot))
  <1>1. /\ n \in Nat /\ UnitsUpTo(nt, n) /\ Rising(nt) /\ UnitsUpTo(ot, n) /\ Rising(ot) /\ Packed(ot)
        /\ Below(Starts(nt), Starts(ot))
    BY DEF Chan
  <1>2. /\ UnitsUpTo(a, n) /\ Rising(a) /\ Starts(a) \subseteq Starts(ot)
        /\ UnitsUpTo(b, n) /\ Rising(b) /\ Starts(b) \subseteq Starts(ot)
        /\ Below(Starts(a), Starts(b)) /\ Packed(b)
    BY <1>1, SplitUnits
  <1> HIDE DEF a, b
  <1>3. Below(Starts(nt), Starts(a))
    BY <1>1, <1>2 DEF Below
  <1>4. UnitsUpTo(nt \o a, n) /\ Rising(nt \o a) /\ Starts(nt \o a) = Starts(nt) \cup Starts(a)
    BY <1>1, <1>2, <1>3, JoinUnits
  <1>5. /\ Below(Got(rec), Starts(nt \o a)) /\ Below(Got(rec), Starts(b))
        /\ Below(Told(js), Starts(nt \o a)) /\ Below(Told(js), Starts(b))
        /\ Below(Starts(nt \o a), Starts(b))
    BY <1>2, <1>4 DEF Below, Chan
  <1>6. Chan(rec, js, nt \o a, b, n)
    BY <1>2, <1>4, <1>5 DEF Chan
  <1>7. QED
    BY <1>6 DEF a, b

\* k units of the write queue are lost: a request fails.
LEMMA ChanFail ==
  ASSUME NEW rec, NEW js, NEW nt, NEW ot, NEW n, Chan(rec, js, nt, ot, n), NEW k \in 0..Len(ot)
  PROVE  Chan(rec, js, nt, SubSeq(ot, k + 1, Len(ot)), n)
  <1> DEFINE b == SubSeq(ot, k + 1, Len(ot))
  <1>1. n \in Nat /\ UnitsUpTo(ot, n) /\ Rising(ot) /\ Packed(ot)
    BY DEF Chan
  <1>2. UnitsUpTo(b, n) /\ Rising(b) /\ Starts(b) \subseteq Starts(ot) /\ Packed(b)
    BY <1>1, SplitUnits
  <1> HIDE DEF b
  <1>3. Below(Got(rec), Starts(b)) /\ Below(Told(js), Starts(b)) /\ Below(Starts(nt), Starts(b))
    BY <1>2 DEF Below, Chan
  <1>4. Chan(rec, js, nt, b, n)
    BY <1>2, <1>3 DEF Chan
  <1>5. QED
    BY <1>4 DEF b

\* The write queue is dropped.
LEMMA ChanCancel ==
  ASSUME NEW rec, NEW js, NEW nt, NEW ot, NEW n, Chan(rec, js, nt, ot, n)
  PROVE  Chan(rec, js, nt, <<>>, n)
  <1>1. UnitsUpTo(<<>>, n) /\ Rising(<<>>) /\ Packed(<<>>) /\ Starts(<<>>) = {}
    BY EmptyIsSeq DEF UnitsUpTo, Rising, Packed, Starts
  <1>2. Below(Got(rec), Starts(<<>>)) /\ Below(Told(js), Starts(<<>>)) /\ Below(Starts(nt), Starts(<<>>))
    BY <1>1 DEF Below
  <1>3. QED
    BY <1>1, <1>2 DEF Chan

\* k units are read, and decoded as one message.
LEMMA ChanRead ==
  ASSUME NEW rec, NEW js, NEW nt, NEW ot, NEW n, Chan(rec, js, nt, ot, n), NEW k \in 1..Len(nt)
  PROVE  Chan(rec, Append(js, MessageJob(Decode(SubSeq(nt, 1, k)))), SubSeq(nt, k + 1, Len(nt)), ot, n)
  <1> DEFINE a == SubSeq(nt, 1, k)
             b == SubSeq(nt, k + 1, Len(nt))
             m == Decode(a)
             j == MessageJob(m)
  <1>1. /\ n \in Nat /\ n \in 0..MaxPosts /\ UnitsUpTo(nt, n) /\ Rising(nt) /\ nt \in Seq(Unit)
        /\ js \in Seq(Job) /\ RisingJobs(js)
    BY DEF Chan, UnitsUpTo
  <1>2. k \in 0..Len(nt) /\ k >= 1 /\ k \in Nat
    BY <1>1
  <1>3. /\ UnitsUpTo(a, n) /\ Rising(a) /\ Starts(a) \subseteq Starts(nt)
        /\ UnitsUpTo(b, n) /\ Rising(b) /\ Starts(b) \subseteq Starts(nt)
        /\ Below(Starts(a), Starts(b)) /\ Len(a) = k
    BY <1>1, <1>2, SplitUnits
  <1> HIDE DEF a, b
  <1>4. 1 \in DOMAIN a /\ a[1] \in Unit /\ a[1].msg <= n
    <2>1. a \in Seq(Unit) /\ Len(a) = k /\ \A i \in DOMAIN a : a[i].msg <= n
      BY <1>3 DEF UnitsUpTo
    <2>2. 1 \in DOMAIN a
      BY <1>2, <2>1
    <2>3. QED
      BY <2>1, <2>2
  <1>5. \/ m = Leftover
        \/ m \in Starts(a) /\ m \in 1..n /\ m # Leftover
    <2>1. (m = a[1].msg /\ a[1].part = 1) \/ m = Leftover
      BY DEF Decode
    <2>2. a[1].msg \in 1..n /\ a[1].msg # Leftover
      BY <1>1, <1>4, UnitFields
    <2>3. a[1].part = 1 => a[1].msg \in Starts(a)
      BY <1>4 DEF Starts
    <2>4. QED
      BY <2>1, <2>2, <2>3
  <1>6. m \in 0..MaxPosts
    BY <1>1, <1>5, Constants DEF Leftover
  <1> HIDE DEF m
  <1>7. j \in Job /\ j.msg = m /\ (Tells(j) <=> m # Leftover)
    BY <1>6, JobFacts
  <1> HIDE DEF j
  <1>8. Tells(j) => \A x \in Told(js) : x < j.msg
    BY <1>3, <1>5, <1>7 DEF Below, Chan
  <1>9. /\ Append(js, j) \in Seq(Job) /\ RisingJobs(Append(js, j))
        /\ Told(Append(js, j)) = Told(js) \cup (IF Tells(j) THEN {j.msg} ELSE {})
    BY <1>1, <1>7, <1>8, AppendJob
  <1>10. Told(Append(js, j)) \subseteq Told(js) \cup {x \in Starts(a) : x \in 1..n}
    BY <1>5, <1>7, <1>9
  <1>11. Told(Append(js, j)) \subseteq 1..n
    BY <1>10 DEF Chan
  <1>12. /\ Below(Got(rec), Told(Append(js, j))) /\ Below(Got(rec), Starts(b))
         /\ Below(Told(Append(js, j)), Starts(b)) /\ Below(Told(Append(js, j)), Starts(ot))
         /\ Below(Starts(b), Starts(ot))
    BY <1>3, <1>10 DEF Below, Chan
  <1>13. Chan(rec, Append(js, j), b, ot, n)
    BY <1>3, <1>9, <1>11, <1>12 DEF Chan
  <1>14. QED
    BY <1>13 DEF a, b, m, j

\* Jobs that bring no message change nothing.
LEMMA ChanJobs ==
  ASSUME NEW rec, NEW js, NEW nt, NEW ot, NEW n, Chan(rec, js, nt, ot, n),
         NEW ks \in Seq(Job), RisingJobs(ks), Told(ks) \subseteq Told(js)
  PROVE  Chan(rec, ks, nt, ot, n)
  <1>1. /\ Told(ks) \subseteq 1..n /\ Below(Got(rec), Told(ks))
        /\ Below(Told(ks), Starts(nt)) /\ Below(Told(ks), Starts(ot))
    BY DEF Below, Chan
  <1>2. QED
    BY <1>1 DEF Chan

\* The handler is called for the first job.
LEMMA ChanEmit ==
  ASSUME NEW rec, NEW js, NEW nt, NEW ot, NEW n, Chan(rec, js, nt, ot, n), js # <<>>
  PROVE  /\ Chan(rec, Tail(js), nt, ot, n)
         /\ Head(js).kind = "message" => Chan(Append(rec, Head(js).msg), Tail(js), nt, ot, n)
  <1> DEFINE m == Head(js).msg
             t == Tail(js)
             r == Append(rec, m)
  <1>1. /\ rec \in Seq(0..MaxPosts) /\ RisingGot(rec) /\ js \in Seq(Job) /\ RisingJobs(js)
        /\ Got(rec) \subseteq 1..n
    BY DEF Chan
  <1>2. /\ t \in Seq(Job) /\ RisingJobs(t) /\ Told(t) \subseteq Told(js)
        /\ Head(js) \in Job
        /\ Tells(Head(js)) => m \in Told(js) /\ \A x \in Told(t) : m < x
    BY <1>1, TailJobs
  <1>3. Chan(rec, t, nt, ot, n)
    BY <1>2, ChanJobs
  <1>4. ASSUME Head(js).kind = "message" PROVE Chan(r, t, nt, ot, n)
    <2>1. m \in 0..MaxPosts /\ (Tells(Head(js)) <=> m # Leftover)
      BY <1>2, <1>4, JobFacts DEF Tells
    <2> HIDE DEF m, t
    <2>2. m # Leftover => m \in Told(js) /\ (\A x \in Told(t) : m < x) /\ (\A x \in Got(rec) : x < m)
      BY <1>2, <2>1 DEF Chan, Below
    <2>3. /\ r \in Seq(0..MaxPosts) /\ RisingGot(r)
          /\ Got(r) = Got(rec) \cup (IF m # Leftover THEN {m} ELSE {})
      BY <1>1, <2>1, <2>2, AppendGot
    <2> HIDE DEF r
    <2>4. Got(r) \subseteq 1..n
      BY <2>2, <2>3 DEF Chan
    <2>5. Below(Got(r), Told(t)) /\ Below(Got(r), Starts(nt)) /\ Below(Got(r), Starts(ot))
      BY <1>3, <2>2, <2>3 DEF Chan, Below
    <2>6. QED
      BY <1>3, <2>3, <2>4, <2>5 DEF Chan
  <1>5. QED
    BY <1>3, <1>4

-----------------------------------------------------------------------------
(***************************************************************************)
(* The messages of both sides                                              *)
(***************************************************************************)

LEMMA PeerFacts ==
  ASSUME NEW s \in Sides
  PROVE  /\ Peer(s) \in Sides /\ Peer(s) # s /\ Peer(Peer(s)) = s
         /\ \A t \in Sides : t = s \/ t = Peer(s)
  BY DEF Sides, Peer

LEMMA Same ==
  ASSUME NEW S, NEW T, NEW f \in [S -> T], NEW x \in S
  PROVE  f = [f EXCEPT ![x] = f[x]]
  OBVIOUS

\* A step of side s changes what is its own, and the socket.
SideMoves(s, ot, pl, nt, js, rec, po, un, br) ==
  /\ out' = [out EXCEPT ![s] = ot] /\ pollout' = [pollout EXCEPT ![s] = pl] /\ net' = nt
  /\ jobs' = [jobs EXCEPT ![s] = js] /\ received' = [received EXCEPT ![s] = rec]
  /\ posted' = [posted EXCEPT ![s] = po] /\ unacked' = [unacked EXCEPT ![s] = un]
  /\ broken' = [broken EXCEPT ![s] = br]
  /\ pl \in BOOLEAN /\ nt \in [Sides -> Seq(Unit)] /\ po \in Seq(Sizes)
  /\ pl => ot # <<>>
  /\ Len(nt[s]) <= Capacity /\ Len(nt[Peer(s)]) <= Capacity
  /\ Chan(received[Peer(s)], jobs[Peer(s)], nt[s], ot, Len(po))
  /\ Chan(rec, js, nt[Peer(s)], out[Peer(s)], Len(posted[Peer(s)]))
  /\ un \subseteq 1..Len(po) /\ br \subseteq 1..Len(po)

LEMMA SideStep ==
  ASSUME MsgInv, NEW s \in Sides, NEW ot, NEW pl, NEW nt, NEW js, NEW rec, NEW po, NEW un, NEW br,
         SideMoves(s, ot, pl, nt, js, rec, po, un, br)
  PROVE  MsgInv'
  <1> DEFINE p == Peer(s)
  <1>1. p \in Sides /\ p # s /\ Peer(p) = s /\ \A t \in Sides : t = s \/ t = p
    BY PeerFacts
  <1>0. /\ out' = [out EXCEPT ![s] = ot] /\ pollout' = [pollout EXCEPT ![s] = pl] /\ net' = nt
        /\ jobs' = [jobs EXCEPT ![s] = js] /\ received' = [received EXCEPT ![s] = rec]
        /\ posted' = [posted EXCEPT ![s] = po] /\ unacked' = [unacked EXCEPT ![s] = un]
        /\ broken' = [broken EXCEPT ![s] = br]
        /\ pl \in BOOLEAN /\ nt \in [Sides -> Seq(Unit)] /\ po \in Seq(Sizes)
        /\ pl => ot # <<>>
        /\ Len(nt[s]) <= Capacity /\ Len(nt[p]) <= Capacity
        /\ Chan(received[p], jobs[p], nt[s], ot, Len(po))
        /\ Chan(rec, js, nt[p], out[p], Len(posted[p]))
        /\ un \subseteq 1..Len(po) /\ br \subseteq 1..Len(po)
    BY DEF SideMoves
  <1>2. /\ ot \in Seq(Unit) /\ js \in Seq(Job) /\ rec \in Seq(0..MaxPosts)
        /\ Len(po) \in 0..MaxPosts
    BY <1>0 DEF Chan, UnitsUpTo
  <1>3. 1..Len(po) \subseteq 1..MaxPosts
    BY <1>2, Constants
  <1>4. /\ out' \in [Sides -> Seq(Unit)] /\ out'[s] = ot /\ out'[p] = out[p]
        /\ jobs' \in [Sides -> Seq(Job)] /\ jobs'[s] = js /\ jobs'[p] = jobs[p]
        /\ received' \in [Sides -> Seq(0..MaxPosts)] /\ received'[s] = rec /\ received'[p] = received[p]
    BY <1>0, <1>1, <1>2 DEF MsgInv
  <1>5. /\ pollout' \in [Sides -> BOOLEAN] /\ pollout'[s] = pl /\ pollout'[p] = pollout[p]
        /\ posted' \in [Sides -> Seq(Sizes)] /\ posted'[s] = po /\ posted'[p] = posted[p]
    BY <1>0, <1>1 DEF MsgInv
  <1>6. /\ unacked' \in [Sides -> SUBSET (1..MaxPosts)] /\ unacked'[s] = un /\ unacked'[p] = unacked[p]
        /\ broken' \in [Sides -> SUBSET (1..MaxPosts)] /\ broken'[s] = br /\ broken'[p] = broken[p]
    <2>1. un \in SUBSET (1..MaxPosts) /\ br \in SUBSET (1..MaxPosts)
      BY <1>0, <1>3
    <2>2. QED
      BY <1>0, <1>1, <2>1 DEF MsgInv
  <1>7. SideInv(s)'
    <2>1. Chan(received'[p], jobs'[p], net'[s], out'[s], Len(posted'[s]))
      BY <1>0, <1>4, <1>5
    <2> HIDE DEF p
    <2>2. QED
      BY <1>0, <1>4, <1>5, <1>6, <2>1 DEF SideInv, p
  <1>8. SideInv(p)'
    <2> HIDE DEF p
    <2>1. SideInv(p)
      BY <1>1 DEF MsgInv
    <2>2. Chan(received'[s], jobs'[s], net'[p], out'[p], Len(posted'[p]))
      BY <1>0, <1>4, <1>5
    <2>3. Len(net'[p]) <= Capacity
      BY <1>0
    <2>4. QED
      BY <1>1, <1>4, <1>5, <1>6, <2>1, <2>2, <2>3 DEF SideInv
  <1>9. \A t \in Sides : SideInv(t)'
    BY <1>1, <1>7, <1>8
  <1>10. QED
    BY <1>0, <1>4, <1>5, <1>6, <1>9 DEF MsgInv

\* The facts about the messages of side s
LEMMA SideFacts ==
  ASSUME MsgInv, NEW s \in Sides
  PROVE  /\ out[s] \in Seq(Unit) /\ net[s] \in Seq(Unit) /\ jobs[s] \in Seq(Job)
         /\ posted[s] \in Seq(Sizes) /\ received[s] \in Seq(0..MaxPosts)
         /\ pollout[s] \in BOOLEAN
         /\ unacked[s] \subseteq 1..Len(posted[s]) /\ broken[s] \subseteq 1..Len(posted[s])
         /\ pollout[s] => out[s] # <<>>
         /\ Len(net[s]) <= Capacity
         /\ Chan(received[Peer(s)], jobs[Peer(s)], net[s], out[s], Len(posted[s]))
         /\ Len(posted[s]) \in 0..MaxPosts
         /\ RisingJobs(jobs[s])
  <1>1. SideInv(s) /\ SideInv(Peer(s)) /\ Peer(Peer(s)) = s
    BY PeerFacts DEF MsgInv
  <1>2. RisingJobs(jobs[s])
    BY <1>1 DEF SideInv, Chan
  <1>3. Len(posted[s]) \in 0..MaxPosts
    BY <1>1 DEF SideInv, Chan
  <1>4. QED
    BY <1>1, <1>2, <1>3 DEF MsgInv, SideInv

\* The first request of a write queue has all its units in it.
LEMMA FirstRequest ==
  ASSUME NEW rec, NEW js, NEW nt, NEW q, NEW n, Chan(rec, js, nt, q, n), q # <<>>
  PROVE  /\ q[1] \in Unit
         /\ q[1].of - q[1].part + 1 \in 1..Len(q)
         /\ q[1].msg \in 1..n
  <1>1. q \in Seq(Unit) /\ Packed(q) /\ n \in Nat /\ \A i \in DOMAIN q : q[i].msg <= n
    BY DEF Chan, UnitsUpTo
  <1>2. 1 \in DOMAIN q /\ q[1] \in Unit
    BY <1>1
  <1>3. q[1].part <= q[1].of /\ 1 + (q[1].of - q[1].part) <= Len(q) /\ q[1].msg <= n
    BY <1>1, <1>2 DEF Packed
  <1>4. q[1].of \in Nat /\ q[1].part \in Nat /\ q[1].msg \in Nat /\ q[1].msg \in 1..MaxPosts
    BY <1>2, UnitFields
  <1>5. Len(q) \in Nat
    BY <1>1
  <1> DEFINE d == q[1].of - q[1].part
  <1>6. d \in Nat /\ 1 + d <= Len(q)
    BY <1>3, <1>4
  <1> HIDE DEF d
  <1>7. d + 1 \in 1..Len(q)
    BY <1>5, <1>6
  <1>8. q[1].msg \in 1..n
    BY <1>1, <1>3, <1>4
  <1>9. QED
    BY <1>2, <1>7, <1>8 DEF d

\* uv__write moves k units.
LEMMA WriteMoves ==
  ASSUME MsgInv, NEW s \in Sides, NEW q, NEW n, q # <<>>,
         Chan(received[Peer(s)], jobs[Peer(s)], net[s], q, n), Write(s, q)
  PROVE  \E k \in 0..Len(q) :
           /\ out' = [out EXCEPT ![s] = SubSeq(q, k + 1, Len(q))]
           /\ net' = [net EXCEPT ![s] = net[s] \o SubSeq(q, 1, k)]
           /\ pollout' = [pollout EXCEPT ![s] = k < Len(q)]
           /\ Len(net[s]) + k <= Capacity
  <1> DEFINE r == q[1].of - q[1].part + 1
             f == Capacity - Len(net[s])
             k == Min2(r, f)
  <1>1. r \in 1..Len(q) /\ q \in Seq(Unit)
    BY FirstRequest DEF Chan, UnitsUpTo
  <1>2. f \in Nat /\ Len(net[s]) \in Nat /\ Len(net[s]) + f = Capacity /\ Len(q) \in Nat
    BY <1>1, SideFacts, Constants
  <1>3. /\ out' = [out EXCEPT ![s] = SubSeq(q, k + 1, Len(q))]
        /\ net' = [net EXCEPT ![s] = net[s] \o SubSeq(q, 1, k)]
        /\ pollout' = [pollout EXCEPT ![s] = k < Len(q)]
    BY DEF Write
  <1> HIDE DEF r, f
  <1>4. k \in 0..Len(q) /\ Len(net[s]) + k <= Capacity
    <2> DEFINE l == Len(q)
               w == Len(net[s])
    <2>1. l \in Nat /\ w \in Nat /\ r \in 1..l /\ f \in Nat /\ w + f = Capacity
      BY <1>1, <1>2
    <2>2. (k = r /\ r < f) \/ (k = f /\ f <= r)
      BY <2>1 DEF Min2
    <2> HIDE DEF k, l, w
    <2>3. k \in 0..l /\ w + k <= Capacity
      BY <2>1, <2>2
    <2>4. QED
      BY <2>3 DEF l, w
  <1> HIDE DEF k
  <1>5. QED
    BY <1>3, <1>4

\* The write queue and the socket after uv__write, and after it failed
LEMMA Written ==
  ASSUME MsgInv, NEW s \in Sides, NEW q, NEW n, q # <<>>,
         Chan(received[Peer(s)], jobs[Peer(s)], net[s], q, n),
         Write(s, q) \/ WriteFails(s, q)
  PROVE  \E ot, pl, x :
           /\ pl \in BOOLEAN /\ x \in Seq(Unit)
           /\ out' = [out EXCEPT ![s] = ot] /\ pollout' = [pollout EXCEPT ![s] = pl]
           /\ net' = [net EXCEPT ![s] = x]
           /\ pl => ot # <<>>
           /\ Len(x) <= Capacity
           /\ Chan(received[Peer(s)], jobs[Peer(s)], x, ot, n)
  <1>1. /\ net[s] \in Seq(Unit) /\ Len(net[s]) <= Capacity /\ q \in Seq(Unit)
    BY SideFacts DEF Chan, UnitsUpTo
  <1>2. CASE Write(s, q)
    <2>1. PICK k \in 0..Len(q) :
            /\ out' = [out EXCEPT ![s] = SubSeq(q, k + 1, Len(q))]
            /\ net' = [net EXCEPT ![s] = net[s] \o SubSeq(q, 1, k)]
            /\ pollout' = [pollout EXCEPT ![s] = k < Len(q)]
            /\ Len(net[s]) + k <= Capacity
      BY <1>2, WriteMoves
    <2> DEFINE a == SubSeq(q, 1, k)
               b == SubSeq(q, k + 1, Len(q))
               x == net[s] \o a
               pl == k < Len(q)
    <2>2. Chan(received[Peer(s)], jobs[Peer(s)], x, b, n)
      BY ChanWrite
    <2>3. a \in Seq(Unit) /\ b \in Seq(Unit) /\ Len(a) = k /\ Len(b) = Len(q) - k
      BY <1>1, Split
    <2>4. out' = [out EXCEPT ![s] = b] /\ net' = [net EXCEPT ![s] = x] /\ pollout' = [pollout EXCEPT ![s] = pl]
      BY <2>1
    <2> HIDE DEF a, b
    <2>5. x \in Seq(Unit) /\ Len(x) = Len(net[s]) + k
      BY <1>1, <2>3, Join
    <2>6. pl => b # <<>>
      <3>1. Len(q) \in Nat /\ k \in Nat
        BY <1>1
      <3>2. k < Len(q) => Len(b) > 0
        BY <2>3, <3>1
      <3>3. QED
        BY <2>3, <3>2
    <2>7. pl \in BOOLEAN
      OBVIOUS
    <2> HIDE DEF x, pl
    <2>8. Len(x) <= Capacity
      BY <2>1, <2>5
    <2>9. QED
      BY <2>2, <2>4, <2>5, <2>6, <2>7, <2>8
  <1>3. CASE WriteFails(s, q)
    <2> DEFINE k == q[1].of - q[1].part + 1
               b == SubSeq(q, k + 1, Len(q))
    <2>1. k \in 1..Len(q) /\ q[1].of \in Nat /\ q[1].part \in Nat
      BY FirstRequest, UnitFields
    <2>2. q[1].of - q[1].part + 2 = k + 1
      BY <2>1
    <2>3. out' = [out EXCEPT ![s] = b] /\ pollout' = [pollout EXCEPT ![s] = FALSE] /\ net' = net
      BY <1>3, <2>2 DEF WriteFails
    <2> HIDE DEF k
    <2>4. k \in 0..Len(q)
      BY <1>1, <2>1
    <2>5. Chan(received[Peer(s)], jobs[Peer(s)], net[s], b, n)
      BY <2>4, ChanFail
    <2> HIDE DEF b
    <2>6. net' = [net EXCEPT ![s] = net[s]]
      BY <2>3, Same DEF MsgInv
    <2>7. QED
      BY <1>1, <2>3, <2>5, <2>6
  <1>4. QED
    BY <1>2, <1>3

\* The callbacks of the writes that are done
LEMMA Acknowledged ==
  ASSUME MsgInv, NEW s \in Sides, NEW failing, IsFiniteSet(failing),
         NEW js \in Seq(Job), RisingJobs(js), WriteCb(s, failing, js)
  PROVE  \E ks, un :
           /\ jobs' = [jobs EXCEPT ![s] = ks] /\ unacked' = [unacked EXCEPT ![s] = un]
           /\ broken' = [broken EXCEPT ![s] = {}]
           /\ un \subseteq unacked[s]
           /\ ks \in Seq(Job) /\ RisingJobs(ks) /\ Told(ks) = Told(js)
           /\ KeepsEval(ks, js)
  <1> DEFINE n == Cardinality(broken[s] \cup failing)
             ks == js \o [i \in 1..n |-> ErrorJob]
             un == unacked[s] \cap Queued(out'[s])
  <1>1. n \in Nat
    <2>1. broken[s] \subseteq 1..MaxPosts
      BY DEF MsgInv
    <2>2. IsFiniteSet(1..MaxPosts)
      BY Constants, FS_Interval
    <2>3. IsFiniteSet(broken[s])
      BY <2>1, <2>2, FS_Subset
    <2>4. IsFiniteSet(broken[s] \cup failing)
      BY <2>3, FS_Union
    <2>5. QED
      BY <2>4, FS_CardinalityType
  <1>2. /\ jobs' = [jobs EXCEPT ![s] = ks] /\ unacked' = [unacked EXCEPT ![s] = un]
        /\ broken' = [broken EXCEPT ![s] = {}]
    BY DEF WriteCb
  <1> HIDE DEF n
  <1>3. /\ ks \in Seq(Job) /\ RisingJobs(ks) /\ Told(ks) = Told(js)
        /\ KeepsEval(ks, js)
    BY <1>1, ErrorJobs
  <1> HIDE DEF ks
  <1>4. un \subseteq unacked[s]
    OBVIOUS
  <1> HIDE DEF un
  <1>5. QED
    BY <1>2, <1>3, <1>4

\* Parts of the invariant that a step does not touch
LEMMA ThreadKeep ==
  ASSUME ThreadInv, UNCHANGED threadVars
  PROVE  ThreadInv'
  BY DEF ThreadInv, threadVars, ThreadTypes, StartInv, StopInv, NotStarted

LEMMA NoFault ==
  ASSUME Running, fault' = fault
  PROVE  FaultCause'
  BY DEF Running, FaultCause

LEMMA EvalKeep ==
  ASSUME MsgInv, EvalInv, NEW s \in Sides, NEW ks, jobs' = [jobs EXCEPT ![s] = ks], failed' = failed,
         KeepsEval(ks, jobs[s])
  PROVE  EvalInv'
  <1>1. jobs'[s] = ks /\ \A t \in Sides : t # s => jobs'[t] = jobs[t]
    BY DEF MsgInv
  <1>2. QED
    BY <1>1 DEF EvalInv, KeepsEval

LEMMA PostBound ==
  ASSUME WorkerInv, NEW s \in Sides, NEW size \in Sizes, PostMessage(s, size)
  PROVE  Len(posted[s]) < MaxPosts
  <1>1. Len(posted[s]) \in Nat /\ Len(posted[Peer(s)]) \in Nat /\ MaxPosts \in Nat
    BY PeerFacts, SideFacts, Constants DEF WorkerInv
  <1>2. Len(posted[s]) + Len(posted[Peer(s)]) < MaxPosts
    BY DEF PostMessage
  <1>3. \A a, b, c \in Nat : a + b < c => a < c
    OBVIOUS
  <1>4. QED
    BY ONLY <1>1, <1>2, <1>3, Zenon

LEMMA PostStep ==
  ASSUME WorkerInv, NEW s \in Sides, NEW size \in Sizes, PostMessage(s, size)
  PROVE  WorkerInv'
  <1> DEFINE p == Peer(s)
             n == Len(posted[s])
             m == n + 1
             u == Units(m, size)
             q == out[s] \o u
             po == Append(posted[s], size)
             un == unacked[s] \cup {m}
  <1>1. /\ ThreadInv /\ EndTypes /\ MsgInv /\ EvalInv
        /\ Running /\ UNCHANGED threadVars /\ UNCHANGED <<handle, reading, jobs, received, fault>>
        /\ n < MaxPosts
        /\ posted' = [posted EXCEPT ![s] = po] /\ unacked' = [unacked EXCEPT ![s] = un]
    BY PostBound DEF WorkerInv, PostMessage
  <1>2. \/ out[s] = <<>> /\ Write(s, q) /\ broken' = broken
        \/ /\ out[s] = <<>> /\ WriteFails(s, q)
           /\ broken' = [broken EXCEPT ![s] = broken[s] \cup {m}]
        \/ /\ out' = [out EXCEPT ![s] = q] /\ pollout' = [pollout EXCEPT ![s] = TRUE]
           /\ UNCHANGED <<net, broken>>
    BY DEF PostMessage
  <1>3. /\ p \in Sides /\ p # s /\ Peer(p) = s
    BY PeerFacts
  <1>4. /\ out[s] \in Seq(Unit) /\ net[s] \in Seq(Unit) /\ posted[s] \in Seq(Sizes)
        /\ unacked[s] \subseteq 1..n /\ broken[s] \subseteq 1..n
        /\ Len(net[s]) <= Capacity /\ Len(net[p]) <= Capacity
        /\ Chan(received[p], jobs[p], net[s], out[s], n)
        /\ Chan(received[s], jobs[s], net[p], out[p], Len(posted[p]))
        /\ n \in 0..MaxPosts
    BY <1>1, <1>3, SideFacts
  <1>5. n \in Nat /\ m \in 1..MaxPosts
    BY <1>1, <1>4, Constants
  <1>6. po \in Seq(Sizes) /\ Len(po) = m
    BY <1>4
  <1>7. un \subseteq 1..Len(po) /\ broken[s] \subseteq 1..Len(po) /\ broken[s] \cup {m} \subseteq 1..Len(po)
    <2>1. \A i \in 1..n : i \in 1..m
      BY <1>5
    <2>2. m \in 1..m
      BY <1>5
    <2> HIDE DEF m, n, po
    <2>3. QED
      BY <1>4, <1>6, <2>1, <2>2
  <1>8. Chan(received[p], jobs[p], net[s], q, Len(po))
    BY <1>1, <1>4, <1>6, ChanPost
  <1>9. q # <<>> /\ q \in Seq(Unit)
    <2>1. u \in Seq(Unit) /\ u # <<>>
      BY <1>5, NewUnits DEF UnitsUpTo
    <2> HIDE DEF u
    <2>2. QED
      BY <1>4, <2>1
  <1> HIDE DEF p, n, m, u, q, po, un
  <1>10. ASSUME NEW br, br \subseteq 1..Len(po), broken' = [broken EXCEPT ![s] = br],
                NEW ot, NEW pl \in BOOLEAN, NEW x \in Seq(Unit),
                out' = [out EXCEPT ![s] = ot], pollout' = [pollout EXCEPT ![s] = pl],
                net' = [net EXCEPT ![s] = x], pl => ot # <<>>, Len(x) <= Capacity,
                Chan(received[p], jobs[p], x, ot, Len(po))
         PROVE  MsgInv'
    <2>1. net' \in [Sides -> Seq(Unit)] /\ net'[s] = x /\ net'[p] = net[p]
      BY <1>1, <1>3, <1>10 DEF MsgInv
    <2>2. jobs' = [jobs EXCEPT ![s] = jobs[s]] /\ received' = [received EXCEPT ![s] = received[s]]
      BY <1>1, Same DEF MsgInv
    <2>3. /\ Len(net'[s]) <= Capacity /\ Len(net'[p]) <= Capacity
          /\ Chan(received[p], jobs[p], net'[s], ot, Len(po))
          /\ Chan(received[s], jobs[s], net'[p], out[p], Len(posted[p]))
      BY <1>4, <1>10, <2>1
    <2>4. SideMoves(s, ot, pl, net', jobs[s], received[s], po, un, br)
      BY <1>1, <1>6, <1>7, <1>10, <2>1, <2>2, <2>3 DEF SideMoves, p
    <2>5. QED
      BY <1>1, <2>4, SideStep
  <1>11. ASSUME NEW br, br \subseteq 1..Len(po), broken' = [broken EXCEPT ![s] = br],
                Write(s, q) \/ WriteFails(s, q)
         PROVE  MsgInv'
    <2>1. PICK ot, pl, x :
             /\ pl \in BOOLEAN /\ x \in Seq(Unit)
             /\ out' = [out EXCEPT ![s] = ot] /\ pollout' = [pollout EXCEPT ![s] = pl]
             /\ net' = [net EXCEPT ![s] = x]
             /\ pl => ot # <<>>
             /\ Len(x) <= Capacity
             /\ Chan(received[p], jobs[p], x, ot, Len(po))
      BY <1>1, <1>8, <1>9, <1>11, Written DEF p
    <2>2. QED
      BY <1>10, <1>11, <2>1
  <1>12. MsgInv'
    <2>0. broken' = broken => broken' = [broken EXCEPT ![s] = broken[s]]
      BY <1>1, Same DEF MsgInv
    <2>1. CASE out[s] = <<>> /\ Write(s, q) /\ broken' = broken
      BY <1>7, <1>11, <2>0, <2>1
    <2>2. CASE /\ out[s] = <<>> /\ WriteFails(s, q)
               /\ broken' = [broken EXCEPT ![s] = broken[s] \cup {m}]
      BY <1>7, <1>11, <2>2
    <2>3. CASE /\ out' = [out EXCEPT ![s] = q] /\ pollout' = [pollout EXCEPT ![s] = TRUE]
               /\ UNCHANGED <<net, broken>>
      <3>1. net' = [net EXCEPT ![s] = net[s]]
        BY <1>1, <2>3, Same DEF MsgInv
      <3>2. QED
        BY <1>4, <1>7, <1>8, <1>9, <1>10, <2>0, <2>3, <3>1
    <2>4. QED
      BY <1>2, <2>1, <2>2, <2>3
  <1>13. EvalInv'
    BY <1>1 DEF EvalInv, threadVars
  <1>14. ThreadInv' /\ EndTypes' /\ FaultCause'
    BY <1>1, ThreadKeep, NoFault DEF EndTypes
  <1>15. QED
    BY <1>12, <1>13, <1>14 DEF WorkerInv

\* A request is written or fails, and the callbacks run.
LEMMA WriteStep ==
  ASSUME WorkerInv, Running, NEW s \in Sides, UNCHANGED threadVars, UNCHANGED <<posted, received, fault>>,
         EndTypes', out[s] # <<>>, Write(s, out[s]) \/ WriteFails(s, out[s]),
         NEW js \in Seq(Job), RisingJobs(js), Told(js) = Told(jobs[s]),
         KeepsEval(js, jobs[s]),
         NEW failing, IsFiniteSet(failing), WriteCb(s, failing, js)
  PROVE  WorkerInv'
  <1> DEFINE p == Peer(s)
  <1>1. ThreadInv /\ MsgInv /\ EvalInv
    BY DEF WorkerInv
  <1>2. p \in Sides /\ p # s /\ Peer(p) = s
    BY PeerFacts
  <1>3. /\ posted[s] \in Seq(Sizes) /\ unacked[s] \subseteq 1..Len(posted[s])
        /\ Len(net[s]) <= Capacity /\ Len(net[p]) <= Capacity
        /\ Chan(received[p], jobs[p], net[s], out[s], Len(posted[s]))
        /\ Chan(received[s], jobs[s], net[p], out[p], Len(posted[p]))
    BY <1>1, <1>2, SideFacts
  <1>4. PICK ot, pl, x :
          /\ pl \in BOOLEAN /\ x \in Seq(Unit)
          /\ out' = [out EXCEPT ![s] = ot] /\ pollout' = [pollout EXCEPT ![s] = pl]
          /\ net' = [net EXCEPT ![s] = x]
          /\ pl => ot # <<>>
          /\ Len(x) <= Capacity
          /\ Chan(received[p], jobs[p], x, ot, Len(posted[s]))
    BY <1>1, <1>3, Written
  <1>5. PICK ks, un :
          /\ jobs' = [jobs EXCEPT ![s] = ks] /\ unacked' = [unacked EXCEPT ![s] = un]
          /\ broken' = [broken EXCEPT ![s] = {}]
          /\ un \subseteq unacked[s]
          /\ ks \in Seq(Job) /\ RisingJobs(ks) /\ Told(ks) = Told(js)
          /\ KeepsEval(ks, js)
    BY <1>1, Acknowledged, Zenon
  <1>6. Chan(received[s], ks, net[p], out[p], Len(posted[p]))
    BY <1>3, <1>5, ChanJobs
  <1> HIDE DEF p
  <1>7. net' \in [Sides -> Seq(Unit)] /\ net'[s] = x /\ net'[p] = net[p]
    BY <1>1, <1>2, <1>4 DEF MsgInv
  <1>8. posted' = [posted EXCEPT ![s] = posted[s]] /\ received' = [received EXCEPT ![s] = received[s]]
    BY <1>1, Same DEF MsgInv
  <1>9. MsgInv'
    <2>1. /\ Len(net'[s]) <= Capacity /\ Len(net'[p]) <= Capacity
          /\ Chan(received[p], jobs[p], net'[s], ot, Len(posted[s]))
          /\ Chan(received[s], ks, net'[p], out[p], Len(posted[p]))
          /\ un \subseteq 1..Len(posted[s]) /\ {} \subseteq 1..Len(posted[s])
      BY <1>3, <1>4, <1>5, <1>6, <1>7
    <2>2. SideMoves(s, ot, pl, net', ks, received[s], posted[s], un, {})
      BY <1>3, <1>4, <1>5, <1>7, <1>8, <2>1 DEF SideMoves, p
    <2>3. QED
      BY <1>1, <2>2, SideStep
  <1>10. EvalInv'
    <2>1. KeepsEval(ks, jobs[s])
      BY <1>5 DEF KeepsEval
    <2>2. failed' = failed
      BY DEF threadVars
    <2>3. QED
      BY <1>1, <1>5, <2>1, <2>2, EvalKeep
  <1>11. ThreadInv' /\ FaultCause'
    BY <1>1, ThreadKeep, NoFault
  <1>12. QED
    BY <1>9, <1>10, <1>11 DEF WorkerInv

LEMMA WritableStep ==
  ASSUME WorkerInv, NEW s \in Sides, Writable(s)
  PROVE  WorkerInv'
  <1>1. /\ Running /\ UNCHANGED threadVars /\ UNCHANGED <<handle, reading, posted, received, fault>>
        /\ pollout[s]
    BY DEF Writable
  <1>2. MsgInv /\ EndTypes /\ EndTypes'
    BY <1>1 DEF WorkerInv, EndTypes
  <1>3. out[s] # <<>> /\ jobs[s] \in Seq(Job) /\ RisingJobs(jobs[s])
    BY <1>1, <1>2, SideFacts
  <1>4. PICK failing : /\ IsFiniteSet(failing) /\ WriteCb(s, failing, jobs[s])
                       /\ Write(s, out[s]) \/ WriteFails(s, out[s])
    BY FS_EmptySet, FS_Singleton DEF Writable
  <1>5. KeepsEval(jobs[s], jobs[s])
    BY DEF KeepsEval
  <1>6. QED
    BY <1>1, <1>2, <1>3, <1>4, <1>5, WriteStep

LEMMA ReadEndStep ==
  ASSUME WorkerInv, NEW s \in Sides, ReadEnd(s)
  PROVE  WorkerInv'
  <1> DEFINE js == IF net[s] = <<>> THEN jobs[s] ELSE Append(jobs[s], ErrorJob)
             p == Peer(s)
  <1>1. /\ Running /\ UNCHANGED threadVars /\ UNCHANGED <<handle, posted, received, fault>>
        /\ reading' = [reading EXCEPT ![s] = FALSE]
        /\ \/ /\ out[s] # <<>> /\ WriteFails(s, out[s]) /\ WriteCb(s, {out[s][1].msg}, js)
           \/ jobs' = [jobs EXCEPT ![s] = js] /\ UNCHANGED <<out, pollout, net, unacked, broken>>
    BY DEF ReadEnd
  <1>2. ThreadInv /\ MsgInv /\ EvalInv /\ EndTypes /\ EndTypes'
    BY <1>1 DEF WorkerInv, EndTypes
  <1>3. /\ js \in Seq(Job) /\ RisingJobs(js) /\ Told(js) = Told(jobs[s])
        /\ KeepsEval(js, jobs[s])
    <2>1. jobs[s] \in Seq(Job) /\ RisingJobs(jobs[s])
      BY <1>2, SideFacts
    <2>2. CASE net[s] = <<>>
      BY <2>1, <2>2 DEF KeepsEval
    <2>3. CASE net[s] # <<>>
      <3> DEFINE a == Append(jobs[s], ErrorJob)
      <3>1. a \in Seq(Job) /\ RisingJobs(a) /\ Told(a) = Told(jobs[s])
        BY <2>1, JobFacts, AppendJob
      <3>2. \A i \in DOMAIN a : a[i] = ErrorJob \/ (i \in DOMAIN jobs[s] /\ a[i] = jobs[s][i])
        <4> DEFINE k == jobs[s]
        <4>0. k \in Seq(Job)
          BY <2>1
        <4> HIDE DEF k
        <4>1. \A i \in DOMAIN Append(k, ErrorJob) :
                Append(k, ErrorJob)[i] = ErrorJob \/ (i \in DOMAIN k /\ Append(k, ErrorJob)[i] = k[i])
          BY <4>0
        <4>2. QED
          BY <4>1 DEF k
      <3> HIDE DEF a
      <3>3. js = a
        BY <2>3 DEF a
      <3>4. ErrorJob # Eval
        BY JobFacts
      <3>5. QED
        BY <3>1, <3>2, <3>3, <3>4 DEF KeepsEval
    <2>4. QED
      BY <2>2, <2>3
  <1> HIDE DEF js
  <1>4. CASE out[s] # <<>> /\ WriteFails(s, out[s]) /\ WriteCb(s, {out[s][1].msg}, js)
    <2>1. IsFiniteSet({out[s][1].msg})
      BY FS_Singleton
    <2>2. QED
      BY <1>1, <1>2, <1>3, <1>4, <2>1, WriteStep
  <1>5. CASE jobs' = [jobs EXCEPT ![s] = js] /\ UNCHANGED <<out, pollout, net, unacked, broken>>
    <2>1. p \in Sides /\ p # s /\ Peer(p) = s
      BY PeerFacts
    <2>2. /\ posted[s] \in Seq(Sizes) /\ unacked[s] \subseteq 1..Len(posted[s])
          /\ broken[s] \subseteq 1..Len(posted[s])
          /\ pollout[s] \in BOOLEAN /\ (pollout[s] => out[s] # <<>>)
          /\ Len(net[s]) <= Capacity /\ Len(net[p]) <= Capacity
          /\ Chan(received[p], jobs[p], net[s], out[s], Len(posted[s]))
          /\ Chan(received[s], jobs[s], net[p], out[p], Len(posted[p]))
      BY <1>2, <2>1, SideFacts
    <2>3. Chan(received[s], js, net[p], out[p], Len(posted[p]))
      BY <1>3, <2>2, ChanJobs
    <2>4. /\ out' = [out EXCEPT ![s] = out[s]] /\ pollout' = [pollout EXCEPT ![s] = pollout[s]]
          /\ received' = [received EXCEPT ![s] = received[s]]
          /\ posted' = [posted EXCEPT ![s] = posted[s]]
          /\ unacked' = [unacked EXCEPT ![s] = unacked[s]]
          /\ broken' = [broken EXCEPT ![s] = broken[s]]
          /\ net \in [Sides -> Seq(Unit)]
      BY <1>1, <1>2, <1>5, Same DEF MsgInv
    <2>5. SideMoves(s, out[s], pollout[s], net, js, received[s], posted[s], unacked[s], broken[s])
      BY <1>5, <2>2, <2>3, <2>4 DEF SideMoves
    <2>6. MsgInv' /\ EvalInv'
      BY <1>1, <1>2, <1>3, <1>5, <2>5, SideStep, EvalKeep DEF threadVars
    <2>7. ThreadInv' /\ FaultCause'
      BY <1>1, <1>2, ThreadKeep, NoFault
    <2>8. QED
      BY <1>2, <2>6, <2>7 DEF WorkerInv
  <1>6. QED
    BY <1>1, <1>4, <1>5

LEMMA ReadStep ==
  ASSUME WorkerInv, NEW s \in Sides, ReadMessage(s)
  PROVE  WorkerInv'
  <1> DEFINE p == Peer(s)
             k == Min2(Len(net[p]), Chunk)
             j == MessageJob(Decode(SubSeq(net[p], 1, k)))
             js == Append(jobs[s], j)
             x == SubSeq(net[p], k + 1, Len(net[p]))
  <1>1. /\ Running /\ UNCHANGED threadVars
        /\ UNCHANGED <<handle, reading, out, pollout, unacked, broken, posted, received, fault>>
        /\ net[p] # <<>>
        /\ jobs' = [jobs EXCEPT ![s] = js] /\ net' = [net EXCEPT ![p] = x]
    BY DEF ReadMessage
  <1>2. ThreadInv /\ MsgInv /\ EvalInv /\ EndTypes /\ EndTypes'
    BY <1>1 DEF WorkerInv, EndTypes
  <1>3. p \in Sides /\ p # s /\ Peer(p) = s
    BY PeerFacts
  <1>4. /\ posted[s] \in Seq(Sizes) /\ unacked[s] \subseteq 1..Len(posted[s])
        /\ broken[s] \subseteq 1..Len(posted[s]) /\ jobs[s] \in Seq(Job)
        /\ pollout[s] \in BOOLEAN /\ (pollout[s] => out[s] # <<>>)
        /\ Len(net[s]) <= Capacity /\ Len(net[p]) <= Capacity /\ net[p] \in Seq(Unit)
        /\ Chan(received[p], jobs[p], net[s], out[s], Len(posted[s]))
        /\ Chan(received[s], jobs[s], net[p], out[p], Len(posted[p]))
    BY <1>2, <1>3, SideFacts
  <1>5. k \in 1..Len(net[p]) /\ k \in 0..Len(net[p]) /\ k \in Nat /\ Len(net[p]) \in Nat
    <2>1. Len(net[p]) \in Nat /\ Len(net[p]) >= 1
      BY <1>1, <1>4
    <2>2. QED
      BY <2>1, Constants DEF Min2
  <1> HIDE DEF k
  <1>6. Chan(received[s], js, x, out[p], Len(posted[p]))
    BY <1>4, <1>5, ChanRead
  <1>7. x \in Seq(Unit) /\ Len(x) = Len(net[p]) - k
    BY <1>4, <1>5, Split
  <1>8. Len(x) <= Capacity
    <2> HIDE DEF x
    <2>1. QED
      BY <1>4, <1>5, <1>7, Constants
  <1>9. KeepsEval(js, jobs[s])
    <2>1. j # Eval
      BY JobFacts
    <2> DEFINE o == jobs[s]
    <2>3. o \in Seq(Job) /\ js = Append(o, j)
      BY <1>4
    <2> HIDE DEF o, j, js
    <2>4. \A i \in DOMAIN Append(o, j) : Append(o, j)[i] = j \/ (i \in DOMAIN o /\ Append(o, j)[i] = o[i])
      BY <2>3
    <2>5. QED
      BY <2>1, <2>3, <2>4 DEF o, KeepsEval
  <1> HIDE DEF p, x, js, j
  <1>10. net' \in [Sides -> Seq(Unit)] /\ net'[p] = x /\ net'[s] = net[s]
    BY <1>1, <1>2, <1>3, <1>7 DEF MsgInv
  <1>11. /\ out' = [out EXCEPT ![s] = out[s]] /\ pollout' = [pollout EXCEPT ![s] = pollout[s]]
         /\ received' = [received EXCEPT ![s] = received[s]]
         /\ posted' = [posted EXCEPT ![s] = posted[s]]
         /\ unacked' = [unacked EXCEPT ![s] = unacked[s]]
         /\ broken' = [broken EXCEPT ![s] = broken[s]]
    BY <1>1, <1>2, Same DEF MsgInv
  <1>12. MsgInv'
    <2>1. /\ Len(net'[s]) <= Capacity /\ Len(net'[p]) <= Capacity
          /\ Chan(received[p], jobs[p], net'[s], out[s], Len(posted[s]))
          /\ Chan(received[s], js, net'[p], out[p], Len(posted[p]))
      BY <1>4, <1>6, <1>8, <1>10
    <2>2. SideMoves(s, out[s], pollout[s], net', js, received[s], posted[s], unacked[s], broken[s])
      BY <1>1, <1>4, <1>10, <1>11, <2>1 DEF SideMoves, p
    <2>3. QED
      BY <1>2, <2>2, SideStep
  <1>13. EvalInv'
    BY <1>1, <1>2, <1>9, EvalKeep DEF threadVars
  <1>14. ThreadInv' /\ FaultCause'
    BY <1>1, <1>2, ThreadKeep, NoFault
  <1>15. QED
    BY <1>2, <1>12, <1>13, <1>14 DEF WorkerInv

LEMMA EmitStep ==
  ASSUME WorkerInv, NEW s \in Sides, EmitEvent(s)
  PROVE  WorkerInv'
  <1> DEFINE p == Peer(s)
             js == Tail(jobs[s])
             rec == IF Head(jobs[s]).kind = "message"
                    THEN Append(received[s], Head(jobs[s]).msg) ELSE received[s]
  <1>1. /\ Running /\ UNCHANGED threadVars
        /\ UNCHANGED <<handle, reading, out, pollout, net, unacked, broken, posted, fault>>
        /\ jobs[s] # <<>>
        /\ jobs' = [jobs EXCEPT ![s] = js]
    BY DEF EmitEvent, chanVars
  <1>2. ThreadInv /\ MsgInv /\ EvalInv /\ EndTypes /\ EndTypes'
    BY <1>1 DEF WorkerInv, EndTypes
  <1>3. received' = [received EXCEPT ![s] = rec]
    <2>1. received = [received EXCEPT ![s] = received[s]]
      BY <1>2, Same DEF MsgInv
    <2>2. QED
      BY <2>1 DEF EmitEvent
  <1>4. p \in Sides /\ p # s /\ Peer(p) = s
    BY PeerFacts
  <1>5. /\ posted[s] \in Seq(Sizes) /\ unacked[s] \subseteq 1..Len(posted[s])
        /\ broken[s] \subseteq 1..Len(posted[s]) /\ jobs[s] \in Seq(Job)
        /\ pollout[s] \in BOOLEAN /\ (pollout[s] => out[s] # <<>>)
        /\ Len(net[s]) <= Capacity /\ Len(net[p]) <= Capacity
        /\ Chan(received[p], jobs[p], net[s], out[s], Len(posted[s]))
        /\ Chan(received[s], jobs[s], net[p], out[p], Len(posted[p]))
    BY <1>2, <1>4, SideFacts
  <1>6. Chan(rec, js, net[p], out[p], Len(posted[p]))
    BY <1>1, <1>5, ChanEmit
  <1>7. KeepsEval(js, jobs[s])
    <2>1. \A i \in DOMAIN js : i + 1 \in DOMAIN jobs[s] /\ js[i] = jobs[s][i + 1] /\ i + 1 # 1
      BY <1>1, <1>5
    <2> HIDE DEF js
    <2>2. QED
      BY <1>2, <2>1 DEF KeepsEval, EvalInv
  <1> HIDE DEF p, js, rec
  <1>8. /\ out' = [out EXCEPT ![s] = out[s]] /\ pollout' = [pollout EXCEPT ![s] = pollout[s]]
        /\ posted' = [posted EXCEPT ![s] = posted[s]]
        /\ unacked' = [unacked EXCEPT ![s] = unacked[s]]
        /\ broken' = [broken EXCEPT ![s] = broken[s]]
        /\ net' = net /\ net \in [Sides -> Seq(Unit)]
    BY <1>1, <1>2, Same DEF MsgInv
  <1>9. SideMoves(s, out[s], pollout[s], net, js, rec, posted[s], unacked[s], broken[s])
    BY <1>1, <1>3, <1>5, <1>6, <1>8 DEF SideMoves, p
  <1>10. MsgInv' /\ EvalInv'
    BY <1>1, <1>2, <1>7, <1>9, SideStep, EvalKeep DEF threadVars
  <1>11. ThreadInv' /\ FaultCause'
    BY <1>1, <1>2, ThreadKeep, NoFault
  <1>12. QED
    BY <1>2, <1>10, <1>11 DEF WorkerInv

LEMMA FinalizeStep ==
  ASSUME WorkerInv, Finalize
  PROVE  WorkerInv'
  <1>1. /\ Running /\ UNCHANGED threadVars /\ UNCHANGED <<net, jobs, posted, received>>
        /\ ~held
        /\ handle' = [handle EXCEPT !["main"] = "closed"]
        /\ reading' = [reading EXCEPT !["main"] = FALSE]
        /\ unacked' = [unacked EXCEPT !["main"] = {}]
        /\ broken' = [broken EXCEPT !["main"] = {}]
        /\ out' = [out EXCEPT !["main"] = <<>>]
        /\ pollout' = [pollout EXCEPT !["main"] = FALSE]
        /\ fault' = IF out["main"] # <<>> \/ broken["main"] # {} THEN "freedHandler" ELSE fault
    BY DEF Finalize, msgVars
  <1>2. ThreadInv /\ MsgInv /\ EvalInv /\ EndTypes /\ EndTypes'
    BY <1>1 DEF WorkerInv, EndTypes
  <1>3. "main" \in Sides /\ "worker" \in Sides /\ Peer("main") = "worker" /\ Peer("worker") = "main"
    BY DEF Sides, Peer
  <1>4. /\ posted["main"] \in Seq(Sizes) /\ posted["worker"] \in Seq(Sizes)
        /\ Len(net["main"]) <= Capacity /\ Len(net["worker"]) <= Capacity
        /\ broken["main"] \subseteq 1..Len(posted["main"])
        /\ Chan(received["worker"], jobs["worker"], net["main"], out["main"], Len(posted["main"]))
        /\ Chan(received["main"], jobs["main"], net["worker"], out["worker"], Len(posted["worker"]))
    <2>1. /\ posted["main"] \in Seq(Sizes) /\ Len(net["main"]) <= Capacity
          /\ broken["main"] \subseteq 1..Len(posted["main"])
          /\ Chan(received["worker"], jobs["worker"], net["main"], out["main"], Len(posted["main"]))
      BY <1>2, <1>3, SideFacts
    <2>2. /\ Len(net["worker"]) <= Capacity /\ posted["worker"] \in Seq(Sizes)
          /\ Chan(received["main"], jobs["main"], net["worker"], out["worker"], Len(posted["worker"]))
      BY <1>2, <1>3, SideFacts
    <2>3. QED
      BY <2>1, <2>2
  <1>5. Chan(received["worker"], jobs["worker"], net["main"], <<>>, Len(posted["main"]))
    BY <1>4, ChanCancel
  <1>6. /\ posted' = [posted EXCEPT !["main"] = posted["main"]]
        /\ received' = [received EXCEPT !["main"] = received["main"]]
        /\ jobs' = [jobs EXCEPT !["main"] = jobs["main"]]
        /\ net' = net /\ net \in [Sides -> Seq(Unit)]
    BY <1>1, <1>2, <1>3, Same DEF MsgInv
  <1>7. SideMoves("main", <<>>, FALSE, net, jobs["main"], received["main"], posted["main"], {}, {})
    BY <1>1, <1>3, <1>4, <1>5, <1>6 DEF SideMoves
  <1>8. MsgInv'
    BY <1>2, <1>3, <1>7, SideStep
  <1>9. EvalInv'
    BY <1>1, <1>2 DEF EvalInv, threadVars
  <1>10. FaultCause'
    <2>1. out["main"] # <<>> \/ broken["main"] # {} => posted["main"] # <<>>
      <3>1. out["main"] # <<>> => 1..Len(posted["main"]) # {}
        BY <1>4, FirstRequest
      <3>2. 1..Len(posted["main"]) # {} => posted["main"] # <<>>
        BY <1>4
      <3>3. QED
        BY <1>4, <3>1, <3>2
    <2>2. posted["main"] # <<>> => posted["main"] \o posted["worker"] # <<>>
      BY <1>4
    <2>3. held' = held /\ posted' = posted
      BY <1>1 DEF threadVars
    <2>4. QED
      BY <1>1, <2>1, <2>2, <2>3 DEF FaultCause, Running
  <1>11. QED
    BY <1>1, <1>2, <1>8, <1>9, <1>10, ThreadKeep DEF WorkerInv

LEMMA FinalizeInReadStep ==
  ASSUME WorkerInv, FinalizeInRead
  PROVE  WorkerInv'
  <1>1. /\ ~held /\ net["worker"] # <<>> /\ fault' = "freedHandler"
        /\ UNCHANGED threadVars /\ UNCHANGED <<handle, reading, out, pollout, net, unacked, broken>>
        /\ UNCHANGED <<jobs, posted, received>>
    BY DEF FinalizeInRead, chanVars, msgVars
  <1>2. ThreadInv /\ MsgInv /\ EvalInv /\ EndTypes /\ EndTypes'
    BY <1>1 DEF WorkerInv, EndTypes
  <1>3. MsgInv'
    BY <1>1, <1>2 DEF MsgInv, SideInv
  <1>4. EvalInv'
    BY <1>1, <1>2 DEF EvalInv, threadVars
  <1>5. FaultCause'
    <2>1. "main" \in Sides /\ "worker" \in Sides
      BY DEF Sides
    <2>2. posted["main"] \in Seq(Sizes) /\ posted["worker"] \in Seq(Sizes)
      BY <1>2, <2>1, SideFacts
    <2>3. /\ net["worker"] \in Seq(Unit) /\ Len(posted["worker"]) \in Nat
          /\ \A i \in DOMAIN net["worker"] : net["worker"][i].msg <= Len(posted["worker"])
      BY <1>2, <2>1, SideFacts DEF Chan, UnitsUpTo
    <2>4. 1 \in DOMAIN net["worker"] /\ net["worker"][1] \in Unit
      BY <1>1, <2>3
    <2>5. net["worker"][1].msg \in Nat /\ net["worker"][1].msg # 0
      BY <2>4, UnitFields DEF Leftover
    <2>6. Len(posted["worker"]) > 0
      BY <2>3, <2>4, <2>5
    <2>7. posted["main"] \o posted["worker"] # <<>>
      BY <2>2, <2>6
    <2>8. held' = held /\ posted' = posted
      BY <1>1 DEF threadVars
    <2>9. QED
      BY <1>1, <2>7, <2>8 DEF FaultCause
  <1>6. QED
    BY <1>1, <1>2, <1>3, <1>4, <1>5, ThreadKeep DEF WorkerInv

-----------------------------------------------------------------------------
(***************************************************************************)
(* The threads                                                             *)
(***************************************************************************)

LEMMA MsgKeep ==
  ASSUME MsgInv, EvalInv, UNCHANGED <<out, net, pollout, unacked, broken, jobs, posted, received>>
  PROVE  /\ MsgInv'
         /\ failed' = failed => EvalInv'
  <1>1. MsgInv'
    BY DEF MsgInv, SideInv
  <1>2. failed' = failed => EvalInv'
    BY DEF EvalInv
  <1>3. QED
    BY <1>1, <1>2

\* A step of a thread that leaves the messages and the script's outcome alone
LEMMA ThreadStep ==
  ASSUME WorkerInv, UNCHANGED <<out, net, pollout, unacked, broken, jobs, posted, received, failed>>,
         ThreadInv', EndTypes', FaultCause'
  PROVE  WorkerInv'
  BY MsgKeep DEF WorkerInv

\* The constructor, until it waits
LEMMA ConstructStep ==
  ASSUME WorkerInv, Construct
  PROVE  WorkerInv'
  <1>1. /\ Running /\ pc["main"] = "check" /\ pc["worker"] = "none"
        /\ pc' = [main |-> "construct", worker |-> "boot"]
        /\ handle' = [handle EXCEPT !["main"] = "open"]
        /\ reading' = [reading EXCEPT !["main"] = TRUE]
        /\ held' = TRUE
        /\ UNCHANGED <<sem, wdWrt, ptr, rt, stopSent, stopFlag, failed, fault>>
        /\ UNCHANGED <<out, pollout, net, unacked, broken, jobs, posted, received>>
    BY DEF Construct, msgVars
  <1>2. ThreadInv /\ EndTypes
    BY DEF WorkerInv
  <1>3. pc'["main"] = "construct" /\ pc'["worker"] = "boot" /\ pc' \in [Sides -> PcValues]
    BY <1>1 DEF Sides, PcValues
  <1>4. ThreadInv'
    BY <1>1, <1>2, <1>3 DEF ThreadInv, ThreadTypes, StartInv, StopInv, NotStarted
  <1>5. EndTypes'
    BY <1>1, <1>2 DEF EndTypes
  <1>6. QED
    BY <1>1, <1>4, <1>5, NoFault, ThreadStep

\* The thread tells the constructor that it runs.
LEMMA WorkerPostStep ==
  ASSUME WorkerInv, WorkerPost
  PROVE  WorkerInv'
  <1>1. /\ Running /\ pc["worker"] = "booted"
        /\ wdWrt' = TRUE /\ sem' = 1 /\ pc' = [pc EXCEPT !["worker"] = "poll"]
        /\ UNCHANGED <<ptr, rt, stopSent, stopFlag, held, failed>>
        /\ UNCHANGED <<handle, reading, fault>>
        /\ UNCHANGED <<out, pollout, net, unacked, broken, jobs, posted, received>>
    BY DEF WorkerPost, chanVars, msgVars
  <1>2. ThreadInv /\ EndTypes
    BY DEF WorkerInv
  <1>3. ThreadInv'
    BY <1>1, <1>2 DEF ThreadInv, ThreadTypes, StartInv, StopInv, NotStarted, Sides, PcValues
  <1>4. EndTypes'
    BY <1>1, <1>2 DEF EndTypes
  <1>5. QED
    BY <1>1, <1>3, <1>4, NoFault, ThreadStep

\* The rest of the constructor
LEMMA ConstructedStep ==
  ASSUME WorkerInv, Constructed
  PROVE  WorkerInv'
  <1>1. /\ Running /\ pc["main"] = "construct" /\ sem = 1
        /\ sem' = 0 /\ ptr' = wdWrt /\ pc' = [pc EXCEPT !["main"] = "check"]
        /\ UNCHANGED <<wdWrt, rt, stopSent, stopFlag, held, failed>>
        /\ UNCHANGED <<handle, reading, fault>>
        /\ UNCHANGED <<out, pollout, net, unacked, broken, jobs, posted, received>>
    BY DEF Constructed, chanVars, msgVars
  <1>2. ThreadInv /\ EndTypes
    BY DEF WorkerInv
  <1>3. ThreadInv'
    BY <1>1, <1>2 DEF ThreadInv, ThreadTypes, StartInv, StopInv, NotStarted, Sides, PcValues
  <1>4. EndTypes'
    BY <1>1, <1>2 DEF EndTypes
  <1>5. QED
    BY <1>1, <1>3, <1>4, NoFault, ThreadStep

\* uvStop
LEMMA StopCbStep ==
  ASSUME WorkerInv, StopCb
  PROVE  WorkerInv'
  <1>1. /\ Running /\ pc["worker"] = "poll" /\ stopSent
        /\ stopSent' = FALSE /\ stopFlag' = TRUE
        /\ UNCHANGED <<pc, sem, wdWrt, ptr, rt, held, failed>>
        /\ UNCHANGED <<handle, reading, fault>>
        /\ UNCHANGED <<out, pollout, net, unacked, broken, jobs, posted, received>>
    BY DEF StopCb, chanVars, msgVars
  <1>2. ThreadInv /\ EndTypes
    BY DEF WorkerInv
  <1>3. ThreadInv'
    BY <1>1, <1>2 DEF ThreadInv, ThreadTypes, StartInv, StopInv, NotStarted, Sides, PcValues
  <1>4. EndTypes'
    BY <1>1, <1>2 DEF EndTypes
  <1>5. QED
    BY <1>1, <1>3, <1>4, NoFault, ThreadStep

\* terminate() returns.
LEMMA JoinedStep ==
  ASSUME WorkerInv, Joined
  PROVE  WorkerInv'
  <1>1. /\ Running /\ pc["main"] = "join" /\ pc["worker"] = "ended"
        /\ ptr' = FALSE /\ pc' = [pc EXCEPT !["main"] = "check"]
        /\ UNCHANGED <<sem, wdWrt, rt, stopSent, stopFlag, held, failed>>
        /\ UNCHANGED <<handle, reading, fault>>
        /\ UNCHANGED <<out, pollout, net, unacked, broken, jobs, posted, received>>
    BY DEF Joined, chanVars, msgVars
  <1>2. ThreadInv /\ EndTypes
    BY DEF WorkerInv
  <1>3. ThreadInv'
    BY <1>1, <1>2 DEF ThreadInv, ThreadTypes, StartInv, StopInv, NotStarted, Sides, PcValues
  <1>4. EndTypes'
    BY <1>1, <1>2 DEF EndTypes
  <1>5. QED
    BY <1>1, <1>3, <1>4, NoFault, ThreadStep

\* The main loop ends.
LEMMA ExitStep ==
  ASSUME WorkerInv, Exit
  PROVE  WorkerInv'
  <1>1. /\ Running /\ pc["main"] = "poll"
        /\ pc' = [pc EXCEPT !["main"] = "exited"]
        /\ UNCHANGED <<sem, wdWrt, ptr, rt, stopSent, stopFlag, held, failed>>
        /\ UNCHANGED <<handle, reading, fault>>
        /\ UNCHANGED <<out, pollout, net, unacked, broken, jobs, posted, received>>
    BY DEF Exit, chanVars, msgVars
  <1>2. ThreadInv /\ EndTypes
    BY DEF WorkerInv
  <1>3. ThreadInv'
    BY <1>1, <1>2 DEF ThreadInv, ThreadTypes, StartInv, StopInv, NotStarted, Sides, PcValues
  <1>4. EndTypes'
    BY <1>1, <1>2 DEF EndTypes
  <1>5. QED
    BY <1>1, <1>3, <1>4, NoFault, ThreadStep

\* The program lets the Worker go.
LEMMA DropStep ==
  ASSUME WorkerInv, Drop
  PROVE  WorkerInv'
  <1>1. /\ Running /\ pc["main"] = "check"
        /\ held' = FALSE
        /\ UNCHANGED <<pc, sem, wdWrt, ptr, rt, stopSent, stopFlag, failed>>
        /\ UNCHANGED <<handle, reading, fault>>
        /\ UNCHANGED <<out, pollout, net, unacked, broken, jobs, posted, received>>
    BY DEF Drop, chanVars, msgVars, InProgram
  <1>2. ThreadInv /\ EndTypes
    BY DEF WorkerInv
  <1>3. ThreadInv'
    BY <1>1, <1>2 DEF ThreadInv, ThreadTypes, StartInv, StopInv, NotStarted, Sides, PcValues
  <1>4. EndTypes'
    BY <1>1, <1>2 DEF EndTypes
  <1>5. QED
    BY <1>1, <1>3, <1>4, NoFault, ThreadStep

\* The poll of a loop ends.
LEMMA PollStep ==
  ASSUME WorkerInv, NEW s \in Sides, Poll(s)
  PROVE  WorkerInv'
  <1>1. /\ Running /\ pc[s] = "poll"
        /\ pc' = [pc EXCEPT ![s] = "check"]
        /\ UNCHANGED <<sem, wdWrt, ptr, rt, stopSent, stopFlag, held, failed>>
        /\ UNCHANGED <<handle, reading, fault>>
        /\ UNCHANGED <<out, pollout, net, unacked, broken, jobs, posted, received>>
    BY DEF Poll, chanVars, msgVars
  <1>2. ThreadInv /\ EndTypes
    BY DEF WorkerInv
  <1>3. ThreadInv'
    <2>1. CASE s = "main"
      BY <1>1, <1>2, <2>1 DEF ThreadInv, ThreadTypes, StartInv, StopInv, NotStarted, Sides, PcValues
    <2>2. CASE s = "worker"
      BY <1>1, <1>2, <2>2 DEF ThreadInv, ThreadTypes, StartInv, StopInv, NotStarted, Sides, PcValues
    <2>3. QED
      BY <2>1, <2>2 DEF Sides
  <1>4. EndTypes'
    BY <1>1, <1>2 DEF EndTypes
  <1>5. QED
    BY <1>1, <1>3, <1>4, NoFault, ThreadStep

\* The worker leaves its loop and closes its end.
LEMMA LeaveLoopStep ==
  ASSUME WorkerInv, LeaveLoop
  PROVE  WorkerInv'
  <1>1. /\ Running /\ pc["worker"] = "check" /\ stopFlag
        /\ pc' = [pc EXCEPT !["worker"] = "free"] /\ rt' = "closing"
        /\ handle' = [handle EXCEPT !["worker"] = "closed"]
        /\ reading' = [reading EXCEPT !["worker"] = FALSE]
        /\ UNCHANGED <<sem, wdWrt, ptr, stopSent, stopFlag, held, failed, fault>>
        /\ UNCHANGED <<out, pollout, net, unacked, broken, jobs, posted, received>>
    BY DEF LeaveLoop, msgVars
  <1>2. ThreadInv /\ EndTypes
    BY DEF WorkerInv
  <1>3. ThreadInv'
    BY <1>1, <1>2 DEF ThreadInv, ThreadTypes, StartInv, StopInv, NotStarted, Sides, PcValues
  <1>4. EndTypes'
    BY <1>1, <1>2 DEF EndTypes
  <1>5. QED
    BY <1>1, <1>3, <1>4, NoFault, ThreadStep

\* ijFreeRuntime: a callback that runs late is the one of a message it posted.
LEMMA FreeRuntimeStep ==
  ASSUME WorkerInv, FreeRuntime
  PROVE  WorkerInv'
  <1>1. /\ Running /\ pc["worker"] = "free"
        /\ \/ unacked["worker"] # {} /\ fault' = "lateWrite" /\ UNCHANGED <<pc, rt>>
           \/ pc' = [pc EXCEPT !["worker"] = "ended"] /\ rt' = "freed" /\ fault' = fault
        /\ UNCHANGED <<sem, wdWrt, ptr, stopSent, stopFlag, held, failed, handle, reading>>
        /\ UNCHANGED <<out, pollout, net, unacked, broken, jobs, posted, received>>
    BY DEF FreeRuntime, chanVars, msgVars
  <1>2. ThreadInv /\ EndTypes /\ MsgInv
    BY DEF WorkerInv
  <1>3. ThreadInv'
    BY <1>1, <1>2 DEF ThreadInv, ThreadTypes, StartInv, StopInv, NotStarted, Sides, PcValues
  <1>4. EndTypes'
    BY <1>1, <1>2 DEF EndTypes
  <1>5. FaultCause'
    <2>1. /\ posted["worker"] \in Seq(Sizes)
          /\ unacked["worker"] \subseteq 1..Len(posted["worker"])
      BY <1>2, SideFacts DEF Sides
    <2>2. unacked["worker"] # {} => posted["worker"] # <<>>
      BY <2>1
    <2>3. QED
      BY <1>1, <2>2 DEF FaultCause, Running
  <1>6. QED
    BY <1>1, <1>3, <1>4, <1>5, ThreadStep

\* terminate(): a runtime that is gone went by itself.
LEMMA TerminateStep ==
  ASSUME WorkerInv, Terminate
  PROVE  WorkerInv'
  <1>1. /\ Running /\ pc["main"] = "check" /\ ptr
        /\ \/ /\ rt = "live" /\ stopSent' = TRUE
              /\ pc' = [pc EXCEPT !["main"] = "join"] /\ fault' = fault
           \/ rt # "live" /\ fault' = "staleStop" /\ UNCHANGED <<stopSent, pc>>
        /\ UNCHANGED <<sem, wdWrt, ptr, rt, stopFlag, held, failed, handle, reading>>
        /\ UNCHANGED <<out, pollout, net, unacked, broken, jobs, posted, received>>
    BY DEF Terminate, chanVars, msgVars, InProgram
  <1>2. ThreadInv /\ EndTypes
    BY DEF WorkerInv
  <1>3. ThreadInv'
    BY <1>1, <1>2 DEF ThreadInv, ThreadTypes, StartInv, StopInv, NotStarted, Sides, PcValues
  <1>4. EndTypes'
    BY <1>1, <1>2 DEF EndTypes
  <1>5. FaultCause'
    <2>1. rt # "live" => failed
      BY <1>1, <1>2 DEF ThreadInv, ThreadTypes, StartInv, StopInv, NotStarted
    <2>2. QED
      BY <1>1, <2>1 DEF FaultCause, Running
  <1>6. QED
    BY <1>1, <1>3, <1>4, <1>5, ThreadStep

LEMMA StutterStep ==
  ASSUME WorkerInv, UNCHANGED vars
  PROVE  WorkerInv'
  <1>1. /\ UNCHANGED threadVars /\ UNCHANGED <<handle, reading, fault>> /\ failed' = failed
        /\ UNCHANGED <<out, pollout, net, unacked, broken, jobs, posted, received, held>>
    BY DEF vars, threadVars, chanVars, msgVars
  <1>2. ThreadInv /\ EndTypes /\ FaultCause
    BY DEF WorkerInv
  <1>3. EndTypes' /\ FaultCause'
    BY <1>1, <1>2 DEF EndTypes, FaultCause
  <1>4. ThreadInv'
    BY <1>1, <1>2, ThreadKeep
  <1>5. QED
    BY <1>1, <1>3, <1>4, ThreadStep

\* The jobs of side s change, and bring no message they did not bring before;
\* some of its writes are acknowledged.
LEMMA JobsStep ==
  ASSUME MsgInv, NEW s \in Sides, NEW ks \in Seq(Job), RisingJobs(ks), Told(ks) \subseteq Told(jobs[s]),
         jobs' = [jobs EXCEPT ![s] = ks], UNCHANGED <<out, pollout, net, posted, received>>,
         NEW un, un \subseteq unacked[s], unacked' = [unacked EXCEPT ![s] = un],
         NEW br, br \subseteq broken[s], broken' = [broken EXCEPT ![s] = br]
  PROVE  MsgInv'
  <1> DEFINE p == Peer(s)
  <1>1. p \in Sides /\ p # s /\ Peer(p) = s
    BY PeerFacts
  <1>2. /\ posted[s] \in Seq(Sizes) /\ unacked[s] \subseteq 1..Len(posted[s])
        /\ broken[s] \subseteq 1..Len(posted[s])
        /\ pollout[s] \in BOOLEAN /\ (pollout[s] => out[s] # <<>>)
        /\ Len(net[s]) <= Capacity /\ Len(net[p]) <= Capacity
        /\ Chan(received[p], jobs[p], net[s], out[s], Len(posted[s]))
        /\ Chan(received[s], jobs[s], net[p], out[p], Len(posted[p]))
    BY <1>1, SideFacts
  <1>3. Chan(received[s], ks, net[p], out[p], Len(posted[p]))
    BY <1>2, ChanJobs
  <1>4. /\ out' = [out EXCEPT ![s] = out[s]] /\ pollout' = [pollout EXCEPT ![s] = pollout[s]]
        /\ received' = [received EXCEPT ![s] = received[s]]
        /\ posted' = [posted EXCEPT ![s] = posted[s]]
        /\ net' = net /\ net \in [Sides -> Seq(Unit)]
    BY Same DEF MsgInv
  <1>5. un \subseteq 1..Len(posted[s]) /\ br \subseteq 1..Len(posted[s])
    BY <1>2
  <1>6. SideMoves(s, out[s], pollout[s], net, ks, received[s], posted[s], un, br)
    BY <1>2, <1>3, <1>4, <1>5 DEF SideMoves
  <1>7. QED
    BY <1>6, SideStep

\* uvReadCb is called and nothing was read: the job brings no message.
LEMMA ReadNothingStep ==
  ASSUME WorkerInv, NEW s \in Sides, ReadNothing(s)
  PROVE  WorkerInv'
  <1> DEFINE j == MessageJob(Leftover)
             o == jobs[s]
             ks == Append(o, j)
  <1>1. /\ Running /\ UNCHANGED threadVars /\ UNCHANGED <<handle, reading, fault>>
        /\ UNCHANGED <<out, pollout, net, posted, received>> /\ UNCHANGED <<unacked, broken>>
        /\ jobs' = [jobs EXCEPT ![s] = ks]
    BY DEF ReadNothing
  <1>2. ThreadInv /\ MsgInv /\ EvalInv /\ EndTypes /\ EndTypes'
    BY <1>1 DEF WorkerInv, EndTypes
  <1>3. o \in Seq(Job) /\ RisingJobs(o)
    BY <1>2, SideFacts
  <1>4. j \in Job /\ j # Eval /\ ~Tells(j)
    <2>1. 0 \in 0..MaxPosts
      BY Constants
    <2>2. QED
      BY <2>1, JobFacts DEF Leftover
  <1>5. ks \in Seq(Job) /\ RisingJobs(ks) /\ Told(ks) = Told(o)
    BY <1>3, <1>4, AppendJob
  <1>6. KeepsEval(ks, o)
    <2> HIDE DEF j, o
    <2>1. \A i \in DOMAIN Append(o, j) : Append(o, j)[i] = j \/ (i \in DOMAIN o /\ Append(o, j)[i] = o[i])
      BY <1>3
    <2>2. QED
      BY <1>4, <2>1 DEF KeepsEval
  <1> HIDE DEF ks
  <1>7. MsgInv' /\ EvalInv'
    <2>1. /\ unacked' = [unacked EXCEPT ![s] = unacked[s]]
          /\ broken' = [broken EXCEPT ![s] = broken[s]]
      BY <1>1, <1>2, Same DEF MsgInv
    <2>2. MsgInv'
      BY <1>1, <1>2, <1>5, <2>1, JobsStep
    <2>3. EvalInv'
      BY <1>1, <1>2, <1>6, EvalKeep DEF threadVars
    <2>4. QED
      BY <2>2, <2>3
  <1>8. ThreadInv' /\ FaultCause'
    BY <1>1, <1>2, ThreadKeep, NoFault
  <1>9. QED
    BY <1>2, <1>7, <1>8 DEF WorkerInv

\* The thread's runtime, its end of the channel and the job for the script
LEMMA WorkerBootStep ==
  ASSUME WorkerInv, WorkerBoot
  PROVE  WorkerInv'
  <1>1. /\ Running /\ pc["worker"] = "boot"
        /\ pc' = [pc EXCEPT !["worker"] = "booted"] /\ rt' = "live"
        /\ handle' = [handle EXCEPT !["worker"] = "open"]
        /\ reading' = [reading EXCEPT !["worker"] = TRUE]
        /\ jobs' = [jobs EXCEPT !["worker"] = <<Eval>>]
        /\ UNCHANGED <<sem, wdWrt, ptr, stopSent, stopFlag, held, failed, fault>>
        /\ UNCHANGED <<out, pollout, net, posted, received>> /\ UNCHANGED <<unacked, broken>>
    BY DEF WorkerBoot
  <1>2. ThreadInv /\ EndTypes /\ MsgInv /\ EvalInv
    BY DEF WorkerInv
  <1>3. ThreadInv'
    BY <1>1, <1>2 DEF ThreadInv, ThreadTypes, StartInv, StopInv, NotStarted, Sides, PcValues
  <1>4. EndTypes'
    BY <1>1, <1>2 DEF EndTypes
  <1>5. "worker" \in Sides
    BY DEF Sides
  <1>6. MsgInv'
    <2> DEFINE ks == <<Eval>>
    <2>1. ks \in Seq(Job) /\ DOMAIN ks = {1} /\ ks[1] = Eval
      BY JobFacts
    <2> HIDE DEF ks
    <2>2. \A i \in DOMAIN ks : ~Tells(ks[i])
      BY <2>1, JobFacts
    <2>3. RisingJobs(ks) /\ Told(ks) \subseteq Told(jobs["worker"])
      BY <2>2 DEF RisingJobs, Told
    <2>4. /\ jobs' = [jobs EXCEPT !["worker"] = ks]
          /\ unacked' = [unacked EXCEPT !["worker"] = unacked["worker"]]
          /\ broken' = [broken EXCEPT !["worker"] = broken["worker"]]
      BY <1>1, <1>2, <1>5, Same DEF ks, MsgInv
    <2>5. QED
      BY <1>1, <1>2, <1>5, <2>1, <2>3, <2>4, JobsStep
  <1>7. EvalInv'
    <2>1. jobs'["worker"] = <<Eval>> /\ jobs'["main"] = jobs["main"]
      BY <1>1, <1>2 DEF MsgInv, Sides
    <2>2. DOMAIN <<Eval>> = {1}
      OBVIOUS
    <2>3. ~failed
      BY <1>1, <1>2 DEF ThreadInv, StartInv, NotStarted
    <2>4. \A i \in DOMAIN jobs'["worker"] : i = 1
      BY <2>1, <2>2
    <2>5. QED
      BY <1>1, <1>2, <2>1, <2>3, <2>4 DEF EvalInv, Sides
  <1>8. FaultCause'
    BY <1>1, NoFault
  <1>9. QED
    BY <1>3, <1>4, <1>6, <1>7, <1>8 DEF WorkerInv

\* The script is evaluated: it has not failed before.
LEMMA WorkerEvalStep ==
  ASSUME WorkerInv, NEW ok \in BOOLEAN, WorkerEval(ok)
  PROVE  WorkerInv'
  <1> DEFINE js == jobs["worker"]
             ks == Tail(js)
  <1>1. /\ Running /\ pc["worker"] = "check" /\ js # <<>> /\ Head(js) = Eval
        /\ jobs' = [jobs EXCEPT !["worker"] = ks]
        /\ stopSent' = (stopSent \/ ~ok) /\ failed' = ~ok
        /\ UNCHANGED <<pc, sem, wdWrt, ptr, rt, stopFlag, held>>
        /\ UNCHANGED <<handle, reading, fault>>
        /\ UNCHANGED <<out, pollout, net, posted, received>> /\ UNCHANGED <<unacked, broken>>
    BY DEF WorkerEval, chanVars
  <1>2. ThreadInv /\ EndTypes /\ MsgInv /\ EvalInv
    BY DEF WorkerInv
  <1>3. "worker" \in Sides /\ js \in Seq(Job) /\ RisingJobs(js)
    BY <1>2, SideFacts DEF Sides
  <1>4. 1 \in DOMAIN js /\ js[1] = Eval
    BY <1>1, <1>3
  <1>5. ~failed
    BY <1>2, <1>3, <1>4 DEF EvalInv
  <1>6. ThreadInv'
    <2>1. ThreadTypes'
      BY <1>1, <1>2 DEF ThreadInv, ThreadTypes
    <2>2. StartInv'
      BY <1>1, <1>2 DEF ThreadInv, StartInv, NotStarted
    <2>3. StopInv'
      BY <1>1, <1>2, <1>5 DEF ThreadInv, StopInv
    <2>4. QED
      BY <2>1, <2>2, <2>3 DEF ThreadInv
  <1>7. EndTypes' /\ FaultCause'
    BY <1>1, <1>2, NoFault DEF EndTypes
  <1>8. MsgInv'
    <2>1. ks \in Seq(Job) /\ RisingJobs(ks) /\ Told(ks) \subseteq Told(js)
      BY <1>1, <1>3, TailJobs
    <2>2. /\ unacked' = [unacked EXCEPT !["worker"] = unacked["worker"]]
          /\ broken' = [broken EXCEPT !["worker"] = broken["worker"]]
      BY <1>1, <1>2, <1>3, Same DEF MsgInv
    <2>3. QED
      BY <1>1, <1>2, <1>3, <2>1, <2>2, JobsStep
  <1>9. EvalInv'
    <2>1. \A i \in DOMAIN ks : i + 1 \in DOMAIN js /\ ks[i] = js[i + 1] /\ i + 1 # 1
      BY <1>1, <1>3
    <2>2. jobs'["worker"] = ks /\ jobs'["main"] = jobs["main"]
      BY <1>1, <1>2 DEF MsgInv, Sides
    <2> HIDE DEF ks
    <2>3. \A i \in DOMAIN ks : ks[i] # Eval
      BY <1>2, <1>3, <2>1 DEF EvalInv
    <2>4. \A i \in DOMAIN jobs["main"] : jobs["main"][i] # Eval
      BY <1>2 DEF EvalInv, Sides
    <2>5. QED
      BY <2>2, <2>3, <2>4 DEF EvalInv, Sides
  <1>10. QED
    BY <1>6, <1>7, <1>8, <1>9 DEF WorkerInv

\* The next iteration of a loop, with the callbacks of the writes done at once
LEMMA NextIterationStep ==
  ASSUME WorkerInv, NEW s \in Sides, NextIteration(s)
  PROVE  WorkerInv'
  <1>1. /\ Running /\ pc[s] = "check"
        /\ pc' = [pc EXCEPT ![s] = "poll"]
        /\ WriteCb(s, {}, jobs[s])
        /\ UNCHANGED <<sem, wdWrt, ptr, rt, stopSent, stopFlag, held, failed>>
        /\ UNCHANGED <<handle, reading, fault>>
        /\ UNCHANGED <<out, pollout, net, posted, received>>
    BY DEF NextIteration
  <1>2. ThreadInv /\ EndTypes /\ MsgInv /\ EvalInv
    BY DEF WorkerInv
  <1>3. ThreadInv'
    <2>1. CASE s = "main"
      BY <1>1, <1>2, <2>1 DEF ThreadInv, ThreadTypes, StartInv, StopInv, NotStarted, Sides, PcValues
    <2>2. CASE s = "worker"
      BY <1>1, <1>2, <2>2 DEF ThreadInv, ThreadTypes, StartInv, StopInv, NotStarted, Sides, PcValues
    <2>3. QED
      BY <2>1, <2>2 DEF Sides
  <1>4. EndTypes' /\ FaultCause'
    BY <1>1, <1>2, NoFault DEF EndTypes
  <1>5. jobs[s] \in Seq(Job) /\ RisingJobs(jobs[s]) /\ IsFiniteSet({})
    BY <1>2, SideFacts, FS_EmptySet
  <1>6. PICK ks, un :
          /\ jobs' = [jobs EXCEPT ![s] = ks] /\ unacked' = [unacked EXCEPT ![s] = un]
          /\ broken' = [broken EXCEPT ![s] = {}]
          /\ un \subseteq unacked[s]
          /\ ks \in Seq(Job) /\ RisingJobs(ks) /\ Told(ks) = Told(jobs[s])
          /\ KeepsEval(ks, jobs[s])
    BY <1>1, <1>2, <1>5, Acknowledged, Zenon
  <1>7. MsgInv'
    <2> DEFINE br == {}
    <2>1. Told(ks) \subseteq Told(jobs[s]) /\ br \subseteq broken[s]
      BY <1>6
    <2>2. /\ MsgInv /\ ks \in Seq(Job) /\ RisingJobs(ks) /\ jobs' = [jobs EXCEPT ![s] = ks]
          /\ UNCHANGED <<out, pollout, net, posted, received>>
          /\ un \subseteq unacked[s] /\ unacked' = [unacked EXCEPT ![s] = un]
          /\ broken' = [broken EXCEPT ![s] = br]
      BY <1>1, <1>2, <1>6
    <2> HIDE DEF br
    <2>3. QED
      BY <2>1, <2>2, JobsStep
  <1>8. EvalInv'
    BY <1>1, <1>2, <1>6, EvalKeep
  <1>9. QED
    BY <1>3, <1>4, <1>7, <1>8 DEF WorkerInv

-----------------------------------------------------------------------------
(***************************************************************************)
(* The invariance, and what follows from it                                *)
(***************************************************************************)

LEMMA WorkerInit ==
  ASSUME Init
  PROVE  WorkerInv
  <1>1. /\ pc = [main |-> "check", worker |-> "none"] /\ sem = 0 /\ rt = "none"
        /\ wdWrt = FALSE /\ ptr = FALSE /\ stopSent = FALSE /\ stopFlag = FALSE
        /\ held = FALSE /\ failed = FALSE /\ fault = "none"
        /\ handle = [s \in Sides |-> "none"] /\ reading = [s \in Sides |-> FALSE]
    BY DEF Init
  <1>2. /\ out = [s \in Sides |-> <<>>] /\ pollout = [s \in Sides |-> FALSE]
        /\ net = [s \in Sides |-> <<>>] /\ unacked = [s \in Sides |-> {}]
        /\ broken = [s \in Sides |-> {}] /\ jobs = [s \in Sides |-> <<>>]
        /\ posted = [s \in Sides |-> <<>>] /\ received = [s \in Sides |-> <<>>]
    BY DEF Init
  <1>3. ThreadInv
    <2>1. pc["main"] = "check" /\ pc["worker"] = "none" /\ pc \in [Sides -> PcValues]
      BY <1>1 DEF Sides, PcValues
    <2>2. /\ sem = 0 /\ rt = "none" /\ ~wdWrt /\ ~ptr /\ ~stopSent /\ ~stopFlag /\ ~failed
          /\ wdWrt \in BOOLEAN /\ ptr \in BOOLEAN /\ stopSent \in BOOLEAN
          /\ stopFlag \in BOOLEAN /\ held \in BOOLEAN /\ failed \in BOOLEAN
      BY <1>1
    <2>3. ThreadTypes
      BY <2>1, <2>2 DEF ThreadTypes
    <2>4. StartInv /\ StopInv
      BY <2>1, <2>2 DEF StartInv, StopInv, NotStarted
    <2>5. QED
      BY <2>3, <2>4 DEF ThreadInv
  <1>4. EndTypes /\ FaultCause
    BY <1>1 DEF EndTypes, FaultCause
  <1>5. /\ <<>> \in Seq(Unit) /\ <<>> \in Seq(Job) /\ <<>> \in Seq(Sizes)
        /\ <<>> \in Seq(0..MaxPosts) /\ DOMAIN <<>> = {} /\ Len(<<>>) = 0
    OBVIOUS
  <1>6. Chan(<<>>, <<>>, <<>>, <<>>, 0)
    <2>1. 0 \in 0..MaxPosts
      BY Constants
    <2>2. Got(<<>>) = {} /\ Told(<<>>) = {} /\ Starts(<<>>) = {}
      BY <1>5 DEF Got, Told, Starts
    <2>3. RisingGot(<<>>) /\ RisingJobs(<<>>) /\ Rising(<<>>) /\ Packed(<<>>) /\ UnitsUpTo(<<>>, 0)
      BY <1>5 DEF RisingGot, RisingJobs, Rising, Packed, UnitsUpTo
    <2>4. Below({}, {})
      BY DEF Below
    <2>5. QED
      BY <1>5, <2>1, <2>2, <2>3, <2>4 DEF Chan
  <1>7. MsgInv
    <2>1. ASSUME NEW s \in Sides PROVE SideInv(s)
      <3>1. /\ pollout[s] = FALSE /\ net[s] = <<>> /\ out[s] = <<>> /\ unacked[s] = {} /\ broken[s] = {}
            /\ posted[s] = <<>> /\ received[Peer(s)] = <<>> /\ jobs[Peer(s)] = <<>>
        BY <1>2, PeerFacts
      <3>2. Len(net[s]) <= Capacity
        BY <1>5, <3>1, Constants
      <3>3. QED
        BY <1>5, <1>6, <3>1, <3>2 DEF SideInv
    <2>2. QED
      BY <1>2, <1>5, <2>1 DEF MsgInv
  <1>8. EvalInv
    BY <1>2, <1>5 DEF EvalInv
  <1>9. QED
    BY <1>3, <1>4, <1>7, <1>8 DEF WorkerInv

LEMMA WorkerNext ==
  ASSUME WorkerInv, [Next]_vars
  PROVE  WorkerInv'
  <1>1. "main" \in Sides /\ "worker" \in Sides
    BY DEF Sides
  <1>2. CASE MainThread
    BY <1>1, <1>2, ConstructedStep, JoinedStep, ExitStep, PollStep, NextIterationStep, ReadStep,
       ReadNothingStep, ReadEndStep, WritableStep, EmitStep DEF MainThread
  <1>3. CASE WorkerThread
    BY <1>1, <1>3, WorkerBootStep, WorkerPostStep, StopCbStep, LeaveLoopStep, FreeRuntimeStep,
       WorkerEvalStep, PollStep, NextIterationStep, ReadStep, ReadNothingStep, ReadEndStep,
       WritableStep, EmitStep DEF WorkerThread
  <1>4. CASE Program
    BY <1>4, ConstructStep, TerminateStep, DropStep, FinalizeStep, FinalizeInReadStep, PostStep
       DEF Program
  <1>5. CASE Stopped \/ UNCHANGED vars
    BY <1>5, StutterStep DEF Stopped
  <1>6. QED
    BY <1>2, <1>3, <1>4, <1>5 DEF Next

\* The inductive invariant: the handshake, the runtime's life and both
\* directions of the channel, whatever the sizes and the number of messages.
THEOREM WorkerInvariance == Spec => []WorkerInv
  <1>1. Init => WorkerInv
    BY WorkerInit
  <1>2. WorkerInv /\ [Next]_vars => WorkerInv'
    BY WorkerNext
  <1>3. QED
    BY <1>1, <1>2, PTL DEF Spec

-----------------------------------------------------------------------------
(***************************************************************************)
(* Leftovers: what a side has posted and not read stays small              *)
(***************************************************************************)

\* A queue of whole messages
Whole(q) == Packed(q) /\ (q # <<>> => q[1].part = 1)

NoLeftover(js) == \A i \in DOMAIN js : js[i].kind = "message" => js[i].msg # Leftover

\* One direction of the channel. When the unread units, at most pk of them,
\* always left room in a read's buffer and fitted the socket, no read has filled
\* its buffer, no handler is called with a leftover, and while the reader's end
\* is not shut all that is unread is in the socket, as whole messages.
Calm(pk, left, js, rec, shut, ot, br, nt) ==
  pk < Chunk /\ pk <= Capacity =>
    /\ left = 0
    /\ NoLeftover(js)
    /\ \A i \in DOMAIN rec : rec[i] # Leftover
    /\ ~shut => ot = <<>> /\ br = {} /\ Whole(nt) /\ Len(nt) <= pk

CalmSide(s) ==
  Calm(peak[s], readsLeft[Peer(s)], jobs[Peer(s)], received[Peer(s)],
       handle[Peer(s)] = "closed", out[s], broken[s], net[s])

\* An end is opened once, and is not read after it is closed.
EndInv ==
  /\ pc["worker"] = "none" => handle["main"] = "none"
  /\ pc["worker"] \in {"none", "boot"} => handle["worker"] = "none"
  /\ \A s \in Sides : handle[s] = "closed" => ~reading[s]

CalmInv ==
  /\ readsLeft \in [Sides -> 0..(MaxReads - 1)]
  /\ peak \in [Sides -> Nat]
  /\ EndInv
  /\ \A s \in Sides : CalmSide(s)

\* The channel is left alone.
LEMMA CalmKeep ==
  ASSUME CalmInv, UNCHANGED <<chanVars, msgVars>>,
         pc'["worker"] = "none" => pc["worker"] = "none",
         pc'["worker"] = "boot" => pc["worker"] = "boot"
  PROVE  CalmInv'
  <1>1. /\ UNCHANGED <<handle, reading, readsLeft, out, broken, net>>
        /\ UNCHANGED <<jobs, received, peak>>
    BY DEF chanVars, msgVars
  <1>2. EndInv'
    BY <1>1 DEF CalmInv, EndInv
  <1>3. \A s \in Sides : CalmSide(s)'
    BY <1>1 DEF CalmInv, CalmSide
  <1>4. QED
    BY <1>1, <1>2, <1>3 DEF CalmInv

\* A step of side s: its own jobs, its own queue and its reads.
LEMMA CalmStep ==
  ASSUME WorkerInv, CalmInv, NEW s \in Sides, UNCHANGED <<handle, peak>>,
         pc'["worker"] = "none" => pc["worker"] = "none",
         pc'["worker"] = "boot" => pc["worker"] = "boot",
         \A t \in Sides : reading'[t] => reading[t], reading' \in [Sides -> BOOLEAN],
         NEW left \in 0..(MaxReads - 1), readsLeft' = [readsLeft EXCEPT ![s] = left],
         NEW js, jobs' = [jobs EXCEPT ![s] = js],
         NEW rec, received' = [received EXCEPT ![s] = rec],
         NEW ot, out' = [out EXCEPT ![s] = ot],
         NEW br, broken' = [broken EXCEPT ![s] = br],
         NEW nt, NEW x, net' = nt, nt[s] = x, nt[Peer(s)] \in Seq(Unit),
         Calm(peak[s], readsLeft[Peer(s)], jobs[Peer(s)], received[Peer(s)],
              handle[Peer(s)] = "closed", ot, br, x),
         Calm(peak[Peer(s)], left, js, rec, handle[s] = "closed", out[Peer(s)],
              broken[Peer(s)], nt[Peer(s)])
  PROVE  CalmInv'
  <1> DEFINE p == Peer(s)
  <1>1. p \in Sides /\ p # s /\ Peer(p) = s /\ \A t \in Sides : t = s \/ t = p
    BY PeerFacts
  <1>2. /\ readsLeft \in [Sides -> 0..(MaxReads - 1)] /\ MsgInv
        /\ readsLeft' \in [Sides -> 0..(MaxReads - 1)]
    BY DEF CalmInv, WorkerInv
  <1>3. /\ readsLeft'[s] = left /\ readsLeft'[p] = readsLeft[p]
        /\ jobs'[s] = js /\ jobs'[p] = jobs[p]
        /\ received'[s] = rec /\ received'[p] = received[p]
        /\ out'[s] = ot /\ out'[p] = out[p]
        /\ broken'[s] = br /\ broken'[p] = broken[p]
        /\ net'[s] = x /\ net'[p] = nt[p]
    BY <1>1, <1>2 DEF MsgInv
  <1>4. CalmSide(s)'
    BY <1>3 DEF CalmSide
  <1>5. CalmSide(p)'
    BY <1>1, <1>3 DEF CalmSide
  <1>6. EndInv'
    BY DEF CalmInv, EndInv
  <1>7. \A t \in Sides : CalmSide(t)'
    BY <1>1, <1>4, <1>5
  <1>8. QED
    BY <1>2, <1>6, <1>7 DEF CalmInv

\* Errors are no leftovers.
LEMMA CalmErrors ==
  ASSUME NEW js \in Seq(Job), NoLeftover(js), NEW n \in Nat
  PROVE  NoLeftover(js \o [i \in 1..n |-> ErrorJob])
  <1> DEFINE e == [i \in 1..n |-> ErrorJob]
             a == js \o e
             m == Len(js)
  <1>1. e \in Seq(Job) /\ Len(e) = n /\ \A i \in 1..n : e[i] = ErrorJob
    BY JobFacts
  <1> HIDE DEF e
  <1>2. /\ DOMAIN a = 1..(m + n) /\ m \in Nat /\ DOMAIN js = 1..m
        /\ \A i \in 1..m : a[i] = js[i]
        /\ \A i \in 1..n : a[m + i] = ErrorJob
    <2>1. /\ DOMAIN a = 1..(m + Len(e)) /\ m \in Nat /\ DOMAIN js = 1..m
          /\ \A i \in 1..m : a[i] = js[i]
          /\ \A i \in 1..Len(e) : a[m + i] = e[i]
      <3>1. e \in Seq(Job)
        BY <1>1
      <3>2. QED
        BY <3>1, Join
    <2> HIDE DEF a, m
    <2>2. QED
      BY <1>1, <2>1
  <1> HIDE DEF a, m
  <1>3. \A i \in 1..(m + n) : i \in 1..m \/ \E j \in 1..n : i = m + j
    BY <1>2, JoinIndex
  <1>4. \A i \in DOMAIN a : a[i] = ErrorJob \/ (i \in DOMAIN js /\ a[i] = js[i])
    BY <1>2, <1>3
  <1>5. ErrorJob.kind # "message"
    BY DEF ErrorJob
  <1>6. QED
    BY <1>4, <1>5 DEF NoLeftover, a, e

\* uv__write_callbacks
LEMMA CalmWriteCb ==
  ASSUME MsgInv, NEW s \in Sides, NEW failing, IsFiniteSet(failing), NEW js \in Seq(Job),
         WriteCb(s, failing, js)
  PROVE  \E ks : /\ jobs' = [jobs EXCEPT ![s] = ks] /\ broken' = [broken EXCEPT ![s] = {}]
                 /\ NoLeftover(js) => NoLeftover(ks)
  <1> DEFINE n == Cardinality(broken[s] \cup failing)
             ks == js \o [i \in 1..n |-> ErrorJob]
  <1>1. n \in Nat
    <2>1. broken[s] \subseteq 1..MaxPosts
      BY DEF MsgInv
    <2>2. IsFiniteSet(1..MaxPosts)
      BY Constants, FS_Interval
    <2>3. IsFiniteSet(broken[s])
      BY <2>1, <2>2, FS_Subset
    <2>4. IsFiniteSet(broken[s] \cup failing)
      BY <2>3, FS_Union
    <2>5. QED
      BY <2>4, FS_CardinalityType
  <1>2. jobs' = [jobs EXCEPT ![s] = ks] /\ broken' = [broken EXCEPT ![s] = {}]
    BY DEF WriteCb
  <1> HIDE DEF n
  <1>3. NoLeftover(js) => NoLeftover(ks)
    BY <1>1, CalmErrors
  <1> HIDE DEF ks
  <1>4. QED
    BY <1>2, <1>3

\* The facts about the reads of both sides
LEMMA CalmFacts ==
  ASSUME WorkerInv, CalmInv, NEW s \in Sides
  PROVE  /\ Peer(s) \in Sides /\ Peer(s) # s /\ Peer(Peer(s)) = s
         /\ readsLeft[s] \in 0..(MaxReads - 1) /\ peak[s] \in Nat
         /\ readsLeft = [readsLeft EXCEPT ![s] = readsLeft[s]]
         /\ out = [out EXCEPT ![s] = out[s]] /\ broken = [broken EXCEPT ![s] = broken[s]]
         /\ jobs = [jobs EXCEPT ![s] = jobs[s]] /\ received = [received EXCEPT ![s] = received[s]]
         /\ net[s] \in Seq(Unit) /\ net[Peer(s)] \in Seq(Unit)
         /\ jobs[s] \in Seq(Job) /\ received[s] \in Seq(0..MaxPosts) /\ RisingJobs(jobs[s])
         /\ reading \in [Sides -> BOOLEAN]
         /\ Calm(peak[s], readsLeft[Peer(s)], jobs[Peer(s)], received[Peer(s)],
                 handle[Peer(s)] = "closed", out[s], broken[s], net[s])
         /\ Calm(peak[Peer(s)], readsLeft[s], jobs[s], received[s],
                 handle[s] = "closed", out[Peer(s)], broken[Peer(s)], net[Peer(s)])
         /\ MsgInv
  <1>1. Peer(s) \in Sides /\ Peer(s) # s /\ Peer(Peer(s)) = s
    BY PeerFacts
  <1>2. MsgInv /\ EndTypes
    BY DEF WorkerInv
  <1>3. /\ out \in [Sides -> Seq(Unit)] /\ broken \in [Sides -> SUBSET (1..MaxPosts)]
        /\ jobs \in [Sides -> Seq(Job)] /\ received \in [Sides -> Seq(0..MaxPosts)]
        /\ net \in [Sides -> Seq(Unit)]
    BY <1>2 DEF MsgInv
  <1>4. /\ readsLeft \in [Sides -> 0..(MaxReads - 1)] /\ peak \in [Sides -> Nat]
        /\ CalmSide(s) /\ CalmSide(Peer(s))
    BY <1>1 DEF CalmInv
  <1>5. /\ readsLeft = [readsLeft EXCEPT ![s] = readsLeft[s]]
        /\ out = [out EXCEPT ![s] = out[s]] /\ broken = [broken EXCEPT ![s] = broken[s]]
        /\ jobs = [jobs EXCEPT ![s] = jobs[s]] /\ received = [received EXCEPT ![s] = received[s]]
    BY <1>3, <1>4, Same
  <1>6. RisingJobs(jobs[s])
    BY <1>2, SideFacts
  <1>7. QED
    BY <1>1, <1>2, <1>3, <1>4, <1>5, <1>6 DEF CalmSide, EndTypes

\* A request that waits is written, or fails.
LEMMA CalmWritable ==
  ASSUME WorkerInv, CalmInv, NEW s \in Sides, Writable(s)
  PROVE  CalmInv'
  <1> DEFINE p == Peer(s)
  <1>1. /\ UNCHANGED threadVars /\ UNCHANGED <<handle, reading, readsLeft, posted, received, peak>>
        /\ pollout[s]
    BY DEF Writable
  <1>2. /\ p \in Sides /\ p # s
        /\ readsLeft[s] \in 0..(MaxReads - 1) /\ peak[s] \in Nat
        /\ readsLeft = [readsLeft EXCEPT ![s] = readsLeft[s]]
        /\ received = [received EXCEPT ![s] = received[s]]
        /\ net[s] \in Seq(Unit) /\ net[p] \in Seq(Unit) /\ jobs[s] \in Seq(Job)
        /\ reading \in [Sides -> BOOLEAN]
        /\ Calm(peak[s], readsLeft[p], jobs[p], received[p],
                handle[p] = "closed", out[s], broken[s], net[s])
        /\ Calm(peak[p], readsLeft[s], jobs[s], received[s],
                handle[s] = "closed", out[p], broken[p], net[p])
        /\ MsgInv
    BY CalmFacts
  <1>3. /\ out[s] # <<>>
        /\ Chan(received[p], jobs[p], net[s], out[s], Len(posted[s]))
    BY <1>1, <1>2, SideFacts
  <1>4. PICK failing : /\ IsFiniteSet(failing) /\ WriteCb(s, failing, jobs[s])
                       /\ Write(s, out[s]) \/ WriteFails(s, out[s])
    BY FS_EmptySet, FS_Singleton DEF Writable
  <1>5. PICK ks : /\ jobs' = [jobs EXCEPT ![s] = ks] /\ broken' = [broken EXCEPT ![s] = {}]
                  /\ NoLeftover(jobs[s]) => NoLeftover(ks)
    BY <1>2, <1>4, CalmWriteCb
  <1>6. PICK ot, pl, x :
          /\ pl \in BOOLEAN /\ x \in Seq(Unit)
          /\ out' = [out EXCEPT ![s] = ot] /\ pollout' = [pollout EXCEPT ![s] = pl]
          /\ net' = [net EXCEPT ![s] = x]
          /\ pl => ot # <<>>
          /\ Len(x) <= Capacity
          /\ Chan(received[p], jobs[p], x, ot, Len(posted[s]))
    BY <1>2, <1>3, <1>4, Written
  <1>7. net'[s] = x /\ net'[p] = net[p]
    BY <1>2, <1>6 DEF MsgInv
  <1> HIDE DEF p
  <1>8. Calm(peak[s], readsLeft[p], jobs[p], received[p], handle[p] = "closed", ot, {}, x)
    <2>1. Calm(peak[s], readsLeft[p], jobs[p], received[p], handle[p] = "closed", out[s], broken[s], net[s])
      BY <1>2
    <2>2. QED
      BY <1>3, <2>1, Zenon DEF Calm
  <1>9. Calm(peak[p], readsLeft[s], ks, received[s], handle[s] = "closed", out[p], broken[p], net'[p])
    BY <1>2, <1>5, <1>7 DEF Calm
  <1>10. QED
    BY <1>1, <1>2, <1>5, <1>6, <1>7, <1>8, <1>9, CalmStep DEF threadVars, p

\* The end of the stream: the other end is shut, and nothing is read any more.
LEMMA CalmReadEnd ==
  ASSUME WorkerInv, CalmInv, NEW s \in Sides, ReadEnd(s)
  PROVE  CalmInv'
  <1> DEFINE p == Peer(s)
             js == IF net[s] = <<>> THEN jobs[s] ELSE Append(jobs[s], ErrorJob)
  <1>1. /\ UNCHANGED threadVars /\ UNCHANGED <<handle, received, peak>>
        /\ handle[p] = "closed"
        /\ reading' = [reading EXCEPT ![s] = FALSE]
        /\ readsLeft' = [readsLeft EXCEPT ![s] = 0]
        /\ \/ /\ out[s] # <<>> /\ WriteFails(s, out[s]) /\ WriteCb(s, {out[s][1].msg}, js)
           \/ jobs' = [jobs EXCEPT ![s] = js] /\ UNCHANGED <<out, net, broken>>
    BY DEF ReadEnd
  <1>2. /\ p \in Sides /\ p # s
        /\ received = [received EXCEPT ![s] = received[s]]
        /\ out = [out EXCEPT ![s] = out[s]] /\ broken = [broken EXCEPT ![s] = broken[s]]
        /\ net[s] \in Seq(Unit) /\ net[p] \in Seq(Unit) /\ jobs[s] \in Seq(Job)
        /\ reading \in [Sides -> BOOLEAN]
        /\ Calm(peak[s], readsLeft[p], jobs[p], received[p],
                handle[p] = "closed", out[s], broken[s], net[s])
        /\ Calm(peak[p], readsLeft[s], jobs[s], received[s],
                handle[s] = "closed", out[p], broken[p], net[p])
    BY CalmFacts
  <1>3. js \in Seq(Job) /\ (NoLeftover(jobs[s]) => NoLeftover(js))
    <2> DEFINE o == jobs[s]
    <2>0. o \in Seq(Job) /\ ErrorJob \in Job /\ ErrorJob.kind # "message"
      BY <1>2, JobFacts DEF ErrorJob
    <2> HIDE DEF o
    <2>1. /\ Append(o, ErrorJob) \in Seq(Job)
          /\ \A i \in DOMAIN Append(o, ErrorJob) :
               Append(o, ErrorJob)[i] = ErrorJob \/ (i \in DOMAIN o /\ Append(o, ErrorJob)[i] = o[i])
      BY <2>0
    <2>2. NoLeftover(o) => NoLeftover(Append(o, ErrorJob))
      BY <2>0, <2>1 DEF NoLeftover
    <2>3. js = o \/ js = Append(o, ErrorJob)
      BY DEF o
    <2> HIDE DEF js
    <2>4. QED
      BY <2>0, <2>1, <2>2, <2>3 DEF o
  <1> HIDE DEF js
  <1>4. PICK ks, ot, br : /\ jobs' = [jobs EXCEPT ![s] = ks] /\ broken' = [broken EXCEPT ![s] = br]
                          /\ out' = [out EXCEPT ![s] = ot] /\ net' = net
                          /\ NoLeftover(js) => NoLeftover(ks)
    <2>1. CASE out[s] # <<>> /\ WriteFails(s, out[s]) /\ WriteCb(s, {out[s][1].msg}, js)
      <3>1. MsgInv /\ IsFiniteSet({out[s][1].msg})
        BY FS_Singleton DEF WorkerInv
      <3>2. PICK ks : /\ jobs' = [jobs EXCEPT ![s] = ks] /\ broken' = [broken EXCEPT ![s] = {}]
                      /\ NoLeftover(js) => NoLeftover(ks)
        BY <1>3, <2>1, <3>1, CalmWriteCb
      <3>3. PICK ot : out' = [out EXCEPT ![s] = ot] /\ net' = net
        BY <2>1 DEF WriteFails
      <3>4. QED
        BY <3>2, <3>3
    <2>2. CASE jobs' = [jobs EXCEPT ![s] = js] /\ UNCHANGED <<out, net, broken>>
      BY <1>2, <2>2
    <2>3. QED
      BY <1>1, <2>1, <2>2
  <1>5. Calm(peak[s], readsLeft[p], jobs[p], received[p], handle[p] = "closed", ot, br, net[s])
    BY <1>1, <1>2, Zenon DEF Calm
  <1>6. Calm(peak[p], 0, ks, received[s], handle[s] = "closed", out[p], broken[p], net[p])
    BY <1>2, <1>3, <1>4, Zenon DEF Calm
  <1>7. /\ 0 \in 0..(MaxReads - 1) /\ reading' \in [Sides -> BOOLEAN]
        /\ \A t \in Sides : reading'[t] => reading[t]
    BY <1>1, <1>2, Constants
  <1>8. QED
    BY <1>1, <1>2, <1>4, <1>5, <1>6, <1>7, CalmStep DEF threadVars

\* A read takes all that is there when it stays below the buffer's size.
LEMMA CalmRead ==
  ASSUME WorkerInv, CalmInv, NEW s \in Sides, ReadMessage(s)
  PROVE  CalmInv'
  <1> DEFINE p == Peer(s)
             q == net[p]
             k == Min2(Len(q), Chunk)
             m == Decode(SubSeq(q, 1, k))
             o == jobs[s]
             js == Append(o, MessageJob(m))
             x == SubSeq(q, k + 1, Len(q))
             c == IF readsLeft[s] = 0 THEN MaxReads ELSE readsLeft[s]
             left == IF k < Chunk THEN 0 ELSE c - 1
  <1>1. /\ UNCHANGED threadVars
        /\ UNCHANGED <<handle, reading, out, broken, received, peak>>
        /\ reading[s] /\ q # <<>>
        /\ jobs' = [jobs EXCEPT ![s] = js] /\ net' = [net EXCEPT ![p] = x]
        /\ readsLeft' = [readsLeft EXCEPT ![s] = left]
    BY DEF ReadMessage
  <1>2. /\ p \in Sides /\ p # s
        /\ readsLeft[s] \in 0..(MaxReads - 1) /\ peak[p] \in Nat
        /\ received = [received EXCEPT ![s] = received[s]]
        /\ out = [out EXCEPT ![s] = out[s]] /\ broken = [broken EXCEPT ![s] = broken[s]]
        /\ net[s] \in Seq(Unit) /\ q \in Seq(Unit) /\ o \in Seq(Job)
        /\ reading \in [Sides -> BOOLEAN]
        /\ Calm(peak[s], readsLeft[p], jobs[p], received[p],
                handle[p] = "closed", out[s], broken[s], net[s])
        /\ Calm(peak[p], readsLeft[s], o, received[s],
                handle[s] = "closed", out[p], broken[p], q)
        /\ MsgInv
    BY CalmFacts
  <1>3. handle[s] # "closed"
    BY <1>1 DEF CalmInv, EndInv
  <1>4. Len(q) \in Nat /\ Len(q) >= 1 /\ 1 \in DOMAIN q /\ q[1] \in Unit
    BY <1>1, <1>2
  <1>5. k \in 1..Len(q) /\ k \in 0..Len(q) /\ k \in Nat /\ k <= Chunk /\ (Len(q) < Chunk => k = Len(q))
    BY <1>4, Constants DEF Min2
  <1>6. left \in 0..(MaxReads - 1)
    <2> HIDE DEF k
    <2>1. QED
      BY <1>2, <1>5, Constants
  <1> HIDE DEF k
  <1>7. /\ x \in Seq(Unit) /\ Len(x) = Len(q) - k
        /\ SubSeq(q, 1, k)[1] = q[1] /\ Len(SubSeq(q, 1, k)) = k
    <2>1. 1 \in 1..k
      BY <1>5
    <2> HIDE DEF q
    <2>2. QED
      BY <1>2, <1>5, <2>1, Split
  <1>8. ASSUME peak[p] < Chunk, peak[p] <= Capacity
        PROVE  /\ left = 0 /\ NoLeftover(js) /\ x = <<>>
    <2>1. /\ NoLeftover(o) /\ Whole(q) /\ Len(q) <= peak[p]
      BY <1>2, <1>3, <1>8, Zenon DEF Calm
    <2>2. Len(q) < Chunk
      <3> HIDE DEF q
      <3>1. QED
        BY <1>2, <1>4, <1>8, <2>1, Constants
    <2>3. k = Len(q) /\ k < Chunk
      BY <1>5, <2>2
    <2>4. q[1].part = 1 /\ q[1].of <= k /\ q[1].msg # Leftover
      <3>1. q[1].part = 1 /\ 1 + (q[1].of - q[1].part) <= Len(q)
        BY <1>1, <1>4, <2>1 DEF Whole, Packed
      <3>2. q[1].of \in Nat /\ q[1].msg # Leftover
        BY <1>4, UnitFields
      <3> DEFINE f == q[1].of
                 l == Len(q)
      <3>3. 1 + (f - 1) <= l /\ f \in Nat /\ l \in Nat /\ k = l
        BY <1>4, <2>3, <3>1, <3>2
      <3> HIDE DEF f, l
      <3>4. f <= k
        BY <3>3
      <3>5. QED
        BY <3>1, <3>2, <3>4 DEF f
    <2>5. m # Leftover
      <3>1. k >= q[1].of
        <4>1. q[1].of \in Nat
          BY <1>4, UnitFields
        <4>2. QED
          BY <1>5, <2>4, <4>1
      <3>2. QED
        BY <1>7, <2>4, <3>1 DEF Decode
    <2>6. NoLeftover(js)
      <3> HIDE DEF m, o
      <3>1. \A i \in DOMAIN Append(o, MessageJob(m)) :
              \/ Append(o, MessageJob(m))[i] = MessageJob(m)
              \/ i \in DOMAIN o /\ Append(o, MessageJob(m))[i] = o[i]
        <4> DEFINE j == MessageJob(m)
        <4> HIDE DEF j
        <4>1. o \in Seq(Job)
          BY <1>2
        <4>2. \A i \in DOMAIN Append(o, j) : Append(o, j)[i] = j \/ (i \in DOMAIN o /\ Append(o, j)[i] = o[i])
          BY <4>1
        <4>3. QED
          BY <4>2 DEF j
      <3>2. MessageJob(m).msg = m
        BY DEF MessageJob
      <3>3. QED
        BY <2>1, <2>5, <3>1, <3>2 DEF NoLeftover
    <2>7. x = <<>>
      <3> HIDE DEF x, q
      <3>1. Len(x) = 0
        BY <1>4, <1>7, <2>3
      <3>2. QED
        BY <1>7, <3>1
    <2>8. QED
      BY <2>3, <2>6, <2>7
  <1> HIDE DEF m, js, x, left
  <1>9. net'[p] = x /\ net'[s] = net[s]
    BY <1>1, <1>2 DEF MsgInv
  <1> HIDE DEF p, q, o, c
  <1>10. Calm(peak[p], left, js, received[s], handle[s] = "closed", out[p], broken[p], net'[p])
    <2>1. ASSUME peak[p] < Chunk, peak[p] <= Capacity
          PROVE  /\ \A i \in DOMAIN received[s] : received[s][i] # Leftover
                 /\ out[p] = <<>> /\ broken[p] = {} /\ Whole(<<>>) /\ Len(<<>>) <= peak[p]
      <3>1. /\ \A i \in DOMAIN received[s] : received[s][i] # Leftover
            /\ out[p] = <<>> /\ broken[p] = {}
        BY <1>2, <1>3, <2>1, Zenon DEF Calm
      <3>2. Whole(<<>>)
        BY DEF Whole, Packed
      <3>3. Len(<<>>) <= peak[p]
        BY <1>2
      <3>4. QED
        BY <3>1, <3>2, <3>3
    <2>2. QED
      BY <1>8, <1>9, <2>1, Zenon DEF Calm
  <1>11. /\ UNCHANGED <<handle, peak>> /\ pc' = pc /\ reading' = reading
         /\ reading' \in [Sides -> BOOLEAN]
         /\ received' = [received EXCEPT ![s] = received[s]]
         /\ out' = [out EXCEPT ![s] = out[s]] /\ broken' = [broken EXCEPT ![s] = broken[s]]
         /\ net'[Peer(s)] \in Seq(Unit)
    BY <1>1, <1>2, <1>7, <1>9 DEF threadVars, p
  <1>12. /\ Calm(peak[s], readsLeft[Peer(s)], jobs[Peer(s)], received[Peer(s)],
                 handle[Peer(s)] = "closed", out[s], broken[s], net[s])
         /\ Calm(peak[Peer(s)], left, js, received[s], handle[s] = "closed", out[Peer(s)],
                 broken[Peer(s)], net'[Peer(s)])
    BY <1>2, <1>10 DEF p
  <1>13. QED
    BY <1>1, <1>6, <1>9, <1>11, <1>12, CalmStep

\* Only a side whose read filled its buffer is called with nothing.
LEMMA CalmReadNothing ==
  ASSUME WorkerInv, CalmInv, NEW s \in Sides, ReadNothing(s)
  PROVE  CalmInv'
  <1> DEFINE p == Peer(s)
             js == Append(jobs[s], MessageJob(Leftover))
  <1>1. /\ UNCHANGED threadVars
        /\ UNCHANGED <<handle, reading, out, broken, net, received, peak>>
        /\ readsLeft[s] > 0
        /\ jobs' = [jobs EXCEPT ![s] = js]
        /\ readsLeft' = [readsLeft EXCEPT ![s] = 0]
    BY DEF ReadNothing
  <1>2. /\ MsgInv
        /\ p \in Sides /\ p # s
        /\ readsLeft[s] \in 0..(MaxReads - 1)
        /\ readsLeft = [readsLeft EXCEPT ![s] = readsLeft[s]]
        /\ received = [received EXCEPT ![s] = received[s]]
        /\ out = [out EXCEPT ![s] = out[s]] /\ broken = [broken EXCEPT ![s] = broken[s]]
        /\ net[s] \in Seq(Unit) /\ net[p] \in Seq(Unit) /\ jobs[s] \in Seq(Job)
        /\ reading \in [Sides -> BOOLEAN]
        /\ Calm(peak[s], readsLeft[p], jobs[p], received[p],
                handle[p] = "closed", out[s], broken[s], net[s])
        /\ Calm(peak[p], readsLeft[s], jobs[s], received[s],
                handle[s] = "closed", out[p], broken[p], net[p])
    BY CalmFacts
  <1> HIDE DEF js
  <1>3. Calm(peak[p], 0, js, received[s], handle[s] = "closed", out[p], broken[p], net[p])
    <2>1. readsLeft[s] # 0
      BY <1>1, <1>2
    <2>2. QED
      BY <1>2, <2>1, Zenon DEF Calm
  <1>4. 0 \in 0..(MaxReads - 1)
    BY Constants
  <1>5. QED
    BY <1>1, <1>2, <1>3, <1>4, CalmStep DEF threadVars

\* The handler is called.
LEMMA CalmEmit ==
  ASSUME WorkerInv, CalmInv, NEW s \in Sides, EmitEvent(s)
  PROVE  CalmInv'
  <1> DEFINE p == Peer(s)
             o == jobs[s]
             r == received[s]
             js == Tail(o)
             rec == IF Head(o).kind = "message" THEN Append(r, Head(o).msg) ELSE r
  <1>1. /\ UNCHANGED threadVars
        /\ UNCHANGED <<handle, reading, readsLeft, out, broken, net, peak>>
        /\ o # <<>>
        /\ jobs' = [jobs EXCEPT ![s] = js]
    BY DEF EmitEvent, chanVars
  <1>2. /\ MsgInv
        /\ p \in Sides /\ p # s
        /\ readsLeft[s] \in 0..(MaxReads - 1)
        /\ readsLeft = [readsLeft EXCEPT ![s] = readsLeft[s]]
        /\ received = [received EXCEPT ![s] = received[s]]
        /\ out = [out EXCEPT ![s] = out[s]] /\ broken = [broken EXCEPT ![s] = broken[s]]
        /\ net[s] \in Seq(Unit) /\ net[p] \in Seq(Unit) /\ jobs[s] \in Seq(Job)
        /\ reading \in [Sides -> BOOLEAN]
        /\ Calm(peak[s], readsLeft[p], jobs[p], received[p],
                handle[p] = "closed", out[s], broken[s], net[s])
        /\ Calm(peak[p], readsLeft[s], jobs[s], received[s],
                handle[s] = "closed", out[p], broken[p], net[p])
    BY CalmFacts
  <1>3. received' = [received EXCEPT ![s] = rec]
    <2>1. received = [received EXCEPT ![s] = received[s]]
      BY <1>2
    <2>2. QED
      BY <2>1 DEF EmitEvent
  <1>4. r \in Seq(0..MaxPosts) /\ o \in Seq(Job)
    BY <1>2, SideFacts
  <1>5. ASSUME NoLeftover(o), \A i \in DOMAIN r : r[i] # Leftover
        PROVE  NoLeftover(js) /\ \A i \in DOMAIN rec : rec[i] # Leftover
    <2> HIDE DEF o, r
    <2>1. /\ 1 \in DOMAIN o /\ Head(o) = o[1]
          /\ \A i \in DOMAIN Tail(o) : i + 1 \in DOMAIN o /\ Tail(o)[i] = o[i + 1]
      BY <1>1, <1>4
    <2>2. NoLeftover(js)
      BY <1>5, <2>1 DEF NoLeftover
    <2>3. CASE Head(o).kind = "message"
      <3> DEFINE h == Head(o).msg
      <3>1. h # Leftover
        BY <1>5, <2>1, <2>3 DEF NoLeftover
      <3> HIDE DEF h
      <3>2. \A i \in DOMAIN Append(r, h) : Append(r, h)[i] = h \/ (i \in DOMAIN r /\ Append(r, h)[i] = r[i])
        BY <1>4
      <3>3. rec = Append(r, h)
        BY <2>3 DEF h
      <3>4. QED
        BY <1>5, <2>2, <3>1, <3>2, <3>3
    <2>4. CASE Head(o).kind # "message"
      BY <1>5, <2>2, <2>4
    <2>5. QED
      BY <2>3, <2>4
  <1> HIDE DEF js, rec
  <1>6. Calm(peak[p], readsLeft[s], js, rec, handle[s] = "closed", out[p], broken[p], net[p])
    <2>1. Calm(peak[p], readsLeft[s], o, r, handle[s] = "closed", out[p], broken[p], net[p])
      BY <1>2
    <2>2. QED
      BY <1>5, <2>1, Zenon DEF Calm
  <1>7. QED
    BY <1>1, <1>2, <1>3, <1>6, CalmStep DEF threadVars

\* The script is evaluated.
LEMMA CalmEval ==
  ASSUME WorkerInv, CalmInv, NEW ok \in BOOLEAN, WorkerEval(ok)
  PROVE  CalmInv'
  <1> DEFINE s == "worker"
             p == Peer(s)
             o == jobs[s]
             js == Tail(o)
  <1>0. s \in Sides
    BY DEF Sides
  <1>1. /\ pc' = pc
        /\ UNCHANGED <<handle, reading, readsLeft, out, broken, net, received, peak>>
        /\ o # <<>>
        /\ jobs' = [jobs EXCEPT ![s] = js]
    BY DEF WorkerEval, chanVars
  <1> HIDE DEF s
  <1>2. /\ MsgInv
        /\ p \in Sides /\ p # s
        /\ readsLeft[s] \in 0..(MaxReads - 1)
        /\ readsLeft = [readsLeft EXCEPT ![s] = readsLeft[s]]
        /\ received = [received EXCEPT ![s] = received[s]]
        /\ out = [out EXCEPT ![s] = out[s]] /\ broken = [broken EXCEPT ![s] = broken[s]]
        /\ net[s] \in Seq(Unit) /\ net[p] \in Seq(Unit) /\ jobs[s] \in Seq(Job)
        /\ reading \in [Sides -> BOOLEAN]
        /\ Calm(peak[s], readsLeft[p], jobs[p], received[p],
                handle[p] = "closed", out[s], broken[s], net[s])
        /\ Calm(peak[p], readsLeft[s], jobs[s], received[s],
                handle[s] = "closed", out[p], broken[p], net[p])
    BY <1>0, CalmFacts
  <1>3. NoLeftover(o) => NoLeftover(js)
    <2>1. o \in Seq(Job)
      BY <1>2
    <2> HIDE DEF o
    <2>2. \A i \in DOMAIN Tail(o) : i + 1 \in DOMAIN o /\ Tail(o)[i] = o[i + 1]
      BY <1>1, <2>1
    <2>3. QED
      BY <2>2 DEF NoLeftover
  <1> HIDE DEF js
  <1>4. Calm(peak[p], readsLeft[s], js, received[s], handle[s] = "closed", out[p], broken[p], net[p])
    <2>1. Calm(peak[p], readsLeft[s], o, received[s], handle[s] = "closed", out[p], broken[p], net[p])
      BY <1>2
    <2>2. QED
      BY <1>3, <2>1, Zenon DEF Calm
  <1>5. QED
    BY <1>0, <1>1, <1>2, <1>4, CalmStep

\* The next iteration of a loop
LEMMA CalmNextIteration ==
  ASSUME WorkerInv, CalmInv, NEW s \in Sides, NextIteration(s)
  PROVE  CalmInv'
  <1> DEFINE p == Peer(s)
  <1>1. /\ pc' = [pc EXCEPT ![s] = "poll"] /\ WriteCb(s, {}, jobs[s])
        /\ UNCHANGED <<handle, reading, readsLeft, out, net, received, peak>>
    BY DEF NextIteration
  <1>2. /\ MsgInv /\ IsFiniteSet({})
        /\ p \in Sides /\ p # s
        /\ readsLeft[s] \in 0..(MaxReads - 1)
        /\ readsLeft = [readsLeft EXCEPT ![s] = readsLeft[s]]
        /\ received = [received EXCEPT ![s] = received[s]]
        /\ out = [out EXCEPT ![s] = out[s]] /\ broken = [broken EXCEPT ![s] = broken[s]]
        /\ net[s] \in Seq(Unit) /\ net[p] \in Seq(Unit) /\ jobs[s] \in Seq(Job)
        /\ reading \in [Sides -> BOOLEAN]
        /\ Calm(peak[s], readsLeft[p], jobs[p], received[p],
                handle[p] = "closed", out[s], broken[s], net[s])
        /\ Calm(peak[p], readsLeft[s], jobs[s], received[s],
                handle[s] = "closed", out[p], broken[p], net[p])
    BY CalmFacts, FS_EmptySet
  <1>3. PICK ks : /\ jobs' = [jobs EXCEPT ![s] = ks] /\ broken' = [broken EXCEPT ![s] = {}]
                  /\ NoLeftover(jobs[s]) => NoLeftover(ks)
    BY <1>1, <1>2, CalmWriteCb
  <1>4. Calm(peak[s], readsLeft[p], jobs[p], received[p], handle[p] = "closed", out[s], {}, net[s])
    <2>1. Calm(peak[s], readsLeft[p], jobs[p], received[p], handle[p] = "closed", out[s], broken[s], net[s])
      BY <1>2
    <2>2. QED
      BY <2>1, Zenon DEF Calm
  <1>5. Calm(peak[p], readsLeft[s], ks, received[s], handle[s] = "closed", out[p], broken[p], net[p])
    <2>1. Calm(peak[p], readsLeft[s], jobs[s], received[s], handle[s] = "closed", out[p], broken[p], net[p])
      BY <1>2
    <2>2. QED
      BY <1>3, <2>1, Zenon DEF Calm
  <1>6. /\ pc'["worker"] = "none" => pc["worker"] = "none"
        /\ pc'["worker"] = "boot" => pc["worker"] = "boot"
    <2>1. pc \in [Sides -> PcValues] /\ "worker" \in Sides
      BY DEF WorkerInv, ThreadInv, ThreadTypes, Sides
    <2>2. QED
      BY <1>1, <2>1
  <1>7. QED
    BY <1>1, <1>2, <1>3, <1>4, <1>5, <1>6, CalmStep

\* The ends are opened.
LEMMA CalmConstruct ==
  ASSUME WorkerInv, CalmInv, Construct
  PROVE  CalmInv'
  <1>1. /\ pc["worker"] = "none" /\ pc' = [main |-> "construct", worker |-> "boot"]
        /\ handle' = [handle EXCEPT !["main"] = "open"]
        /\ reading' = [reading EXCEPT !["main"] = TRUE]
        /\ UNCHANGED <<readsLeft, out, broken, net>> /\ UNCHANGED <<jobs, received, peak>>
    BY DEF Construct, msgVars
  <1>2. handle["main"] = "none" /\ handle["worker"] = "none"
    BY <1>1 DEF CalmInv, EndInv
  <1>3. EndTypes /\ "main" \in Sides /\ "worker" \in Sides
    BY DEF WorkerInv, Sides
  <1>4. /\ handle'["main"] = "open" /\ handle'["worker"] = "none"
        /\ \A s \in Sides : handle'[s] = "closed" <=> handle[s] = "closed"
    BY <1>1, <1>2, <1>3 DEF EndTypes, Sides
  <1>5. EndInv'
    <2>1. \A s \in Sides : handle'[s] # "closed"
      BY <1>4 DEF Sides
    <2>2. pc'["worker"] = "boot"
      BY <1>1
    <2>3. QED
      BY <1>4, <2>1, <2>2 DEF EndInv
  <1>6. ASSUME NEW s \in Sides PROVE CalmSide(s)'
    <2>1. CalmSide(s) /\ Peer(s) \in Sides
      BY PeerFacts DEF CalmInv
    <2>2. handle'[Peer(s)] = "closed" <=> handle[Peer(s)] = "closed"
      BY <1>4, <2>1
    <2>3. QED
      BY <1>1, <2>1, <2>2 DEF CalmSide, Calm
  <1>7. QED
    BY <1>1, <1>5, <1>6 DEF CalmInv

LEMMA CalmBoot ==
  ASSUME WorkerInv, CalmInv, WorkerBoot
  PROVE  CalmInv'
  <1>1. /\ pc["worker"] = "boot" /\ pc' = [pc EXCEPT !["worker"] = "booted"]
        /\ handle' = [handle EXCEPT !["worker"] = "open"]
        /\ reading' = [reading EXCEPT !["worker"] = TRUE]
        /\ jobs' = [jobs EXCEPT !["worker"] = <<Eval>>]
        /\ UNCHANGED <<readsLeft, out, broken, net>> /\ UNCHANGED <<received, peak>>
    BY DEF WorkerBoot
  <1>2. handle["worker"] = "none"
    BY <1>1 DEF CalmInv, EndInv
  <1>3. /\ EndTypes /\ MsgInv /\ "main" \in Sides /\ "worker" \in Sides
        /\ pc \in [Sides -> PcValues]
        /\ Peer("main") = "worker" /\ Peer("worker") = "main"
    BY DEF WorkerInv, ThreadInv, ThreadTypes, Sides, Peer
  <1>4. /\ handle'["worker"] = "open" /\ handle'["main"] = handle["main"]
        /\ reading'["main"] = reading["main"]
        /\ jobs'["worker"] = <<Eval>> /\ jobs'["main"] = jobs["main"]
        /\ pc'["worker"] = "booted"
    BY <1>1, <1>3 DEF EndTypes, MsgInv
  <1>5. EndInv'
    BY <1>4 DEF EndInv, CalmInv, Sides
  <1>6. NoLeftover(<<Eval>>)
    <2>1. DOMAIN <<Eval>> = {1} /\ <<Eval>>[1] = Eval
      OBVIOUS
    <2>2. Eval.kind # "message"
      BY DEF Eval
    <2>3. QED
      BY <2>1, <2>2 DEF NoLeftover
  <1>7. CalmSide("main")'
    <2>1. Calm(peak["main"], readsLeft["worker"], jobs["worker"], received["worker"],
               handle["worker"] = "closed", out["main"], broken["main"], net["main"])
      BY <1>3 DEF CalmInv, CalmSide
    <2> DEFINE js == <<Eval>>
    <2> HIDE DEF js
    <2>2. Calm(peak["main"], readsLeft["worker"], js, received["worker"],
               FALSE, out["main"], broken["main"], net["main"])
      BY <1>2, <1>6, <2>1, Zenon DEF Calm, js
    <2>3. (handle'["worker"] = "closed") = FALSE
      BY <1>4
    <2>4. QED
      BY <1>1, <1>3, <1>4, <2>2, <2>3 DEF CalmSide, js
  <1>8. CalmSide("worker")'
    BY <1>1, <1>3, <1>4 DEF CalmInv, CalmSide
  <1>9. \A s \in Sides : CalmSide(s)'
    BY <1>7, <1>8 DEF Sides
  <1>10. QED
    BY <1>1, <1>5, <1>9 DEF CalmInv

\* An end is closed: side s reads no more, and what it has not sent is dropped
\* or stays.
LEMMA CalmClose ==
  ASSUME WorkerInv, CalmInv, NEW s \in Sides,
         pc'["worker"] \notin {"none", "boot"},
         handle' = [handle EXCEPT ![s] = "closed"], reading' = [reading EXCEPT ![s] = FALSE],
         UNCHANGED <<readsLeft, net, jobs, received, peak>>,
         \/ UNCHANGED <<out, broken>>
         \/ out' = [out EXCEPT ![s] = <<>>] /\ broken' = [broken EXCEPT ![s] = {}]
  PROVE  CalmInv'
  <1> DEFINE p == Peer(s)
  <1>1. /\ p \in Sides /\ p # s /\ Peer(p) = s /\ EndTypes /\ MsgInv
        /\ \A t \in Sides : t = s \/ t = p
    BY PeerFacts DEF WorkerInv
  <1>2. /\ handle'[s] = "closed" /\ handle'[p] = handle[p]
        /\ reading'[s] = FALSE /\ reading'[p] = reading[p]
        /\ out'[p] = out[p] /\ broken'[p] = broken[p]
        /\ \/ out'[s] = out[s] /\ broken'[s] = broken[s]
           \/ out'[s] = <<>> /\ broken'[s] = {}
    BY <1>1 DEF EndTypes, MsgInv
  <1>3. EndInv'
    <2>1. \A t \in Sides : handle'[t] = "closed" => ~reading'[t]
      BY <1>1, <1>2 DEF CalmInv, EndInv
    <2>2. QED
      BY <2>1 DEF EndInv
  <1>4. CalmSide(s)'
    <2>1. Calm(peak[s], readsLeft[p], jobs[p], received[p], handle[p] = "closed", out[s], broken[s], net[s])
      BY DEF CalmInv, CalmSide
    <2> HIDE DEF p
    <2>2. Calm(peak[s], readsLeft[p], jobs[p], received[p], handle[p] = "closed", out'[s], broken'[s], net[s])
      BY <1>2, <2>1, Zenon DEF Calm
    <2>3. QED
      BY <1>2, <2>2 DEF CalmSide, p
  <1>5. CalmSide(p)'
    <2>1. Calm(peak[p], readsLeft[s], jobs[s], received[s], handle[s] = "closed", out[p], broken[p], net[p])
      BY <1>1 DEF CalmInv, CalmSide
    <2> HIDE DEF p
    <2>2. Calm(peak[p], readsLeft[s], jobs[s], received[s], TRUE, out[p], broken[p], net[p])
      BY <2>1, Zenon DEF Calm
    <2>3. (handle'[s] = "closed") = TRUE
      BY <1>2
    <2>4. QED
      BY <1>1, <1>2, <2>2, <2>3 DEF CalmSide
  <1>6. \A t \in Sides : CalmSide(t)'
    BY <1>1, <1>4, <1>5
  <1>7. QED
    BY <1>3, <1>6 DEF CalmInv

LEMMA CalmLeaveLoop ==
  ASSUME WorkerInv, CalmInv, LeaveLoop
  PROVE  CalmInv'
  <1>1. /\ pc' = [pc EXCEPT !["worker"] = "free"]
        /\ handle' = [handle EXCEPT !["worker"] = "closed"]
        /\ reading' = [reading EXCEPT !["worker"] = FALSE]
        /\ UNCHANGED <<readsLeft, net, jobs, received, peak>> /\ UNCHANGED <<out, broken>>
    BY DEF LeaveLoop, msgVars
  <1>2. "worker" \in Sides /\ pc \in [Sides -> PcValues]
    BY DEF WorkerInv, ThreadInv, ThreadTypes, Sides
  <1>3. pc'["worker"] \notin {"none", "boot"}
    BY <1>1, <1>2
  <1>4. QED
    BY <1>1, <1>2, <1>3, CalmClose

LEMMA CalmFinalize ==
  ASSUME WorkerInv, CalmInv, Finalize
  PROVE  CalmInv'
  <1>1. /\ pc' = pc /\ handle["main"] = "open" /\ pc["main"] \in {"poll", "check"}
        /\ handle' = [handle EXCEPT !["main"] = "closed"]
        /\ reading' = [reading EXCEPT !["main"] = FALSE]
        /\ UNCHANGED <<readsLeft, net, jobs, received, peak>>
        /\ out' = [out EXCEPT !["main"] = <<>>] /\ broken' = [broken EXCEPT !["main"] = {}]
    BY DEF Finalize, msgVars, threadVars
  <1>2. "main" \in Sides
    BY DEF Sides
  <1>3. pc'["worker"] \notin {"none", "boot"}
    BY <1>1 DEF CalmInv, EndInv, WorkerInv, ThreadInv, StartInv
  <1>4. QED
    BY <1>1, <1>2, <1>3, CalmClose

\* A message that fits the socket with all that is unread is written at once.
LEMMA CalmPost ==
  ASSUME WorkerInv, CalmInv, NEW s \in Sides, NEW size \in Sizes, PostMessage(s, size)
  PROVE  CalmInv'
  <1> DEFINE p == Peer(s)
             n == Len(posted[s])
             m == n + 1
             u == Units(m, size)
             q == out[s] \o u
             unread == Len(net[s]) + Len(q)
             pk == IF unread > peak[s] THEN unread ELSE peak[s]
             shut == handle[p] = "closed"
  <1>1. /\ UNCHANGED threadVars /\ UNCHANGED <<handle, reading, readsLeft, jobs, received>>
        /\ n < MaxPosts
        /\ peak' = [peak EXCEPT ![s] = pk]
        /\ \/ ~shut /\ Write(s, q) /\ broken' = broken
           \/ /\ shut /\ net' = net
              /\ \E ot, br : out' = [out EXCEPT ![s] = ot] /\ broken' = [broken EXCEPT ![s] = br]
           \/ /\ ~(out[s] = <<>> /\ broken[s] = {})
              /\ out' = [out EXCEPT ![s] = q] /\ net' = net /\ broken' = broken
    BY PostBound DEF PostMessage, WriteFails
  <1>2. /\ MsgInv /\ p \in Sides /\ p # s /\ Peer(p) = s /\ \A t \in Sides : t = s \/ t = p
        /\ net[s] \in Seq(Unit) /\ out[s] \in Seq(Unit)
        /\ Len(net[s]) <= Capacity /\ n \in 0..MaxPosts
        /\ Chan(received[p], jobs[p], net[s], out[s], n)
    BY PeerFacts, SideFacts DEF WorkerInv
  <1>3. peak \in [Sides -> Nat] /\ peak[s] \in Nat /\ readsLeft \in [Sides -> 0..(MaxReads - 1)]
    BY DEF CalmInv
  <1>4. n \in Nat /\ m \in 1..MaxPosts /\ m \in Nat
    BY <1>1, <1>2, Constants
  <1>5. /\ UnitsUpTo(u, m) /\ Rising(u) /\ Packed(u) /\ Len(u) = size /\ u # <<>>
        /\ u[1] = [msg |-> m, part |-> 1, of |-> size]
        /\ u \in Seq(Unit) /\ size \in Nat /\ size > 0
    BY <1>4, NewUnits, Constants DEF UnitsUpTo
  <1>6. Chan(received[p], jobs[p], net[s], q, m)
    BY <1>1, <1>2, ChanPost
  <1> HIDE DEF u, m, n
  <1>7. /\ q \in Seq(Unit) /\ Len(q) \in Nat /\ Len(net[s]) \in Nat /\ unread \in Nat
        /\ Len(q) = Len(out[s]) + size
    <2> DEFINE a == out[s]
               w == Len(net[s])
    <2>1. a \in Seq(Unit) /\ u \in Seq(Unit) /\ Len(u) = size /\ w \in Nat
      BY <1>2, <1>5
    <2> HIDE DEF a, w
    <2>2. a \o u \in Seq(Unit) /\ Len(a \o u) = Len(a) + Len(u) /\ Len(a \o u) \in Nat
      BY <2>1, Join
    <2>3. w + Len(a \o u) \in Nat
      BY <2>1, <2>2
    <2>4. QED
      BY <2>1, <2>2, <2>3 DEF a, w
  <1>8. pk \in Nat /\ pk >= unread /\ pk >= peak[s]
    <2> HIDE DEF q, unread
    <2>1. QED
      BY <1>3, <1>7
  <1>9. /\ peak'[s] = pk /\ peak'[p] = peak[p] /\ peak' \in [Sides -> Nat]
    <2> HIDE DEF pk
    <2>1. QED
      BY <1>1, <1>2, <1>3, <1>8
  <1>10. \E ot, br, x : /\ out' = [out EXCEPT ![s] = ot] /\ broken' = [broken EXCEPT ![s] = br]
                        /\ net' = [net EXCEPT ![s] = x]
    <2>1. /\ net = [net EXCEPT ![s] = net[s]] /\ broken = [broken EXCEPT ![s] = broken[s]]
      BY <1>2, Same DEF MsgInv
    <2>2. CASE Write(s, q) /\ broken' = broken
      <3>1. /\ out' = [out EXCEPT ![s] = SubSeq(q, Min2(q[1].of - q[1].part + 1, Capacity - Len(net[s])) + 1, Len(q))]
            /\ net' = [net EXCEPT ![s] = net[s] \o SubSeq(q, 1, Min2(q[1].of - q[1].part + 1, Capacity - Len(net[s])))]
        BY <2>2 DEF Write
      <3> DEFINE ot == SubSeq(q, Min2(q[1].of - q[1].part + 1, Capacity - Len(net[s])) + 1, Len(q))
                 x == net[s] \o SubSeq(q, 1, Min2(q[1].of - q[1].part + 1, Capacity - Len(net[s])))
      <3>2. /\ out' = [out EXCEPT ![s] = ot] /\ net' = [net EXCEPT ![s] = x]
            /\ broken' = [broken EXCEPT ![s] = broken[s]]
        BY <2>1, <2>2, <3>1
      <3> HIDE DEF ot, x
      <3>3. QED
        BY <3>2
    <2>3. CASE net' = net /\ \E ot, br : out' = [out EXCEPT ![s] = ot] /\ broken' = [broken EXCEPT ![s] = br]
      <3>1. net' = [net EXCEPT ![s] = net[s]]
        BY <2>1, <2>3
      <3>2. PICK ot, br : out' = [out EXCEPT ![s] = ot] /\ broken' = [broken EXCEPT ![s] = br]
        BY <2>3
      <3> DEFINE x == net[s]
      <3>3. net' = [net EXCEPT ![s] = x]
        BY <3>1
      <3> HIDE DEF x
      <3>4. QED
        BY <3>2, <3>3
    <2>4. CASE out' = [out EXCEPT ![s] = q] /\ net' = net /\ broken' = broken
      BY <2>1, <2>4, Zenon
    <2>5. QED
      BY <1>1, <2>2, <2>3, <2>4
  <1>11. /\ out'[p] = out[p] /\ broken'[p] = broken[p] /\ net'[p] = net[p]
    BY <1>2, <1>10 DEF MsgInv
  <1>12. CalmSide(p)'
    BY <1>1, <1>2, <1>9, <1>11 DEF CalmInv, CalmSide
  <1>13. ASSUME pk < Chunk, pk <= Capacity
         PROVE  /\ readsLeft[p] = 0 /\ NoLeftover(jobs[p])
                /\ \A i \in DOMAIN received[p] : received[p][i] # Leftover
                /\ ~shut => out'[s] = <<>> /\ broken'[s] = {} /\ Whole(net'[s]) /\ Len(net'[s]) <= pk
    <2>1. peak[s] < Chunk /\ peak[s] <= Capacity
      <3> HIDE DEF pk
      <3>1. QED
        BY <1>3, <1>8, <1>13, Constants
    <2>2. Calm(peak[s], readsLeft[p], jobs[p], received[p], shut, out[s], broken[s], net[s])
      BY DEF CalmInv, CalmSide
    <2>3. /\ readsLeft[p] = 0 /\ NoLeftover(jobs[p])
          /\ \A i \in DOMAIN received[p] : received[p][i] # Leftover
          /\ ~shut => out[s] = <<>> /\ broken[s] = {} /\ Whole(net[s])
      BY <2>1, <2>2, Zenon DEF Calm
    <2>4. ASSUME ~shut
          PROVE  out'[s] = <<>> /\ broken'[s] = {} /\ Whole(net'[s]) /\ Len(net'[s]) <= pk
      <3>1. out[s] = <<>> /\ broken[s] = {} /\ Whole(net[s]) /\ Write(s, q) /\ broken' = broken
        BY <1>1, <2>3, <2>4
      <3>2. q = u /\ Len(q) = size
        <4>1. u \in Seq(Unit)
          BY <1>5
        <4>2. <<>> \o u = u
          BY <4>1
        <4>3. QED
          BY <1>5, <3>1, <4>2
      <3> DEFINE w == Len(net[s])
                 k == Min2(q[1].of - q[1].part + 1, Capacity - w)
      <3>3. q[1].of = size /\ q[1].part = 1
        BY <1>5, <3>2
      <3>4. w \in Nat /\ w + size <= Capacity
        <4>1. unread = w + size
          BY <3>2
        <4> HIDE DEF unread, w, pk
        <4>2. w \in Nat
          BY <1>7 DEF w
        <4>3. QED
          BY <1>5, <1>7, <1>8, <1>13, <4>1, <4>2, Constants
      <3>5. k = size
        <4> HIDE DEF w
        <4>1. size - 1 + 1 = size
          BY <1>5
        <4>2. k = Min2(size, Capacity - w)
          BY <3>3, <4>1
        <4>3. QED
          BY <1>5, <3>4, <4>2, Constants DEF Min2
      <3>6. /\ out' = [out EXCEPT ![s] = SubSeq(q, k + 1, Len(q))]
            /\ net' = [net EXCEPT ![s] = net[s] \o SubSeq(q, 1, k)]
        BY <3>1 DEF Write
      <3> HIDE DEF k, w
      <3>7. /\ SubSeq(q, size + 1, size) = <<>>
            /\ SubSeq(q, 1, size) = u
        <4> DEFINE b == SubSeq(u, size + 1, size)
                   a == SubSeq(u, 1, size)
        <4>1. /\ a \in Seq(Unit) /\ Len(a) = size /\ (\A i \in 1..size : a[i] = u[i])
              /\ b \in Seq(Unit) /\ Len(b) = size - size
          <5>1. size \in 0..Len(u)
            BY <1>5
          <5>2. QED
            BY <1>5, <5>1, Split
        <4> HIDE DEF a, b
        <4>2. a = u
          BY <1>5, <4>1
        <4>3. b = <<>>
          <5>1. Len(b) = 0
            BY <1>5, <4>1
          <5>2. QED
            BY <4>1, <5>1
        <4>4. QED
          BY <3>2, <4>2, <4>3 DEF a, b
      <3>8. out'[s] = <<>> /\ net'[s] = net[s] \o u
        <4>1. out' = [out EXCEPT ![s] = <<>>] /\ net' = [net EXCEPT ![s] = net[s] \o u]
          BY <3>2, <3>5, <3>6, <3>7
        <4>2. QED
          BY <1>2, <4>1 DEF MsgInv
      <3>9. /\ Len(net[s] \o u) = w + size
            /\ net[s] # <<>> => (net[s] \o u)[1] = net[s][1]
            /\ net[s] = <<>> => (net[s] \o u)[1] = u[1]
        <4> DEFINE a == net[s]
        <4>1. a \in Seq(Unit) /\ u \in Seq(Unit) /\ u # <<>> /\ Len(u) = size
          BY <1>2, <1>5
        <4> HIDE DEF a
        <4>2. /\ Len(a \o u) = Len(a) + size
              /\ a # <<>> => (a \o u)[1] = a[1]
              /\ a = <<>> => (a \o u)[1] = u[1]
          BY <4>1
        <4>3. QED
          BY <4>2 DEF a, w
      <3>10. Packed(net[s] \o u)
        <4>1. /\ UnitsUpTo(net[s], m) /\ Rising(net[s]) /\ Below(Starts(net[s]), Starts(u))
          BY <1>6, <3>2 DEF Chan
        <4>2. Packed(net[s])
          BY <3>1 DEF Whole
        <4>3. QED
          BY <1>4, <1>5, <4>1, <4>2, JoinUnits
      <3>11. Whole(net'[s])
        <4>1. u[1].part = 1
          BY <1>5
        <4>2. QED
          BY <3>1, <3>8, <3>9, <3>10, <4>1 DEF Whole
      <3>12. Len(net'[s]) <= pk
        <4>1. Len(net'[s]) = unread
          BY <3>2, <3>8, <3>9 DEF w
        <4> HIDE DEF unread, pk
        <4>2. QED
          BY <1>7, <1>8, <4>1
      <3>13. QED
        BY <3>1, <3>8, <3>11, <3>12
    <2>5. QED
      BY <2>3, <2>4
  <1>14. CalmSide(s)'
    <2>1. Calm(pk, readsLeft[p], jobs[p], received[p], shut, out'[s], broken'[s], net'[s])
      <3> HIDE DEF pk, p, shut
      <3>1. QED
        BY <1>13, Zenon DEF Calm
    <2>2. QED
      BY <1>1, <1>9, <2>1 DEF CalmSide
  <1>15. EndInv'
    BY <1>1 DEF CalmInv, EndInv, threadVars
  <1>16. \A t \in Sides : CalmSide(t)'
    BY <1>2, <1>12, <1>14
  <1>17. QED
    BY <1>1, <1>3, <1>9, <1>15, <1>16 DEF CalmInv

LEMMA CalmInit ==
  ASSUME Init
  PROVE  CalmInv
  <1>1. /\ readsLeft = [s \in Sides |-> 0] /\ peak = [s \in Sides |-> 0]
        /\ handle = [s \in Sides |-> "none"]
        /\ out = [s \in Sides |-> <<>>] /\ broken = [s \in Sides |-> {}]
        /\ net = [s \in Sides |-> <<>>] /\ jobs = [s \in Sides |-> <<>>]
        /\ received = [s \in Sides |-> <<>>]
    BY DEF Init
  <1>2. EndInv
    BY <1>1 DEF EndInv, Sides
  <1>3. Calm(0, 0, <<>>, <<>>, FALSE, <<>>, {}, <<>>)
    BY DEF Calm, NoLeftover, Whole, Packed
  <1>4. ASSUME NEW s \in Sides PROVE CalmSide(s)
    <2>1. Peer(s) \in Sides
      BY PeerFacts
    <2>2. (handle[Peer(s)] = "closed") = FALSE
      BY <1>1, <2>1
    <2>3. QED
      BY <1>1, <1>3, <2>1, <2>2 DEF CalmSide
  <1>5. 0 \in 0..(MaxReads - 1)
    BY Constants
  <1>6. QED
    BY <1>1, <1>2, <1>4, <1>5 DEF CalmInv

\* Steps of the threads that leave the channel alone
LEMMA CalmThreads ==
  ASSUME WorkerInv, CalmInv,
         \/ WorkerPost \/ Constructed \/ StopCb \/ FreeRuntime \/ Terminate \/ Joined \/ Drop
         \/ FinalizeInRead \/ Exit \/ UNCHANGED vars
         \/ \E s \in Sides : Poll(s)
  PROVE  CalmInv'
  <1>1. UNCHANGED <<chanVars, msgVars>>
    BY DEF WorkerPost, Constructed, StopCb, FreeRuntime, Terminate, Joined, Drop, FinalizeInRead, Exit,
           vars, Poll
  <1>2. pc \in [Sides -> PcValues] /\ "main" \in Sides /\ "worker" \in Sides
    BY DEF WorkerInv, ThreadInv, ThreadTypes, Sides
  <1>3. \/ pc' = pc
        \/ pc' = [pc EXCEPT !["worker"] = "poll"] \/ pc' = [pc EXCEPT !["worker"] = "ended"]
        \/ \E v : pc' = [pc EXCEPT !["main"] = v]
        \/ \E s \in Sides : pc' = [pc EXCEPT ![s] = "check"]
    BY DEF WorkerPost, Constructed, StopCb, FreeRuntime, Terminate, Joined, Drop, FinalizeInRead, Exit,
           vars, threadVars, Poll
  <1>4. pc'["worker"] = pc["worker"] \/ pc'["worker"] \in {"poll", "ended", "check"}
    BY <1>2, <1>3
  <1>5. QED
    BY <1>1, <1>4, CalmKeep

LEMMA CalmNext ==
  ASSUME WorkerInv, CalmInv, [Next]_vars
  PROVE  CalmInv'
  <1>1. "main" \in Sides /\ "worker" \in Sides
    BY DEF Sides
  <1>2. CASE MainThread
    BY <1>1, <1>2, CalmThreads, CalmNextIteration, CalmRead, CalmReadNothing, CalmReadEnd,
       CalmWritable, CalmEmit DEF MainThread
  <1>3. CASE WorkerThread
    BY <1>1, <1>3, CalmThreads, CalmBoot, CalmLeaveLoop, CalmEval, CalmNextIteration, CalmRead,
       CalmReadNothing, CalmReadEnd, CalmWritable, CalmEmit DEF WorkerThread
  <1>4. CASE Program
    BY <1>4, CalmConstruct, CalmThreads, CalmFinalize, CalmPost DEF Program
  <1>5. CASE Stopped \/ UNCHANGED vars
    BY <1>5, CalmThreads DEF Stopped
  <1>6. QED
    BY <1>2, <1>3, <1>4, <1>5 DEF Next

\* While what is unread stays below the buffer and the socket, each read takes
\* whole messages and leaves nothing.
THEOREM WorkerCalm == Spec => []CalmInv
  <1>1. Init => CalmInv
    BY CalmInit
  <1>2. WorkerInv /\ CalmInv /\ [Next]_vars => CalmInv'
    BY CalmNext
  <1>3. QED
    BY <1>1, <1>2, WorkerInvariance, PTL DEF Spec

-----------------------------------------------------------------------------
(***************************************************************************)
(* What follows from both                                                  *)
(***************************************************************************)

\* The thread uses the constructor's frame only while the constructor waits,
\* w->wrt dangles only after the script failed or while terminate() waits, and
\* each use of freed memory has its named cause.
THEOREM WorkerSafety == Spec => []Inv
  <1>1. ASSUME WorkerInv, CalmInv PROVE Inv
    <2>1. ThreadInv /\ EndTypes /\ MsgInv /\ FaultCause
      BY <1>1 DEF WorkerInv
    <2>2. \A s \in Sides : (pollout[s] => out[s] # <<>>) /\ Len(net[s]) <= Capacity
      BY <2>1, SideFacts
    <2>3. TypeOK
      <3>1. {wdWrt, ptr, stopSent, stopFlag, held, failed} \subseteq BOOLEAN
        BY <2>1 DEF ThreadInv, ThreadTypes
      <3>2. readsLeft \in [Sides -> 0..(MaxReads - 1)] /\ peak \in [Sides -> Nat]
        BY <1>1 DEF CalmInv
      <3>3. QED
        BY <2>1, <2>2, <3>1, <3>2 DEF TypeOK, ThreadInv, ThreadTypes, EndTypes, MsgInv
    <2>4. HandshakeScoped
      BY <2>1 DEF HandshakeScoped, ThreadInv, StartInv, NotStarted
    <2>5. DanglingCause
      BY <2>1 DEF DanglingCause, ThreadInv, StopInv
    <2>6. QED
      BY <2>1, <2>3, <2>4, <2>5 DEF Inv
  <1>2. QED
    BY <1>1, WorkerInvariance, WorkerCalm, PTL

\* ijWorkerPostMessage, libuv's queue and uvReadCb, however the socket splits and
\* joins the messages: what the reads bring comes in the order of the posts, none
\* of it twice, and the handler gets what uvReadCb decoded from memory that no
\* read filled only if the unread messages once filled a read or passed what the
\* socket holds.
THEOREM WorkerInOrder == Spec => []InOrder
  <1>1. ASSUME WorkerInv, CalmInv PROVE InOrder
    <2>1. ASSUME NEW s \in Sides
          PROVE  /\ RisingGot(received[s])
                 /\ \A i \in DOMAIN received[s] :
                      received[s][i] = Leftover => peak[Peer(s)] >= Chunk \/ peak[Peer(s)] > Capacity
      <3>1. MsgInv /\ Peer(s) \in Sides /\ Peer(Peer(s)) = s
        BY <1>1, PeerFacts DEF WorkerInv
      <3>2. Chan(received[s], jobs[s], net[Peer(s)], out[Peer(s)], Len(posted[Peer(s)]))
        BY <3>1, SideFacts
      <3>3. /\ CalmSide(Peer(s)) /\ peak[Peer(s)] \in Nat
        BY <1>1, <3>1 DEF CalmInv
      <3>4. peak[Peer(s)] < Chunk /\ peak[Peer(s)] <= Capacity =>
              \A i \in DOMAIN received[s] : received[s][i] # Leftover
        BY <3>1, <3>3 DEF CalmSide, Calm
      <3>5. \/ peak[Peer(s)] < Chunk /\ peak[Peer(s)] <= Capacity
            \/ peak[Peer(s)] >= Chunk \/ peak[Peer(s)] > Capacity
        BY <3>3, Constants
      <3>6. QED
        BY <3>2, <3>4, <3>5 DEF Chan
    <2>2. QED
      BY <2>1 DEF InOrder, RisingGot
  <1>2. QED
    BY <1>1, WorkerInvariance, WorkerCalm, PTL
=============================================================================
