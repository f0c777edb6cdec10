---------------------------- MODULE StreamProofs ----------------------------
(***************************************************************************)
(* Proofs about Stream: its invariants hold, and it implements             *)
(* HandleLifetime, for any number of calls, sizes of writes and            *)
(* connections, and whether or not the runtime is freed.                   *)
(***************************************************************************)
EXTENDS Stream, FiniteSetTheorems, TLAPS

-----------------------------------------------------------------------------
(***************************************************************************)
(* Queues of requests, whose field op is the number of their call          *)
(***************************************************************************)

\* The calls that have a request in queue q
Ids(q) == {q[i].op : i \in DOMAIN q}

\* The requests are in the order of the calls, and no call has two.
Ordered(q) == \A i, j \in DOMAIN q : i < j => q[i].op < q[j].op

\* How often p occurs in s
Count(s, p) == Cardinality({i \in DOMAIN s : s[i] = p})

\* The values that occur in s, and that they do not decrease
Values(s) == {s[i] : i \in DOMAIN s}

Sorted(s) == \A i, j \in DOMAIN s : i < j => s[i] <= s[j]

\* p, n times
Repeat(p, n) == [i \in 1..n |-> p]

\* An empty queue has no requests.
LEMMA EmptyQueue == Ids(<<>>) = {} /\ Ordered(<<>>) /\ Values(<<>>) = {}
  BY DEF Ids, Ordered, Values

\* The calls of a queue are those of its entries.
LEMMA IdsOfValues ==
  ASSUME NEW q, NEW w \in Values(q)
  PROVE  w.op \in Ids(q)
  BY DEF Ids, Values

\* The empty queue is of any type.
LEMMA EmptyIsSeq ==
  ASSUME NEW S
  PROVE  <<>> \in Seq(S)
  OBVIOUS

\* The elements of a sequence over S are in S.
LEMMA Elements ==
  ASSUME NEW S, NEW q \in Seq(S)
  PROVE  \A i \in DOMAIN q : q[i] \in S
  OBVIOUS

\* Append adds one request, which comes last.
LEMMA AppendQueue ==
  ASSUME NEW S, NEW q \in Seq(S), NEW e \in S
  PROVE  /\ Append(q, e) \in Seq(S)
         /\ Ids(Append(q, e)) = Ids(q) \cup {e.op}
         /\ Values(Append(q, e)) = Values(q) \cup {e}
         /\ Ordered(q) /\ (\A p \in Ids(q) : p < e.op) => Ordered(Append(q, e))
  <1> DEFINE a == Append(q, e)
  <1>1. /\ a \in Seq(S)
        /\ Len(a) = Len(q) + 1
        /\ DOMAIN a = 1..(Len(q) + 1)
        /\ DOMAIN q = 1..Len(q)
        /\ Len(q) \in Nat
        /\ \A i \in 1..Len(q) : a[i] = q[i]
        /\ a[Len(q) + 1] = e
    OBVIOUS
  <1> HIDE DEF a
  <1>2. Ids(a) = Ids(q) \cup {e.op}
    <2>1. ASSUME NEW i \in DOMAIN a
          PROVE  a[i].op \in Ids(q) \cup {e.op}
      <3>1. i \in 1..Len(q) \/ i = Len(q) + 1
        BY <1>1
      <3>2. QED
        BY <1>1, <3>1 DEF Ids
    <2>2. ASSUME NEW i \in DOMAIN q
          PROVE  q[i].op \in Ids(a)
      <3>1. i \in DOMAIN a /\ a[i] = q[i]
        BY <1>1
      <3>2. QED
        BY <3>1 DEF Ids
    <2>3. e.op \in Ids(a)
      <3>1. Len(q) + 1 \in DOMAIN a /\ a[Len(q) + 1] = e
        BY <1>1
      <3>2. QED
        BY <3>1 DEF Ids
    <2>4. QED
      BY <2>1, <2>2, <2>3 DEF Ids
  <1>3. ASSUME Ordered(q), \A p \in Ids(q) : p < e.op
        PROVE  Ordered(a)
    <2>1. \A i \in DOMAIN q : q[i].op < e.op
      BY <1>3 DEF Ids
    <2>2. QED
      BY <1>1, <1>3, <2>1 DEF Ordered
  <1>4. Values(a) = Values(q) \cup {e}
    <2>1. DOMAIN q \subseteq DOMAIN a /\ Len(q) + 1 \in DOMAIN a
      BY <1>1
    <2>2. \A i \in DOMAIN a : i \in DOMAIN q \/ i = Len(q) + 1
      BY <1>1
    <2>3. \A i \in DOMAIN q : a[i] = q[i]
      BY <1>1
    <2>4. a[Len(q) + 1] = e
      BY <1>1
    <2>5. QED
      BY <2>1, <2>2, <2>3, <2>4 DEF Values
  <1>5. QED
    BY <1>1, <1>2, <1>3, <1>4 DEF a

\* The head is the first request and the tail has the others.
LEMMA TailQueue ==
  ASSUME NEW S, NEW q \in Seq(S), q # <<>>
  PROVE  /\ Head(q) \in S
         /\ Tail(q) \in Seq(S)
         /\ Ids(q) = Ids(Tail(q)) \cup {Head(q).op}
         /\ Head(q) \in Values(q)
         /\ Values(Tail(q)) \subseteq Values(q)
         /\ Ordered(q) => Ordered(Tail(q)) /\ \A p \in Ids(Tail(q)) : Head(q).op < p
  <1> DEFINE t == Tail(q)
  <1>1. /\ Len(q) \in Nat \ {0}
        /\ DOMAIN q = 1..Len(q)
        /\ t \in Seq(S)
        /\ DOMAIN t = 1..(Len(q) - 1)
        /\ \A i \in DOMAIN t : t[i] = q[i + 1]
        /\ Head(q) = q[1]
        /\ 1 \in DOMAIN q
    OBVIOUS
  <1>2. Head(q) \in S
    OBVIOUS
  <1> HIDE DEF t
  <1>3. Ids(q) = Ids(t) \cup {Head(q).op}
    <2>1. ASSUME NEW i \in DOMAIN q
          PROVE  q[i].op \in Ids(t) \cup {Head(q).op}
      <3>1. CASE i = 1
        BY <1>1, <3>1
      <3>2. CASE i # 1
        <4>1. i - 1 \in DOMAIN t /\ t[i - 1] = q[i]
          BY <1>1, <3>2
        <4>2. QED
          BY <4>1 DEF Ids
      <3>3. QED
        BY <3>1, <3>2
    <2>2. ASSUME NEW i \in DOMAIN t
          PROVE  t[i].op \in Ids(q)
      <3>1. i + 1 \in DOMAIN q /\ t[i] = q[i + 1]
        BY <1>1
      <3>2. QED
        BY <3>1 DEF Ids
    <2>3. Head(q).op \in Ids(q)
      BY <1>1 DEF Ids
    <2>4. QED
      BY <2>1, <2>2, <2>3 DEF Ids
  <1>4. ASSUME Ordered(q)
        PROVE  Ordered(t) /\ \A p \in Ids(t) : Head(q).op < p
    <2>1. Ordered(t)
      <3>1. SUFFICES ASSUME NEW i \in DOMAIN t, NEW j \in DOMAIN t, i < j
                     PROVE  t[i].op < t[j].op
        BY DEF Ordered
      <3>2. /\ i + 1 \in DOMAIN q /\ j + 1 \in DOMAIN q
            /\ i + 1 < j + 1
        BY <1>1, <3>1
      <3>3. q[i + 1].op < q[j + 1].op
        BY <1>4, <3>2 DEF Ordered
      <3>4. QED
        BY <1>1, <3>3
    <2>2. \A i \in DOMAIN t : Head(q).op < t[i].op
      BY <1>1, <1>4 DEF Ordered
    <2>3. QED
      BY <2>1, <2>2 DEF Ids
  <1>5. Head(q) \in Values(q)
    BY <1>1 DEF Values
  <1>6. Values(t) \subseteq Values(q)
    <2>1. \A i \in DOMAIN t : i + 1 \in DOMAIN q
      BY <1>1
    <2>2. QED
      BY <1>1, <2>1 DEF Values
  <1>7. QED
    BY <1>1, <1>2, <1>3, <1>4, <1>5, <1>6 DEF t

\* A new head for the same call changes neither the calls nor their order.
LEMMA NewHead ==
  ASSUME NEW S, NEW q \in Seq(S), q # <<>>, NEW e \in S, e.op = Head(q).op
  PROVE  /\ <<e>> \o Tail(q) \in Seq(S)
         /\ <<e>> \o Tail(q) # <<>>
         /\ Head(<<e>> \o Tail(q)) = e
         /\ Tail(<<e>> \o Tail(q)) = Tail(q)
         /\ Ids(<<e>> \o Tail(q)) = Ids(q)
         /\ Values(<<e>> \o Tail(q)) \subseteq Values(Tail(q)) \cup {e}
         /\ Ordered(q) => Ordered(<<e>> \o Tail(q))
  <1> DEFINE n == <<e>> \o Tail(q)
  <1>1. /\ Len(q) \in Nat \ {0}
        /\ DOMAIN q = 1..Len(q)
        /\ n \in Seq(S)
        /\ DOMAIN n = 1..Len(q)
        /\ n[1] = e
        /\ \A i \in 2..Len(q) : n[i] = q[i]
        /\ Head(q) = q[1]
    OBVIOUS
  <1>2. n # <<>> /\ Head(n) = e /\ Tail(n) = Tail(q)
    OBVIOUS
  <1> HIDE DEF n
  <1>3. \A i \in DOMAIN q : n[i].op = q[i].op
    <2>1. SUFFICES ASSUME NEW i \in DOMAIN q
                   PROVE  n[i].op = q[i].op
      OBVIOUS
    <2>2. i = 1 \/ i \in 2..Len(q)
      BY <1>1
    <2>3. QED
      BY <1>1, <2>2
  <1>4. DOMAIN n = DOMAIN q
    BY <1>1
  <1>5. Ids(n) = Ids(q)
    BY <1>3, <1>4 DEF Ids
  <1>6. Ordered(q) => Ordered(n)
    BY <1>3, <1>4 DEF Ordered
  <1>7. Values(n) \subseteq Values(Tail(q)) \cup {e}
    <2>1. SUFFICES ASSUME NEW i \in DOMAIN n
                   PROVE  n[i] \in Values(Tail(q)) \cup {e}
      BY DEF Values
    <2>2. CASE i = 1
      BY <1>1, <2>2
    <2>3. CASE i # 1
      <3>1. i - 1 \in DOMAIN Tail(q) /\ Tail(q)[i - 1] = q[i] /\ n[i] = q[i]
        BY <1>1, <2>3
      <3>2. QED
        BY <3>1 DEF Values
    <2>4. QED
      BY <2>2, <2>3
  <1>8. QED
    BY <1>1, <1>2, <1>5, <1>6, <1>7 DEF n

\* A value that is repeated n times is a sequence of length n.
LEMMA RepeatSeq ==
  ASSUME NEW S, NEW n \in Nat, NEW p, n > 0 => p \in S
  PROVE  /\ Repeat(p, n) \in Seq(S)
         /\ Len(Repeat(p, n)) = n
         /\ \A i \in 1..n : Repeat(p, n)[i] = p
  BY DEF Repeat

\* Behind a sorted sequence, n times a value that is not below its values
LEMMA ExtendSorted ==
  ASSUME NEW S, S \subseteq Nat, NEW s \in Seq(S), NEW n \in Nat, NEW p \in S,
         Sorted(s), \A v \in Values(s) : v <= p
  PROVE  /\ s \o Repeat(p, n) \in Seq(S)
         /\ Sorted(s \o Repeat(p, n))
         /\ Values(s \o Repeat(p, n)) \subseteq Values(s) \cup {p}
  <1> DEFINE r == s \o Repeat(p, n)
  <1>1. /\ Repeat(p, n) \in Seq(S)
        /\ Len(Repeat(p, n)) = n
        /\ \A i \in 1..n : Repeat(p, n)[i] = p
    BY RepeatSeq
  <1>2. /\ r \in Seq(S)
        /\ DOMAIN r = 1..(Len(s) + n)
        /\ \A i \in DOMAIN s : r[i] = s[i]
        /\ \A i \in (Len(s) + 1)..(Len(s) + n) : r[i] = p
    BY <1>1
  <1>3. Len(s) \in Nat /\ DOMAIN s = 1..Len(s) /\ \A i \in DOMAIN s : s[i] \in Nat /\ s[i] <= p
    <2>1. \A i \in DOMAIN s : s[i] \in S
      BY Elements
    <2>2. \A i \in DOMAIN s : s[i] \in Values(s)
      BY DEF Values
    <2>3. Len(s) \in Nat /\ DOMAIN s = 1..Len(s)
      OBVIOUS
    <2>4. QED
      BY <2>1, <2>2, <2>3
  <1> HIDE DEF r
  <1>4. \A i \in DOMAIN r : i \in DOMAIN s \/ i \in (Len(s) + 1)..(Len(s) + n)
    BY <1>2, <1>3
  <1>5. ASSUME NEW i \in DOMAIN r, NEW j \in DOMAIN r, i < j
        PROVE  r[i] <= r[j]
    <2>1. CASE j \in DOMAIN s
      <3>1. i \in DOMAIN s
        BY <1>2, <1>3, <1>5, <2>1
      <3>2. QED
        BY <1>2, <1>5, <2>1, <3>1 DEF Sorted
    <2>2. CASE j \in (Len(s) + 1)..(Len(s) + n)
      BY <1>2, <1>3, <1>4, <2>2
    <2>3. QED
      BY <1>4, <2>1, <2>2
  <1>6. Values(r) \subseteq Values(s) \cup {p}
    BY <1>2, <1>4 DEF Values
  <1>7. QED
    BY <1>2, <1>5, <1>6 DEF r, Sorted

\* How often a value occurs is a number.
LEMMA CountNat ==
  ASSUME NEW S, NEW s \in Seq(S), NEW x
  PROVE  Count(s, x) \in Nat
  <1>1. Len(s) \in Nat /\ DOMAIN s = 1..Len(s)
    OBVIOUS
  <1>2. IsFiniteSet(1..Len(s))
    BY <1>1, FS_Interval
  <1>3. {i \in DOMAIN s : s[i] = x} \subseteq 1..Len(s)
    BY <1>1
  <1>4. QED
    BY <1>2, <1>3, FS_Subset, FS_CardinalityType DEF Count

\* It counts n more occurrences of that value and leaves the others.
LEMMA CountRepeat ==
  ASSUME NEW S, NEW s \in Seq(S), NEW n \in Nat, NEW p, n > 0 => p \in S, NEW x
  PROVE  /\ Count(s, x) \in Nat
         /\ Count(s \o Repeat(p, n), x) = Count(s, x) + (IF x = p THEN n ELSE 0)
  <1> DEFINE r == s \o Repeat(p, n)
             A == {i \in DOMAIN s : s[i] = x}
             B == (Len(s) + 1)..(Len(s) + n)
             R == {i \in DOMAIN r : r[i] = x}
  <1>1. /\ DOMAIN r = 1..(Len(s) + n)
        /\ \A i \in DOMAIN s : r[i] = s[i]
        /\ \A i \in B : r[i] = p
    <2>1. /\ Repeat(p, n) \in Seq(S)
          /\ Len(Repeat(p, n)) = n
          /\ \A i \in 1..n : Repeat(p, n)[i] = p
      BY RepeatSeq
    <2>2. QED
      BY <2>1
  <1>2. Len(s) \in Nat /\ DOMAIN s = 1..Len(s)
    OBVIOUS
  <1>c. Count(s, x) = Cardinality(A) /\ Count(r, x) = Cardinality(R)
    BY DEF Count
  <1> HIDE DEF r
  <1>3. IsFiniteSet(A) /\ Cardinality(A) \in Nat
    <2>1. IsFiniteSet(1..Len(s))
      BY <1>2, FS_Interval
    <2>2. A \subseteq 1..Len(s)
      BY <1>2
    <2>3. QED
      BY <2>1, <2>2, FS_Subset, FS_CardinalityType
  <1>4. IsFiniteSet(B) /\ Cardinality(B) = n
    BY <1>2, FS_Interval
  <1>5. A \cap B = {}
    BY <1>2
  <1>6. Cardinality(A \cup B) = Cardinality(A) + n
    <2> HIDE DEF A, B
    <2>1. Cardinality(A \cap B) = 0
      BY <1>5, FS_EmptySet
    <2>2. Cardinality(A \cup B) = Cardinality(A) + Cardinality(B) - Cardinality(A \cap B)
      BY <1>3, <1>4, FS_Union
    <2>3. QED
      BY <1>3, <1>4, <2>1, <2>2
  <1>7. x = p => R = A \cup B
    BY <1>1, <1>2
  <1>8. x # p => R = A
    BY <1>1, <1>2
  <1>9. Count(r, x) = Count(s, x) + (IF x = p THEN n ELSE 0)
    <2> HIDE DEF A, B, R
    <2>1. CASE x = p
      BY <1>c, <1>6, <1>7, <2>1
    <2>2. CASE x # p
      BY <1>c, <1>3, <1>8, <2>2
    <2>3. QED
      BY <2>1, <2>2
  <1>10. QED
    BY <1>c, <1>3, <1>9 DEF r

-----------------------------------------------------------------------------
(***************************************************************************)
(* The inductive invariant                                                 *)
(***************************************************************************)

\* The struct lives as long as one of its two owners does. While the context
\* lives, what the program holds is not finalized.
LifeInv ==
  /\ mem = "freed" <=> closed /\ finalized
  /\ closed <=> uv = "closed"
  /\ ctx = "live" /\ finalized => ~held

\* A handle that was closed, and was not used again, is watched no more, and
\* when its close callback was called it has no requests.
ClosedInv ==
  ~reused =>
    /\ uv # "open" => mode = "none" /\ ~pollin /\ ~pollout /\ ~fed /\ ~reading
    /\ uv = "closed" => connectReq = None /\ shutReq = None /\ writeq = <<>> /\ doneq = <<>>

Pending == {p \in Ops : prom[p] = "pending"}

\* A pending promise has one owner: no two of the slots, the connect and the
\* shutdown request and the entries of the two queues are for the same call.
OwnInv ==
  /\ Pending = Slots \cup Requests
  /\ Slots \cap Requests = {}
  /\ readSlot # None => readSlot # acceptSlot
  /\ connectReq # None => connectReq # shutReq
  /\ connectReq \notin Ids(writeq) \cup Ids(doneq)
  /\ shutReq \notin Ids(writeq) \cup Ids(doneq)
  /\ Ids(writeq) \cap Ids(doneq) = {}

\* The calls that were not made have no promise and no bytes.
FreshInv == \A p \in Ops : p > ops => prom[p] = "none" /\ size[p] = 0

\* Writes are queued in the order of their calls, and only those that failed
\* wait for their callback outside of the queue.
QueueInv ==
  /\ Ordered(writeq)
  /\ \A i \in DOMAIN doneq : ~doneq[i].ok

\* What is read into is a connection: ReadIsServed, and listen() cannot take
\* the handle from the read.
ReadInv == readSlot # None /\ uv = "open" => Connects /\ reading /\ pollin

\* The bytes on the wire are in the order of the calls, and none is of a call
\* behind one that is queued.
SortedInv ==
  /\ Sorted(wire)
  /\ \A v \in Values(wire) : v <= ops
  /\ \A v \in Values(wire), p \in Ids(writeq) : v <= p

\* What a queued write has left is what is not on the wire; a call that is not
\* a write has nothing to send.
BytesInv ==
  /\ \A w \in Values(writeq) : Count(wire, w.op) + w.left = size[w.op]
  /\ \A p \in Ops : Count(wire, p) <= size[p]
  /\ \A p \in Ops : prom[p] = "resolved" => Count(wire, p) = size[p]
  /\ \A p \in Ops : p \in Slots \cup {connectReq, shutReq} => size[p] = 0

StreamInv ==
  /\ TypeOK
  /\ backlog <= conns
  /\ LifeInv
  /\ ClosedInv
  /\ OwnInv
  /\ FreshInv
  /\ QueueInv
  /\ ReadInv
  /\ SortedInv
  /\ BytesInv

-----------------------------------------------------------------------------
(***************************************************************************)
(* Types                                                                   *)
(***************************************************************************)

\* The conjuncts of TypeOK, apart
Flags == {closed, finalized, held, shut, reading, pollin, pollout, fed, accepted,
          reset, reused} \subseteq BOOLEAN

Owners == {readSlot, acceptSlot, connectReq, shutReq} \subseteq Ops \cup {None}

WriteReqs == [op : Ops, left : Nat \ {0}]

DoneReqs == [op : Ops, ok : BOOLEAN]

Queues == writeq \in Seq(WriteReqs) /\ doneq \in Seq(DoneReqs)

Promises == prom \in [Ops -> {"none", "pending", "resolved", "rejected", "dropped"}]

Net ==
  /\ backlog \in 0..MaxConns
  /\ conns \in 0..MaxConns
  /\ backlog <= conns
  /\ room \in 0..Room
  /\ ops \in 0..MaxOps

Wires ==
  /\ size \in [Ops -> Sizes \cup {0}]
  /\ wire \in Seq(Ops)

States ==
  /\ ctx \in {"live", "freed"}
  /\ mem \in {"live", "freed"}
  /\ uv \in {"open", "closing", "closed"}
  /\ mode \in Modes
  /\ fault \in {"none", "freedContext", "freedHandle", "unclosed"}

LEMMA TypeParts ==
  TypeOK /\ backlog <= conns
    <=> Flags /\ Owners /\ Queues /\ Promises /\ Net /\ Wires /\ States
  BY DEF TypeOK, Flags, Owners, Queues, WriteReqs, DoneReqs, Promises, Net, Wires, States

\* The flags stay Boolean.
LEMMA FlagsStep ==
  ASSUME Flags, [Next]_vars
  PROVE  Flags'
  <1> USE DEF Flags, lifeVars, slotVars, outVars, inVars, netVars, histVars
  <1>1. CASE Read \/ Accept \/ Connect \/ Listen \/ Shutdown
    BY <1>1, Zenon DEF Read, Accept, Connect, Listen, Shutdown
  <1>2. CASE Close \/ Drop
    BY <1>2, Zenon DEF Close, Drop, MaybeClose, StopIo, CloseSocket, ioVars
  <1>3. ASSUME NEW n \in Sizes, Write(n) PROVE Flags'
    BY <1>3, Zenon DEF Write, WriteAll, WritePart, WriteError, WriteLater
  <1>4. CASE CloseCb
    BY <1>4, Zenon DEF CloseCb
  <1>5. CASE StreamIo
    BY <1>5, Zenon DEF StreamIo
  <1>6. CASE StaleCallback
    BY <1>6, Zenon DEF StaleCallback
  <1>7. ASSUME NEW ok \in BOOLEAN, ConnectCb(ok) \/ ReadCb(ok) \/ ConnectionCb(ok)
        PROVE  Flags'
    BY <1>7, Zenon DEF ConnectCb, ReadCb, ConnectionCb, WatchedAfterConnect
  <1>8. CASE Arrive \/ Drain \/ Reset
    BY <1>8, Zenon DEF Arrive, Drain, Reset
  <1>9. CASE Collect \/ FreeContext
    BY <1>9, Zenon DEF Collect, FreeContext, Finalizer, MaybeClose, StopIo, CloseSocket, ioVars
  <1>10. CASE UNCHANGED vars
    BY <1>10, Zenon DEF vars
  <1>11. QED
    BY <1>1, <1>2, <1>3, <1>4, <1>5, <1>6, <1>7, <1>8, <1>9, <1>10
    DEF Next, Program, Loop, Environment

\* What uv__write does with the first request of the queue: there is none, it
\* fails, it is written, or a part of it is.
LEMMA HeadCases ==
  ASSUME Queues, Net
  PROVE  /\ WriteHead.taken \in 0..room
         /\ \/ /\ writeq = <<>> /\ WriteHead.queue = <<>> /\ WriteHead.taken = 0
               /\ WriteHead.good = {} /\ WriteHead.bad = {}
            \/ /\ writeq # <<>> /\ WriteHead.queue = Tail(writeq) /\ WriteHead.taken = 0
               /\ WriteHead.good = {} /\ WriteHead.bad = {Head(writeq).op}
            \/ /\ writeq # <<>> /\ WriteHead.queue = Tail(writeq)
               /\ WriteHead.taken = Head(writeq).left
               /\ WriteHead.good = {Head(writeq).op} /\ WriteHead.bad = {}
            \/ /\ writeq # <<>>
               /\ WriteHead.taken < Head(writeq).left
               /\ WriteHead.queue =
                    <<[Head(writeq) EXCEPT !.left = Head(writeq).left - WriteHead.taken]>>
                      \o Tail(writeq)
               /\ WriteHead.good = {} /\ WriteHead.bad = {}
  <1>s. Room \in Nat /\ room \in Nat
    BY StreamAssumption DEF Net
  <1>1. CASE writeq = <<>>
    BY <1>1, <1>s DEF WriteHead
  <1>2. CASE writeq # <<>>
    <2>1. Head(writeq) \in [op : Ops, left : Nat \ {0}]
      BY <1>2, TailQueue DEF Queues, WriteReqs
    <2>2. CASE Dead
      BY <1>2, <2>2, <1>s DEF WriteHead
    <2>3. CASE ~Dead
      <3> DEFINE k == Min2(Head(writeq).left, room)
      <3>1. k \in 0..room /\ (k = Head(writeq).left \/ k < Head(writeq).left)
        BY <2>1, <1>s DEF Min2
      <3>2. CASE k = Head(writeq).left
        BY <1>2, <2>1, <2>3, <3>1, <3>2 DEF WriteHead
      <3>3. CASE k < Head(writeq).left
        <4>1. /\ WriteHead.taken = k /\ WriteHead.good = {} /\ WriteHead.bad = {}
              /\ WriteHead.queue =
                   <<[Head(writeq) EXCEPT !.left = Head(writeq).left - k]>> \o Tail(writeq)
          BY <1>2, <2>1, <2>3, <3>1, <3>3 DEF WriteHead
        <4>2. QED
          BY <1>2, <3>1, <3>3, <4>1
      <3>4. QED
        BY <3>1, <3>2, <3>3
    <2>4. QED
      BY <2>2, <2>3
  <1>3. QED
    BY <1>1, <1>2

\* What is not a flag, a slot, a queue or a promise stays in its range: a call
\* and a connection are counted within their bounds, and the socket never takes
\* more than it has room for.
LEMMA NetStep ==
  ASSUME Queues, Net, [Next]_vars
  PROVE  Net'
  <1> USE DEF Net, Call, lifeVars, slotVars, outVars, inVars, netVars, histVars
  <1>s. Room \in Nat /\ MaxConns \in Nat /\ MaxOps \in Nat /\ Sizes \subseteq Nat \ {0}
    BY StreamAssumption
  <1>1. CASE Read \/ Accept \/ Connect \/ Listen \/ Shutdown
    BY <1>1, <1>s DEF Read, Accept, Connect, Listen, Shutdown
  <1>2. CASE Close \/ Drop
    BY <1>2, <1>s DEF Close, Drop, MaybeClose, StopIo, CloseSocket, ioVars
  <1>3. ASSUME NEW n \in Sizes, Write(n) PROVE Net'
    BY <1>3, <1>s DEF Write, WriteAll, WritePart, WriteError, WriteLater
  <1>4. CASE CloseCb
    BY <1>4 DEF CloseCb
  <1>5. CASE StreamIo
    <2>1. room' = room - WriteHead.taken /\ UNCHANGED <<backlog, conns, ops>>
      BY <1>5 DEF StreamIo
    <2>2. WriteHead.taken \in 0..room
      BY HeadCases DEF Net
    <2>3. QED
      BY <2>1, <2>2, <1>s
  <1>6. CASE StaleCallback
    BY <1>6 DEF StaleCallback
  <1>7. ASSUME NEW ok \in BOOLEAN, ConnectCb(ok) \/ ReadCb(ok) \/ ConnectionCb(ok)
        PROVE  Net'
    BY <1>7, <1>s DEF ConnectCb, ReadCb, ConnectionCb, CanConnection
  <1>8. CASE Arrive \/ Drain \/ Reset
    BY <1>8, <1>s DEF Arrive, Drain, Reset
  <1>9. CASE Collect \/ FreeContext
    BY <1>9, <1>s
    DEF Collect, FreeContext, Finalizer, MaybeClose, StopIo, CloseSocket, ioVars
  <1>10. CASE UNCHANGED vars
    BY <1>10 DEF vars
  <1>11. QED
    BY <1>1, <1>2, <1>3, <1>4, <1>5, <1>6, <1>7, <1>8, <1>9, <1>10
    DEF Next, Program, Loop, Environment

\* So do the names of the states.
LEMMA StatesStep ==
  ASSUME States, [Next]_vars
  PROVE  States'
  <1> USE DEF States, Modes, lifeVars, slotVars, outVars, inVars, netVars, histVars
  <1>1. CASE Read \/ Accept \/ Connect \/ Listen \/ Shutdown
    BY <1>1 DEF Read, Accept, Connect, Listen, Shutdown
  <1>2. CASE Close \/ Drop
    BY <1>2 DEF Close, Drop, MaybeClose, StopIo, CloseSocket, ioVars
  <1>3. ASSUME NEW n \in Sizes, Write(n) PROVE States'
    BY <1>3 DEF Write, WriteAll, WritePart, WriteError, WriteLater
  <1>4. CASE CloseCb
    BY <1>4 DEF CloseCb, CloseFrees
  <1>5. CASE StreamIo
    BY <1>5 DEF StreamIo
  <1>6. CASE StaleCallback
    BY <1>6 DEF StaleCallback
  <1>7. ASSUME NEW ok \in BOOLEAN, ConnectCb(ok) \/ ReadCb(ok) \/ ConnectionCb(ok)
        PROVE  States'
    BY <1>7 DEF ConnectCb, ReadCb, ConnectionCb
  <1>8. CASE Arrive \/ Drain \/ Reset
    BY <1>8 DEF Arrive, Drain, Reset
  <1>9. CASE Collect \/ FreeContext
    BY <1>9
    DEF Collect, FreeContext, Finalizer, FinalizeFrees, MaybeClose, StopIo, CloseSocket,
        ioVars
  <1>10. CASE UNCHANGED vars
    BY <1>10 DEF vars
  <1>11. QED
    BY <1>1, <1>2, <1>3, <1>4, <1>5, <1>6, <1>7, <1>8, <1>9, <1>10
    DEF Next, Program, Loop, Environment

-----------------------------------------------------------------------------
(***************************************************************************)
(* Life of the struct, and what is left of a handle that was closed        *)
(***************************************************************************)

\* The finalizer and the close callback, in either order, free the struct when
\* the other has been there.
LEMMA LifeStep ==
  ASSUME Flags, States, LifeInv, [Next]_vars
  PROVE  LifeInv'
  <1> USE DEF LifeInv, lifeVars, slotVars, outVars, inVars, netVars, histVars
  <1>1. CASE Read \/ Accept \/ Connect \/ Listen \/ Shutdown
    BY <1>1 DEF Read, Accept, Connect, Listen, Shutdown
  <1>2. CASE Close
    BY <1>2 DEF Close, Call, Flags, MaybeClose
  <1>3. CASE Drop
    BY <1>3 DEF Drop, Flags
  <1>4. ASSUME NEW n \in Sizes, Write(n) PROVE LifeInv'
    BY <1>4, Zenon DEF Write
  <1>5. CASE CloseCb
    BY <1>5 DEF CloseCb, CloseFrees, Flags, States
  <1>6. CASE StreamIo
    BY <1>6, Zenon DEF StreamIo
  <1>7. CASE StaleCallback
    BY <1>7, Zenon DEF StaleCallback
  <1>8. ASSUME NEW ok \in BOOLEAN, ConnectCb(ok) \/ ReadCb(ok) \/ ConnectionCb(ok)
        PROVE  LifeInv'
    BY <1>8 DEF ConnectCb, ReadCb, ConnectionCb
  <1>9. CASE Arrive \/ Drain \/ Reset
    BY <1>9 DEF Arrive, Drain, Reset
  <1>10. ASSUME Finalizer, ~held \/ ctx' = "freed" PROVE LifeInv'
    <2>1. uv = "closed" <=> uv' = "closed"
      BY <1>10 DEF Finalizer, MaybeClose, ioVars, Flags
    <2>2. QED
      BY <1>10, <2>1 DEF Finalizer, FinalizeFrees, Flags, States
  <1>11. CASE Collect
    BY <1>10, <1>11 DEF Collect
  <1>12. CASE FreeContext
    BY <1>10, <1>12 DEF FreeContext
  <1>13. CASE UNCHANGED vars
    BY <1>13, Zenon DEF vars
  <1>14. QED
    BY <1>1, <1>2, <1>3, <1>4, <1>5, <1>6, <1>7, <1>8, <1>9, <1>11, <1>12, <1>13
    DEF Next, Program, Loop, Environment

\* What close() stopped stays stopped, unless connect() or listen() makes a new
\* socket for the handle.
LEMMA ClosedStep ==
  ASSUME Flags, States, ClosedInv, [Next]_vars
  PROVE  ClosedInv'
  <1> USE DEF ClosedInv, lifeVars, slotVars, outVars, inVars, netVars, histVars
  <1>1. CASE Read \/ Accept \/ Shutdown
    BY <1>1 DEF Read, Accept, Shutdown
  <1>2. CASE Connect \/ Listen
    BY <1>2 DEF Connect, Listen
  <1>3. CASE Close
    BY <1>3 DEF Close, MaybeClose, StopIo, CloseSocket, ioVars
  <1>4. CASE Drop
    BY <1>4 DEF Drop
  <1>5. ASSUME NEW n \in Sizes, Write(n) PROVE ClosedInv'
    BY <1>5 DEF Write, Connects, lifeVars
  <1>6. CASE CloseCb
    BY <1>6 DEF CloseCb
  <1>7. CASE StreamIo
    BY <1>7 DEF StreamIo, CanStreamIo
  <1>8. CASE StaleCallback
    BY <1>8 DEF StaleCallback
  <1>9. ASSUME NEW ok \in BOOLEAN, ConnectCb(ok) \/ ReadCb(ok) \/ ConnectionCb(ok)
        PROVE  ClosedInv'
    BY <1>9 DEF ConnectCb, ReadCb, ConnectionCb, CanConnectCb, CanReadCb, CanConnection
  <1>10. CASE Arrive \/ Drain \/ Reset
    BY <1>10 DEF Arrive, Drain, Reset
  <1>11. ASSUME Finalizer PROVE ClosedInv'
    BY <1>11 DEF Finalizer, MaybeClose, StopIo, CloseSocket, ioVars
  <1>12. CASE Collect
    BY <1>11, <1>12 DEF Collect
  <1>13. CASE FreeContext
    BY <1>11, <1>13 DEF FreeContext
  <1>14. CASE UNCHANGED vars
    BY <1>14 DEF vars
  <1>15. QED
    BY <1>1, <1>2, <1>3, <1>4, <1>5, <1>6, <1>7, <1>8, <1>9, <1>10, <1>12, <1>13, <1>14
    DEF Next, Program, Loop, Environment

\* A pending read() stays served: nothing stops the watcher of an open
\* connection but the callback that settles the read().
LEMMA ReadStep ==
  ASSUME Flags, States, ReadInv, [Next]_vars
  PROVE  ReadInv'
  <1> USE DEF ReadInv, Connects, lifeVars, slotVars, outVars, inVars, netVars, histVars
  <1>1. CASE Read
    BY <1>1 DEF Read
  <1>2. CASE Accept \/ Shutdown \/ Connect \/ Drop
    BY <1>2 DEF Accept, Shutdown, Connect, Drop
  <1>3. CASE Listen
    BY <1>3 DEF Listen
  <1>4. CASE Close
    BY <1>4 DEF Close, MaybeClose, ioVars
  <1>5. ASSUME NEW n \in Sizes, Write(n) PROVE ReadInv'
    BY <1>5 DEF Write
  <1>6. CASE CloseCb
    BY <1>6 DEF CloseCb
  <1>7. CASE StreamIo
    BY <1>7 DEF StreamIo
  <1>8. CASE StaleCallback
    BY <1>8 DEF StaleCallback
  <1>9. ASSUME NEW ok \in BOOLEAN, ConnectCb(ok) \/ ReadCb(ok) PROVE ReadInv'
    BY <1>9 DEF ConnectCb, ReadCb, ClearRead
  <1>10. ASSUME NEW ok \in BOOLEAN, ConnectionCb(ok) PROVE ReadInv'
    BY <1>10 DEF ConnectionCb, CanConnection
  <1>11. CASE Arrive \/ Drain \/ Reset
    BY <1>11 DEF Arrive, Drain, Reset
  <1>12. ASSUME Finalizer PROVE ReadInv'
    BY <1>12 DEF Finalizer
  <1>13. CASE Collect
    BY <1>12, <1>13 DEF Collect
  <1>14. CASE FreeContext
    BY <1>12, <1>14 DEF FreeContext
  <1>15. CASE UNCHANGED vars
    BY <1>15 DEF vars
  <1>16. QED
    BY <1>1, <1>2, <1>3, <1>4, <1>5, <1>6, <1>7, <1>8, <1>9, <1>10, <1>11, <1>13, <1>14,
       <1>15
    DEF Next, Program, Loop, Environment

-----------------------------------------------------------------------------
(***************************************************************************)
(* Promises, their owners, and the bytes                                   *)
(***************************************************************************)

DataTypes == Owners /\ Queues /\ Promises /\ Wires

DataInv == OwnInv /\ FreshInv /\ QueueInv /\ SortedInv /\ BytesInv

\* The requests, by the queues
LEMMA RequestsIds ==
  /\ Requests = ({connectReq, shutReq} \ {None}) \cup Ids(writeq) \cup Ids(doneq)
  /\ Requests' = ({connectReq', shutReq'} \ {None}) \cup Ids(writeq') \cup Ids(doneq')
  BY DEF Requests, Ids

\* What is in a queue is a call that was made.
LEMMA QueuedOps ==
  ASSUME Net, DataTypes, OwnInv, FreshInv
  PROVE  /\ Ids(writeq) \subseteq Ops
         /\ Ids(doneq) \subseteq Ops
         /\ \A p \in Slots \cup Requests : p \in Ops /\ p <= ops /\ prom[p] = "pending"
         /\ None \notin Ops
         /\ ops \in Nat
  <1>1. Ids(writeq) \subseteq Ops
    <2>1. \A i \in DOMAIN writeq : writeq[i] \in WriteReqs
      BY Elements DEF DataTypes, Queues
    <2>2. QED
      BY <2>1 DEF Ids, WriteReqs
  <1>2. Ids(doneq) \subseteq Ops
    <2>1. \A i \in DOMAIN doneq : doneq[i] \in DoneReqs
      BY Elements DEF DataTypes, Queues
    <2>2. QED
      BY <2>1 DEF Ids, DoneReqs
  <1>3. None \notin Ops /\ ops \in Nat
    BY StreamAssumption DEF Ops, Net
  <1>4. ASSUME NEW p \in Slots \cup Requests PROVE p \in Ops /\ p <= ops /\ prom[p] = "pending"
    <2>1. p \in Ops /\ prom[p] = "pending"
      BY <1>4 DEF OwnInv, Pending
    <2>2. p \in Nat
      BY <2>1, StreamAssumption DEF Ops
    <2>3. QED
      BY <2>1, <2>2, <1>3 DEF FreshInv
  <1>5. QED
    BY <1>1, <1>2, <1>3, <1>4

\* No promise, no request and no byte is touched.
LEMMA IdleData ==
  ASSUME Net, Net', DataTypes, DataInv, ops' >= ops,
         UNCHANGED <<slotVars, connectReq, shutReq, writeq, doneq, prom, size, wire>>
  PROVE  DataTypes' /\ DataInv'
  <1> USE DEF slotVars
  <1>1. DataTypes'
    BY DEF DataTypes, Owners, Queues, Promises, Wires
  <1>2. OwnInv'
    BY RequestsIds DEF DataInv, OwnInv, Pending, Slots
  <1>3. FreshInv'
    BY StreamAssumption DEF DataInv, FreshInv, Net, Ops
  <1>4. QueueInv'
    BY DEF DataInv, QueueInv
  <1>5. SortedInv'
    <2>1. \A v \in Values(wire) : v \in Nat
      BY StreamAssumption DEF DataTypes, Wires, Ops, Values
    <2>2. QED
      BY <2>1, StreamAssumption DEF DataInv, SortedInv, Net
  <1>6. BytesInv'
    BY DEF DataInv, BytesInv, Slots
  <1>7. QED
    BY <1>1, <1>2, <1>3, <1>4, <1>5, <1>6 DEF DataInv

\* A call that is not a write gets a slot, or the connect or shutdown request.
LEMMA BeginData ==
  ASSUME Net, DataTypes, DataInv, Read \/ Accept \/ Connect \/ Shutdown
  PROVE  DataTypes' /\ DataInv'
  <1> USE DEF lifeVars, slotVars, outVars, inVars, netVars, histVars
  <1>1. /\ ops' = ops + 1
        /\ ops + 1 \in Ops
        /\ prom' = [prom EXCEPT ![ops + 1] = "pending"]
        /\ UNCHANGED <<writeq, doneq, size, wire>>
    <2>1. ops < MaxOps /\ ops' = ops + 1 /\ prom' = [prom EXCEPT ![ops + 1] = "pending"]
      BY DEF Read, Accept, Connect, Shutdown, Call, InitPromise
    <2>2. ops + 1 \in Ops
      BY <2>1, StreamAssumption DEF Ops, Net
    <2>3. UNCHANGED <<writeq, doneq, size, wire>>
      BY DEF Read, Accept, Connect, Shutdown
    <2>4. QED
      BY <2>1, <2>2, <2>3
  <1>2. \/ readSlot = None /\ readSlot' = ops + 1 /\ UNCHANGED <<acceptSlot, connectReq, shutReq>>
        \/ acceptSlot = None /\ acceptSlot' = ops + 1 /\ UNCHANGED <<readSlot, connectReq, shutReq>>
        \/ connectReq = None /\ connectReq' = ops + 1 /\ UNCHANGED <<readSlot, acceptSlot, shutReq>>
        \/ shutReq = None /\ shutReq' = ops + 1 /\ UNCHANGED <<readSlot, acceptSlot, connectReq>>
    BY DEF Read, Accept, Connect, Shutdown, CanRead, CanConnect
  <1>3. /\ prom[ops + 1] = "none" /\ size[ops + 1] = 0
        /\ ops + 1 \notin Slots \cup Requests
    <2>1. prom[ops + 1] = "none" /\ size[ops + 1] = 0
      BY <1>1, StreamAssumption DEF DataInv, FreshInv, Net
    <2>2. QED
      BY <2>1, QueuedOps DEF DataInv
  <1>4. DataTypes'
    BY <1>1, <1>2 DEF DataTypes, Owners, Queues, Promises, Wires
  <1>5. OwnInv'
    <2>1. Pending' = Pending \cup {ops + 1}
      BY <1>1 DEF Pending, DataTypes, Promises
    <2>2. QED
      BY <1>1, <1>2, <1>3, <2>1, QueuedOps, RequestsIds DEF DataInv, OwnInv, Slots
  <1>6. FreshInv'
    BY <1>1, StreamAssumption DEF DataInv, FreshInv, Net, Ops, DataTypes, Promises
  <1>7. QueueInv'
    BY <1>1 DEF DataInv, QueueInv
  <1>8. SortedInv'
    <2>1. \A v \in Values(wire) : v \in Nat
      BY StreamAssumption DEF DataTypes, Wires, Ops, Values
    <2>2. QED
      BY <1>1, <2>1, StreamAssumption DEF DataInv, SortedInv, Net
  <1>9. BytesInv'
    <2>1. \A p \in Ops : prom'[p] = "resolved" => prom[p] = "resolved"
      BY <1>1 DEF DataTypes, Promises
    <2>2. QED
      BY <1>1, <1>2, <1>3, <2>1 DEF DataInv, BytesInv, Slots
  <1>10. QED
    BY <1>4, <1>5, <1>6, <1>7, <1>8, <1>9 DEF DataInv

\* The promises of S are settled, and only those of G can be resolved.
Settling(S, G) ==
  /\ prom' \in [Ops -> {"none", "pending", "resolved", "rejected", "dropped"}]
  /\ \A p \in Ops : p \notin S => prom'[p] = prom[p]
  /\ \A p \in Ops : p \in S => prom'[p] \in {"resolved", "rejected", "dropped"}
  /\ \A p \in Ops : prom'[p] = "resolved" => prom[p] = "resolved" \/ p \in G

\* A promise that changes was pending and is settled.
OnlySettles ==
  \A p \in Ops :
    prom'[p] # prom[p] => prom[p] = "pending" /\ prom'[p] \in {"resolved", "rejected", "dropped"}

\* So SettleAll does.
LEMMA SettleAllSettling ==
  ASSUME Promises, NEW good, NEW bad, SettleAll(good, bad)
  PROVE  Settling(good \cup bad, good)
  BY DEF Promises, SettleAll, Settling

\* An action that settles promises and takes them from their owners. The queue
\* of writes may shrink; the wire is as it was.
LEMMA SettleData ==
  ASSUME NEW S, NEW G, Net, DataTypes, DataInv, Settling(S, G),
         S \cap Ops \subseteq Slots \cup Requests,
         (Slots \cup Requests)' = (Slots \cup Requests) \ S,
         readSlot' \in {readSlot, None}, acceptSlot' \in {acceptSlot, None},
         connectReq' \in {connectReq, None}, shutReq' \in {shutReq, None},
         writeq' \in {writeq, <<>>}, doneq' \in {doneq, <<>>},
         UNCHANGED <<ops, size, wire>>,
         \A p \in G : p \in Slots \cup {connectReq, shutReq}
  PROVE  DataTypes' /\ DataInv' /\ OnlySettles
  <1>q. /\ Ids(writeq') \subseteq Ids(writeq)
        /\ Ids(doneq') \subseteq Ids(doneq)
    BY EmptyQueue
  <1>1. DataTypes'
    <2>1. Owners' /\ Promises' /\ Wires'
      BY DEF DataTypes, Owners, Promises, Wires, Settling
    <2>2. Queues'
      BY EmptyIsSeq DEF DataTypes, Queues
    <2>3. QED
      BY <2>1, <2>2 DEF DataTypes
  <1>2. OwnInv'
    <2>1. Pending' = Pending \ S
      BY DEF Pending, Settling, DataTypes, Promises
    <2>2. Slots' \cap Requests' = {}
      <3>1. Slots' \subseteq Slots
        BY DEF Slots
      <3>2. Requests' \subseteq Requests
        BY <1>q, RequestsIds
      <3>3. QED
        BY <3>1, <3>2 DEF DataInv, OwnInv
    <2>3. None \notin Ids(writeq) \cup Ids(doneq)
      BY QueuedOps DEF DataInv
    <2>4. QED
      BY <1>q, <2>1, <2>2, <2>3 DEF DataInv, OwnInv
  <1>3. FreshInv'
    BY QueuedOps DEF DataInv, FreshInv, Settling
  <1>4. QueueInv'
    BY EmptyQueue DEF DataInv, QueueInv
  <1>5. SortedInv'
    BY <1>q DEF DataInv, SortedInv
  <1>6. BytesInv'
    <2>1. Values(writeq') \subseteq Values(writeq)
      BY EmptyQueue
    <2>2. \A p \in Ops : p \in Slots' \cup {connectReq', shutReq'} => size[p] = 0
      BY QueuedOps DEF DataInv, BytesInv, Slots
    <2>3. \A p \in Ops : 0 <= Count(wire, p) /\ Count(wire, p) \in Nat
      BY CountNat DEF DataTypes, Wires
    <2>4. \A p \in G : p \in Ops => Count(wire, p) = size[p]
      BY <2>3 DEF DataInv, BytesInv
    <2>5. QED
      BY <2>1, <2>2, <2>4 DEF DataInv, BytesInv, Settling
  <1>7. OnlySettles
    BY QueuedOps DEF OnlySettles, Settling, DataInv
  <1>8. QED
    BY <1>1, <1>2, <1>3, <1>4, <1>5, <1>6, <1>7 DEF DataInv

\* A write that is finished was called back: none is kept.
LEMMA NoneFinished ==
  ASSUME QueueInv
  PROVE  Finished = {} /\ Cancelled = Requests
  BY DEF QueueInv, Finished, Cancelled

\* uvStreamReadCb settles the read().
LEMMA ReadCbData ==
  ASSUME Net, DataTypes, DataInv, NEW ok \in BOOLEAN, ReadCb(ok)
  PROVE  DataTypes' /\ DataInv' /\ OnlySettles
  <1> USE DEF lifeVars, outVars, netVars, histVars
  <1>1. /\ readSlot' = None
        /\ UNCHANGED <<acceptSlot, connectReq, shutReq, writeq, doneq, ops, size, wire>>
    BY DEF ReadCb, ClearRead
  <1>2. Settling({readSlot}, {readSlot})
    BY SettleAllSettling DEF ReadCb, DataTypes, Settling
  <1>3. (Slots \cup Requests)' = (Slots \cup Requests) \ {readSlot}
    BY <1>1, RequestsIds, QueuedOps DEF Slots, DataInv, OwnInv
  <1>4. {readSlot} \cap Ops \subseteq Slots \cup Requests
    BY QueuedOps DEF Slots, DataInv
  <1>5. QED
    <2>1. CASE readSlot # None
      <3>1. \A p \in {readSlot} : p \in Slots \cup {connectReq, shutReq}
        BY <2>1 DEF Slots
      <3>2. QED
        BY <1>1, <1>2, <1>3, <1>4, <3>1, SettleData
    <2>2. CASE readSlot = None
      <3>1. Settling({}, {})
        BY <1>2, <2>2, QueuedOps DEF Settling, DataInv
      <3>2. (Slots \cup Requests)' = (Slots \cup Requests) \ {}
        BY <1>1, <2>2, RequestsIds DEF Slots
      <3>3. QED
        BY <1>1, <3>1, <3>2, SettleData
    <2>3. QED
      BY <2>1, <2>2

\* uvStreamConnectionCb settles the accept(), if there is one.
LEMMA ConnectionCbData ==
  ASSUME Net, DataTypes, DataInv, NEW ok \in BOOLEAN, ConnectionCb(ok)
  PROVE  DataTypes' /\ DataInv' /\ OnlySettles
  <1> USE DEF lifeVars, slotVars, outVars, netVars, histVars
  <1>1. UNCHANGED <<readSlot, connectReq, shutReq, writeq, doneq, ops, size, wire>>
    BY DEF ConnectionCb
  <1>2. CASE acceptSlot = None
    <2>1. UNCHANGED <<acceptSlot, prom>>
      BY <1>2 DEF ConnectionCb
    <2>2. Settling({}, {})
      BY <2>1 DEF Settling, DataTypes, Promises
    <2>3. (Slots \cup Requests)' = (Slots \cup Requests) \ {}
      BY <1>1, <2>1, RequestsIds DEF Slots
    <2>4. QED
      BY <1>1, <2>1, <2>2, <2>3, SettleData
  <1>3. CASE acceptSlot # None
    <2>1. acceptSlot' = None
      BY <1>3 DEF ConnectionCb
    <2>2. Settling({acceptSlot}, {acceptSlot})
      BY <1>3, SettleAllSettling DEF ConnectionCb, DataTypes, Settling
    <2>3. (Slots \cup Requests)' = (Slots \cup Requests) \ {acceptSlot}
      BY <1>1, <1>3, <2>1, RequestsIds, QueuedOps DEF Slots, DataInv, OwnInv
    <2>4. \A p \in {acceptSlot} : p \in Slots
      BY <1>3 DEF Slots
    <2>5. QED
      BY <1>1, <2>1, <2>2, <2>3, <2>4, SettleData
  <1>4. QED
    BY <1>2, <1>3

\* uvStreamConnectCb settles the connect(), and all the writes when it fails.
LEMMA ConnectCbData ==
  ASSUME Net, DataTypes, DataInv, NEW ok \in BOOLEAN, ConnectCb(ok)
  PROVE  DataTypes' /\ DataInv' /\ OnlySettles
  <1> USE DEF lifeVars, slotVars, outVars, netVars, histVars
  <1>1. /\ connectReq # None
        /\ connectReq' = None
        /\ UNCHANGED <<readSlot, acceptSlot, shutReq, ops, size, wire>>
    BY DEF ConnectCb, CanConnectCb
  <1>2. CASE ok
    <2>1. UNCHANGED <<writeq, doneq>>
      BY <1>2 DEF ConnectCb
    <2>2. Settling({connectReq}, {connectReq})
      BY <1>2, SettleAllSettling DEF ConnectCb, DataTypes, Settling
    <2>3. connectReq \in Requests
      BY <1>1, RequestsIds
    <2>4. (Slots \cup Requests)' = (Slots \cup Requests) \ {connectReq}
      BY <1>1, <2>1, <2>3, RequestsIds DEF Slots, DataInv, OwnInv
    <2>5. QED
      BY <1>1, <2>1, <2>2, <2>3, <2>4, SettleData
  <1>3. CASE ~ok
    <2>1. writeq' = <<>> /\ doneq' = <<>>
      BY <1>3 DEF ConnectCb
    <2> DEFINE S == Requests \ {shutReq}
    <2>2. Settling(S, {})
      <3>1. SettleAll({}, S)
        BY <1>3, NoneFinished DEF ConnectCb, DataInv
      <3>2. QED
        BY <3>1, SettleAllSettling DEF DataTypes, Settling
    <2>3. (Slots \cup Requests)' = (Slots \cup Requests) \ S
      BY <1>1, <2>1, RequestsIds, EmptyQueue DEF Slots, DataInv, OwnInv
    <2>4. QED
      BY <1>1, <2>1, <2>2, <2>3, SettleData
  <1>4. QED
    BY <1>2, <1>3

\* uv__stream_destroy settles all requests.
LEMMA CloseCbData ==
  ASSUME Net, DataTypes, DataInv, CloseCb, uv' = "closed"
  PROVE  DataTypes' /\ DataInv' /\ OnlySettles
  <1> USE DEF slotVars, netVars, histVars
  <1>1. ~(ctx = "freed" /\ Requests # {})
    BY DEF CloseCb
  <1>2. /\ connectReq' = None /\ shutReq' = None /\ writeq' = <<>> /\ doneq' = <<>>
        /\ UNCHANGED <<readSlot, acceptSlot, ops, size, wire>>
    BY <1>1 DEF CloseCb
  <1>3. Settling(Requests, {})
    <2>1. SettleAll({}, Requests)
      BY <1>1, NoneFinished DEF CloseCb, DataInv
    <2>2. QED
      BY <2>1, SettleAllSettling DEF DataTypes, Settling
  <1>4. (Slots \cup Requests)' = (Slots \cup Requests) \ Requests
    BY <1>2, RequestsIds, EmptyQueue DEF Slots, DataInv, OwnInv
  <1>5. QED
    BY <1>2, <1>3, <1>4, SettleData

\* The finalizer drops the promises in the slots.
LEMMA FinalizerData ==
  ASSUME Net, DataTypes, DataInv, Finalizer
  PROVE  DataTypes' /\ DataInv' /\ OnlySettles
  <1> USE DEF histVars
  <1>1. /\ readSlot' = None /\ acceptSlot' = None
        /\ UNCHANGED <<connectReq, shutReq, writeq, doneq, ops, size, wire>>
    BY DEF Finalizer
  <1>2. Settling(Slots, {})
    BY QueuedOps DEF Finalizer, Settling, Slots, DataTypes, Promises, DataInv
  <1>3. (Slots \cup Requests)' = (Slots \cup Requests) \ Slots
    BY <1>1, RequestsIds DEF Slots, DataInv, OwnInv
  <1>4. QED
    BY <1>1, <1>2, <1>3, SettleData

\* What more there is on the wire, when the kernel takes k units of the write p:
\* the order is kept when p is not before what is there.
LEMMA WireExtended ==
  ASSUME NEW p \in Ops, NEW k \in Nat, Wires, wire' = wire \o Copies(p, k),
         Sorted(wire), \A v \in Values(wire) : v <= p
  PROVE  /\ wire' \in Seq(Ops)
         /\ Sorted(wire')
         /\ Values(wire') \subseteq Values(wire) \cup {p}
         /\ \A x : Count(wire', x) = Count(wire, x) + (IF x = p THEN k ELSE 0)
  <1>1. wire' = wire \o Repeat(p, k)
    BY DEF Copies, Repeat
  <1>2. wire \in Seq(Ops) /\ Ops \subseteq Nat
    BY StreamAssumption DEF Wires, Ops
  <1>3. ASSUME NEW x
        PROVE  Count(wire', x) = Count(wire, x) + (IF x = p THEN k ELSE 0)
    BY <1>1, <1>2, CountRepeat
  <1>4. /\ wire \o Repeat(p, k) \in Seq(Ops)
        /\ Sorted(wire \o Repeat(p, k))
        /\ Values(wire \o Repeat(p, k)) \subseteq Values(wire) \cup {p}
    BY <1>2, ExtendSorted
  <1>5. QED
    BY <1>1, <1>3, <1>4

\* write() hands bytes to the kernel only when no other write is queued, and
\* queues the rest behind the others.
LEMMA WriteData ==
  ASSUME Net, DataTypes, DataInv, NEW n \in Sizes, Write(n)
  PROVE  DataTypes' /\ DataInv'
  <1> USE DEF lifeVars, slotVars
  <1> DEFINE p == ops + 1
  <1>1. /\ ops' = p /\ p \in Ops /\ p \in Nat /\ n \in Nat \ {0}
        /\ size' = [size EXCEPT ![p] = n]
        /\ UNCHANGED <<readSlot, acceptSlot, connectReq, shutReq>>
        /\ room \in Nat /\ ops \in Nat /\ p = ops + 1
    <2>1. ops < MaxOps /\ ops' = p /\ size' = [size EXCEPT ![p] = n]
          /\ UNCHANGED <<readSlot, acceptSlot, connectReq, shutReq>>
      BY DEF Write, Call
    <2>2. QED
      BY <2>1, StreamAssumption DEF Ops, Net
  <1>e. /\ WriteAll(n) => prom' = [prom EXCEPT ![p] = "resolved"] /\ wire' = wire \o Copies(p, n)
        /\ WritePart(n) => /\ prom' = [prom EXCEPT ![p] = "pending"]
                           /\ wire' = wire \o Copies(p, room)
                           /\ writeq' = Append(writeq, [op |-> p, left |-> n - room])
        /\ WriteError(n) => /\ prom' = [prom EXCEPT ![p] = "pending"]
                            /\ doneq' = Append(doneq, [op |-> p, ok |-> FALSE])
        /\ WriteLater(n) => /\ prom' = [prom EXCEPT ![p] = "pending"]
                            /\ writeq' = Append(writeq, [op |-> p, left |-> n])
    BY DEF WriteAll, WritePart, WriteError, WriteLater, InitPromise, Rest
  <1> HIDE DEF p
  <1>2. /\ prom[p] = "none" /\ size[p] = 0
        /\ p \notin Slots \cup Requests
        /\ Ids(writeq) \subseteq Ops /\ Ids(doneq) \subseteq Ops
        /\ \A x \in Slots \cup Requests : x < p
    <2>1. prom[p] = "none" /\ size[p] = 0
      BY <1>1, StreamAssumption DEF DataInv, FreshInv, Net
    <2>2. QED
      BY <1>1, <2>1, QueuedOps, StreamAssumption DEF DataInv, Ops
  <1>3. /\ wire \in Seq(Ops)
        /\ \A x : Count(wire, x) \in Nat
        /\ \A v \in Values(wire) : v \in Nat /\ v <= ops /\ v <= p
    <2>1. wire \in Seq(Ops) /\ Ops \subseteq Nat
      BY StreamAssumption DEF DataTypes, Wires, Ops
    <2>2. \A v \in Values(wire) : v \in Nat
      BY <2>1, Elements DEF Values
    <2>3. QED
      BY <1>1, <2>1, <2>2, CountNat DEF DataInv, SortedInv
  <1>4. Count(wire, p) = 0
    BY <1>1, <1>2, <1>3 DEF DataInv, BytesInv
  <1>5. FreshInv'
    <2>1. \A x \in Ops : x # p => prom'[x] = prom[x]
      BY <1>e DEF Write, DataTypes, Promises
    <2>2. \A x \in Ops : x > p => x # p /\ x > ops
      BY <1>1, StreamAssumption DEF Ops, Net
    <2>3. \A x \in Ops : x # p => size'[x] = size[x]
      BY <1>1 DEF DataTypes, Wires
    <2>4. QED
      BY <1>1, <2>1, <2>2, <2>3 DEF DataInv, FreshInv
  <1>6. Owners' /\ size' \in [Ops -> Sizes \cup {0}]
    BY <1>1 DEF DataTypes, Owners, Wires
  <1>7. \A x \in Ops : x \in Slots \cup {connectReq, shutReq} => x # p
    BY <1>2, RequestsIds, QueuedOps DEF DataInv
  <1>8. CASE WriteAll(n)
    <2>1. /\ prom' = [prom EXCEPT ![p] = "resolved"]
          /\ wire' = wire \o Copies(p, n)
          /\ UNCHANGED <<writeq, doneq>>
          /\ writeq = <<>>
      BY <1>e, <1>8 DEF WriteAll, CanTry
    <2>2. /\ wire' \in Seq(Ops)
          /\ Sorted(wire')
          /\ Values(wire') \subseteq Values(wire) \cup {p}
          /\ \A x : Count(wire', x) = Count(wire, x) + (IF x = p THEN n ELSE 0)
      BY <1>1, <1>3, <2>1, WireExtended DEF DataTypes, DataInv, SortedInv
    <2>3. DataTypes'
      BY <1>6, <2>1, <2>2 DEF DataTypes, Queues, Promises, Wires
    <2>4. OwnInv'
      <3>1. Pending' = Pending
        BY <1>1, <1>2, <2>1 DEF Pending, DataTypes, Promises
      <3>2. QED
        BY <1>1, <2>1, <3>1, RequestsIds DEF DataInv, OwnInv, Slots
    <2>5. QueueInv'
      BY <2>1 DEF DataInv, QueueInv
    <2>6. SortedInv'
      BY <1>1, <1>3, <2>1, <2>2, EmptyQueue DEF SortedInv
    <2>7. BytesInv'
      <3>1. \A x \in Ops : x # p => Count(wire', x) = Count(wire, x) /\ size'[x] = size[x]
                                      /\ prom'[x] = prom[x]
        BY <1>1, <1>3, <2>1, <2>2 DEF DataTypes, Promises, Wires
      <3>2. Count(wire', p) = n /\ size'[p] = n
        BY <1>1, <1>4, <2>2 DEF DataTypes, Wires
      <3>3. QED
        BY <1>1, <1>7, <2>1, <3>1, <3>2, EmptyQueue DEF DataInv, BytesInv, Slots
    <2>8. QED
      BY <1>5, <2>3, <2>4, <2>5, <2>6, <2>7 DEF DataInv
  <1>9. CASE WriteError(n)
    <2> DEFINE e == [op |-> p, ok |-> FALSE]
    <2>1. /\ prom' = [prom EXCEPT ![p] = "pending"]
          /\ doneq' = Append(doneq, e)
          /\ UNCHANGED <<writeq, wire>>
          /\ writeq = <<>>
      BY <1>e, <1>9 DEF WriteError, CanTry
    <2>2. doneq' \in Seq(DoneReqs) /\ Ids(doneq') = Ids(doneq) \cup {p}
      <3>1. doneq \in Seq(DoneReqs) /\ e \in DoneReqs
        BY <1>1 DEF DataTypes, Queues, DoneReqs
      <3>2. e.op = p
        OBVIOUS
      <3> HIDE DEF e
      <3>3. QED
        BY <2>1, <3>1, <3>2, AppendQueue
    <2>3. DataTypes'
      BY <1>6, <2>1, <2>2 DEF DataTypes, Queues, Promises, Wires
    <2>4. OwnInv'
      <3>1. Pending' = Pending \cup {p}
        BY <1>1, <2>1 DEF Pending, DataTypes, Promises
      <3>2. QED
        BY <1>1, <1>2, <1>7, <2>1, <2>2, <3>1, RequestsIds, QueuedOps, EmptyQueue
        DEF DataInv, OwnInv, Slots
    <2>5. QueueInv'
      <3>1. doneq \in Seq(DoneReqs) /\ ~e.ok
        BY DEF DataTypes, Queues
      <3>2. QED
        BY <2>1, <3>1 DEF DataInv, QueueInv
    <2>6. SortedInv'
      BY <1>1, <1>3, <2>1 DEF DataInv, SortedInv
    <2>7. BytesInv'
      <3>1. \A x \in Ops : x # p => size'[x] = size[x] /\ prom'[x] = prom[x]
        BY <1>1, <2>1 DEF DataTypes, Promises, Wires
      <3>2. size'[p] = n /\ prom'[p] = "pending"
        BY <1>1, <2>1 DEF DataTypes, Wires, Promises
      <3>3. QED
        BY <1>1, <1>4, <1>7, <2>1, <3>1, <3>2, EmptyQueue DEF DataInv, BytesInv, Slots
    <2>8. QED
      BY <1>5, <2>3, <2>4, <2>5, <2>6, <2>7 DEF DataInv
  <1>10. CASE WritePart(n) \/ WriteLater(n)
    <2>1. PICK k \in Nat :
            /\ k < n
            /\ wire' = wire \o Copies(p, k)
            /\ writeq' = Append(writeq, [op |-> p, left |-> n - k])
            /\ wire' = wire \/ writeq = <<>>
      <3>1. CASE WritePart(n)
        <4>1. room < n /\ writeq = <<>>
          BY <1>1, <3>1 DEF WritePart, CanTry
        <4>2. QED
          BY <1>1, <1>e, <3>1, <4>1
      <3>2. CASE WriteLater(n)
        <4>1. wire' = wire
          BY <3>2 DEF WriteLater
        <4>2. wire \o Copies(p, 0) = wire
          BY <1>3 DEF Copies
        <4>3. n - 0 = n /\ 0 < n
          BY <1>1
        <4>4. QED
          BY <1>e, <3>2, <4>1, <4>2, <4>3
      <3>3. QED
        BY <1>10, <3>1, <3>2
    <2> DEFINE e == [op |-> p, left |-> n - k]
    <2>2. /\ prom' = [prom EXCEPT ![p] = "pending"]
          /\ UNCHANGED doneq
      BY <1>e, <1>10 DEF WritePart, WriteLater
    <2>3. /\ wire' \in Seq(Ops)
          /\ Sorted(wire')
          /\ Values(wire') \subseteq Values(wire) \cup {p}
          /\ \A x : Count(wire', x) = Count(wire, x) + (IF x = p THEN k ELSE 0)
      BY <1>1, <1>3, <2>1, WireExtended DEF DataTypes, DataInv, SortedInv
    <2>4. e \in WriteReqs /\ e.op = p /\ e.left = n - k
      BY <1>1, <2>1 DEF WriteReqs
    <2>5. writeq' = Append(writeq, e)
      BY <2>1
    <2> HIDE DEF e
    <2>6. /\ writeq' \in Seq(WriteReqs)
          /\ Ids(writeq') = Ids(writeq) \cup {p}
          /\ Values(writeq') = Values(writeq) \cup {e}
          /\ Ordered(writeq')
      <3>1. writeq \in Seq(WriteReqs) /\ Ordered(writeq)
        BY DEF DataTypes, Queues, DataInv, QueueInv
      <3>2. \A x \in Ids(writeq) : x < e.op
        BY <1>2, <2>4, RequestsIds
      <3>3. QED
        BY <2>4, <2>5, <3>1, <3>2, AppendQueue
    <2>7. DataTypes'
      BY <1>6, <2>2, <2>3, <2>6 DEF DataTypes, Queues, Promises, Wires
    <2>8. OwnInv'
      <3>1. Pending' = Pending \cup {p}
        BY <1>1, <2>2 DEF Pending, DataTypes, Promises
      <3>2. QED
        BY <1>1, <1>2, <1>7, <2>2, <2>6, <3>1, RequestsIds, QueuedOps
        DEF DataInv, OwnInv, Slots
    <2>9. QueueInv'
      BY <2>2, <2>6 DEF DataInv, QueueInv
    <2>10. SortedInv'
      <3>1. CASE wire' = wire
        BY <1>1, <1>3, <2>3, <2>6, <3>1 DEF DataInv, SortedInv
      <3>2. CASE writeq = <<>>
        BY <1>1, <1>3, <2>3, <2>6, <3>2, EmptyQueue DEF SortedInv
      <3>3. QED
        BY <2>1, <3>1, <3>2
    <2>11. BytesInv'
      <3>1. \A x \in Ops : x # p => Count(wire', x) = Count(wire, x) /\ size'[x] = size[x]
                                      /\ prom'[x] = prom[x]
        BY <1>1, <1>3, <2>2, <2>3 DEF DataTypes, Promises, Wires
      <3>2. Count(wire', p) = k /\ size'[p] = n /\ prom'[p] = "pending"
        BY <1>1, <1>4, <2>2, <2>3 DEF DataTypes, Promises, Wires
      <3>3. \A w \in Values(writeq) : w.op \in Ops /\ w.op # p
        BY <1>2, IdsOfValues, RequestsIds
      <3>4. \A w \in Values(writeq') : Count(wire', w.op) + w.left = size'[w.op]
        <4>1. Count(wire', e.op) + e.left = size'[e.op]
          BY <1>1, <2>1, <2>4, <3>2
        <4>2. QED
          BY <2>6, <3>1, <3>3, <4>1 DEF DataInv, BytesInv
      <3>5. \A x \in Ops : Count(wire', x) <= size'[x]
        BY <1>1, <2>1, <3>1, <3>2 DEF DataInv, BytesInv
      <3>6. QED
        BY <1>1, <1>7, <3>1, <3>2, <3>4, <3>5 DEF DataInv, BytesInv, Slots
    <2>12. QED
      BY <1>5, <2>7, <2>8, <2>9, <2>10, <2>11 DEF DataInv
  <1>11. QED
    BY <1>8, <1>9, <1>10 DEF Write

\* uv__stream_io calls back the first write, if it is finished, the writes that
\* failed before, and the shutdown when it was the last. What the kernel takes
\* is of the first write.
LEMMA StreamIoData ==
  ASSUME Net, DataTypes, DataInv, StreamIo
  PROVE  DataTypes' /\ DataInv' /\ OnlySettles
  <1> USE DEF lifeVars, slotVars, inVars
  <1> DEFINE queue == WriteHead.queue
             good  == WriteHead.good
             bad   == WriteHead.bad
             taken == WriteHead.taken
             w     == Head(writeq)
             ends  == IF queue = <<>> /\ ~shut /\ uv = "open" THEN {shutReq} \ {None} ELSE {}
  <1>1. /\ connectReq = None
        /\ writeq' = queue /\ doneq' = <<>>
        /\ wire' = wire \o Copies(w.op, taken)
        /\ shutReq' = IF ends = {} THEN shutReq ELSE None
        /\ UNCHANGED <<readSlot, acceptSlot, connectReq, ops, size>>
    BY DEF StreamIo, CanStreamIo
  <1>2. Settling(good \cup bad \cup Ids(doneq) \cup ends, good \cup ends)
    <2>1. Finished = {} /\ {doneq[i].op : i \in DOMAIN doneq} = Ids(doneq)
      BY NoneFinished DEF DataInv, Ids
    <2>2. \/ SettleAll(good, bad \cup Ids(doneq) \cup ends)
          \/ SettleAll(good \cup ends, bad \cup Ids(doneq))
      BY <2>1 DEF StreamIo
    <2> HIDE DEF good, bad, ends
    <2>3. QED
      BY <2>2, SettleAllSettling DEF DataTypes, Settling
  <1>3. /\ taken \in Nat
        /\ \/ writeq = <<>> /\ queue = <<>> /\ taken = 0 /\ good = {} /\ bad = {}
           \/ writeq # <<>> /\ queue = Tail(writeq) /\ taken = 0 /\ good = {} /\ bad = {w.op}
           \/ writeq # <<>> /\ queue = Tail(writeq) /\ taken = w.left /\ good = {w.op} /\ bad = {}
           \/ /\ writeq # <<>> /\ queue = <<[w EXCEPT !.left = w.left - taken]>> \o Tail(writeq)
              /\ taken < w.left /\ good = {} /\ bad = {}
    BY HeadCases, StreamAssumption DEF DataTypes, Net
  <1>4. ends \in {{}, {shutReq} \ {None}}
    OBVIOUS
  <1> HIDE DEF queue, good, bad, taken, w, ends
  <1>5. /\ writeq \in Seq(WriteReqs) /\ Ordered(writeq)
        /\ writeq # <<>> =>
             /\ w \in WriteReqs /\ w \in Values(writeq)
             /\ w.op \in Ops /\ w.op \in Ids(writeq) /\ w.left \in Nat \ {0}
             /\ Tail(writeq) \in Seq(WriteReqs) /\ Ordered(Tail(writeq))
             /\ Ids(writeq) = Ids(Tail(writeq)) \cup {w.op}
             /\ Values(Tail(writeq)) \subseteq Values(writeq)
             /\ \A x \in Ids(Tail(writeq)) : w.op < x
    <2>1. writeq \in Seq(WriteReqs) /\ Ordered(writeq)
      BY DEF DataTypes, Queues, DataInv, QueueInv
    <2>2. writeq # <<>> =>
             /\ w \in WriteReqs /\ w \in Values(writeq)
             /\ Tail(writeq) \in Seq(WriteReqs) /\ Ordered(Tail(writeq))
             /\ Ids(writeq) = Ids(Tail(writeq)) \cup {w.op}
             /\ Values(Tail(writeq)) \subseteq Values(writeq)
             /\ \A x \in Ids(Tail(writeq)) : w.op < x
      BY <2>1, TailQueue DEF w
    <2>3. w \in WriteReqs => w.op \in Ops /\ w.left \in Nat \ {0}
      BY DEF WriteReqs
    <2>4. QED
      BY <2>1, <2>2, <2>3
  <1>6. Ops \subseteq Nat /\ Ids(writeq) \subseteq Ops
    BY QueuedOps, StreamAssumption DEF DataInv, Ops
  <1>7. /\ queue \in Seq(WriteReqs) /\ Ordered(queue)
        /\ Ids(queue) = Ids(writeq) \ (good \cup bad)
        /\ good \cup bad \subseteq Ids(writeq)
        /\ writeq # <<>> => \A x \in Ids(queue) : w.op <= x
        /\ \A v \in Values(queue) :
              \/ v \in Values(writeq) /\ v.op \in Ids(queue) /\ v.op # w.op
              \/ writeq # <<>> /\ v.op = w.op /\ v.left = w.left - taken
    <2>1. CASE writeq = <<>>
      BY <1>3, <1>5, <2>1, EmptyQueue
    <2>2. writeq # <<>> => w.op \in Nat /\ \A x \in Ids(Tail(writeq)) : x \in Nat /\ w.op < x
      BY <1>5, <1>6
    <2>3. writeq # <<>> => \A x \in Ids(Tail(writeq)) : w.op <= x /\ x # w.op
      BY <2>2
    <2>4. writeq # <<>> =>
            \A v \in Values(Tail(writeq)) :
              v \in Values(writeq) /\ v.op \in Ids(Tail(writeq)) /\ v.op # w.op
      BY <1>5, <2>3, IdsOfValues
    <2>5. CASE writeq # <<>> /\ queue = Tail(writeq) /\ good \cup bad = {w.op}
      BY <1>5, <2>3, <2>4, <2>5
    <2>6. CASE /\ writeq # <<>> /\ queue = <<[w EXCEPT !.left = w.left - taken]>> \o Tail(writeq)
               /\ taken < w.left /\ good = {} /\ bad = {}
      <3> DEFINE e == [w EXCEPT !.left = w.left - taken]
      <3>1. e \in WriteReqs /\ e.op = w.op /\ e.left = w.left - taken
        <4>1. w.left - taken \in Nat \ {0}
          BY <1>3, <1>5, <2>6
        <4>2. w \in [op : Ops, left : Nat \ {0}]
          BY <1>5, <2>6 DEF WriteReqs
        <4>3. QED
          BY <4>1, <4>2 DEF WriteReqs
      <3>2. queue = <<e>> \o Tail(writeq)
        BY <2>6
      <3> HIDE DEF e
      <3>3. /\ queue \in Seq(WriteReqs)
            /\ Ids(queue) = Ids(writeq)
            /\ Values(queue) \subseteq Values(Tail(writeq)) \cup {e}
            /\ Ordered(queue)
        <4>1. e.op = Head(writeq).op
          BY <3>1 DEF w
        <4>2. /\ <<e>> \o Tail(writeq) \in Seq(WriteReqs)
              /\ Ids(<<e>> \o Tail(writeq)) = Ids(writeq)
              /\ Values(<<e>> \o Tail(writeq)) \subseteq Values(Tail(writeq)) \cup {e}
              /\ Ordered(<<e>> \o Tail(writeq))
          BY <1>5, <2>6, <3>1, <4>1, NewHead
        <4>3. QED
          BY <3>2, <4>2
      <3>4. \A x \in Ids(queue) : w.op <= x
        BY <1>5, <2>2, <2>3, <2>6, <3>3
      <3>5. QED
        BY <1>5, <2>4, <2>6, <3>1, <3>3, <3>4
    <2>7. QED
      BY <1>3, <2>1, <2>5, <2>6
  <1>8. /\ \A x : Count(wire, x) \in Nat
        /\ wire' \in Seq(Ops) /\ Sorted(wire')
        /\ Values(wire') \subseteq Values(wire) \cup (IF writeq = <<>> THEN {} ELSE {w.op})
        /\ \A x : Count(wire', x) = Count(wire, x) + (IF writeq # <<>> /\ x = w.op THEN taken ELSE 0)
    <2>1. wire \in Seq(Ops) /\ Sorted(wire) /\ \A x : Count(wire, x) \in Nat
      BY CountNat DEF DataTypes, Wires, DataInv, SortedInv
    <2>2. CASE writeq = <<>>
      <3>1. wire \o Copies(w.op, 0) = wire
        BY <2>1 DEF Copies
      <3>2. wire' = wire
        BY <1>1, <1>3, <2>2, <3>1
      <3>3. QED
        BY <2>1, <2>2, <3>2
    <2>3. CASE writeq # <<>>
      <3>1. \A v \in Values(wire) : v <= w.op
        BY <1>5, <2>3 DEF DataInv, SortedInv
      <3>2. /\ wire' \in Seq(Ops)
            /\ Sorted(wire')
            /\ Values(wire') \subseteq Values(wire) \cup {w.op}
            /\ \A x : Count(wire', x) = Count(wire, x) + (IF x = w.op THEN taken ELSE 0)
        BY <1>1, <1>3, <1>5, <2>1, <2>3, <3>1, WireExtended DEF DataTypes
      <3>3. QED
        BY <2>1, <2>3, <3>2
    <2>4. QED
      BY <2>2, <2>3
  <1>9. DataTypes'
    <2>1. Owners' /\ Promises' /\ Wires'
      BY <1>1, <1>2, <1>8 DEF DataTypes, Owners, Promises, Wires, Settling
    <2>2. Queues'
      BY <1>1, <1>7, EmptyIsSeq DEF Queues
    <2>3. QED
      BY <2>1, <2>2 DEF DataTypes
  <1>10. OwnInv'
    <2> DEFINE S == good \cup bad \cup Ids(doneq) \cup ends
    <2>1. Pending' = Pending \ S
      BY <1>2 DEF Pending, Settling, DataTypes, Promises
    <2>2. Ids(writeq') = Ids(writeq) \ (good \cup bad) /\ Ids(doneq') = {}
      BY <1>1, <1>7, EmptyQueue
    <2>3. ends \subseteq {shutReq} /\ None \notin ends /\ (shutReq' = None \/ ends = {})
          /\ (shutReq' = shutReq \/ ends = {shutReq}) /\ (ends = {} => shutReq' = shutReq)
      BY <1>1, <1>4
    <2>4. Slots' = Slots
      BY <1>1 DEF Slots
    <2>5. Requests' = Requests \ S
      BY <1>1, <1>7, <2>2, <2>3, RequestsIds DEF DataInv, OwnInv
    <2>6. S \subseteq Requests
      BY <1>4, <1>7, RequestsIds
    <2>7. (Slots \cup Requests)' = (Slots \cup Requests) \ S
      BY <2>4, <2>5, <2>6 DEF DataInv, OwnInv
    <2>8. shutReq' \in {shutReq, None} /\ None \notin Ids(writeq)
      BY <1>1, QueuedOps DEF DataInv
    <2> HIDE DEF S
    <2>9. QED
      BY <1>1, <2>1, <2>2, <2>4, <2>5, <2>7, <2>8 DEF DataInv, OwnInv
  <1>11. FreshInv'
    <2>1. good \cup bad \cup Ids(doneq) \cup ends \subseteq Requests
      BY <1>4, <1>7, RequestsIds
    <2>2. \A p \in Ops : p > ops => p \notin good \cup bad \cup Ids(doneq) \cup ends
      BY <1>6, <2>1, QueuedOps DEF DataInv
    <2>3. QED
      BY <1>1, <1>2, <2>2 DEF DataInv, FreshInv, Settling
  <1>12. QueueInv'
    BY <1>1, <1>7 DEF QueueInv
  <1>13. SortedInv'
    <2>1. \A v \in Values(wire') : v <= ops
      <3>1. writeq # <<>> => w.op <= ops
        BY <1>5, QueuedOps, RequestsIds DEF DataInv
      <3>2. QED
        BY <1>8, <3>1 DEF DataInv, SortedInv
    <2>2. \A v \in Values(wire'), p \in Ids(writeq') : v <= p
      BY <1>1, <1>7, <1>8, EmptyQueue DEF DataInv, SortedInv
    <2>3. QED
      BY <1>1, <1>8, <2>1, <2>2 DEF SortedInv
  <1>14. BytesInv'
    <2>1. writeq # <<>> => Count(wire, w.op) + w.left = size[w.op]
      BY <1>5 DEF DataInv, BytesInv
    <2>2. \A x \in Ops : ~(writeq # <<>> /\ x = w.op) => Count(wire', x) = Count(wire, x)
      BY <1>8
    <2>3. writeq # <<>> => Count(wire', w.op) = Count(wire, w.op) + taken
      BY <1>8
    <2>4. writeq # <<>> => taken <= w.left
      BY <1>3, <1>5
    <2>5. \A v \in Values(writeq') : Count(wire', v.op) + v.left = size'[v.op]
      <3>1. SUFFICES ASSUME NEW v \in Values(queue)
                     PROVE  Count(wire', v.op) + v.left = size[v.op]
        BY <1>1
      <3>2. CASE v \in Values(writeq) /\ v.op \in Ids(queue) /\ v.op # w.op
        BY <1>6, <1>7, <2>2, <3>2 DEF DataInv, BytesInv
      <3>3. CASE writeq # <<>> /\ v.op = w.op /\ v.left = w.left - taken
        BY <1>3, <1>5, <1>8, <2>1, <2>3, <3>3
      <3>4. QED
        BY <1>7, <3>2, <3>3
    <2>6. \A x \in Ops : Count(wire', x) <= size'[x]
      <3>1. writeq # <<>> => Count(wire', w.op) <= size[w.op]
        BY <1>3, <1>5, <1>8, <2>1, <2>3, <2>4
      <3>2. QED
        BY <1>1, <2>2, <3>1 DEF DataInv, BytesInv
    <2>7. ASSUME NEW x \in Ops, prom'[x] = "resolved" PROVE Count(wire', x) = size'[x]
      <3>1. CASE x \in good
        <4>1. writeq # <<>> /\ x = w.op /\ taken = w.left
          BY <1>3, <3>1
        <4>2. QED
          BY <1>1, <2>1, <2>3, <4>1
      <3>2. CASE x \in ends
        <4>1. x = shutReq /\ size[x] = 0 /\ x \notin Ids(writeq)
          BY <1>4, <3>2 DEF DataInv, BytesInv, OwnInv
        <4>2. Count(wire', x) = Count(wire, x)
          BY <1>5, <2>2, <4>1
        <4>3. Count(wire, x) <= 0
          BY <4>1 DEF DataInv, BytesInv
        <4>4. QED
          BY <1>1, <1>8, <4>1, <4>2, <4>3
      <3>3. CASE prom[x] = "resolved"
        <4>1. x \notin Ids(writeq)
          BY <3>3, RequestsIds, QueuedOps DEF DataInv
        <4>2. QED
          BY <1>1, <1>5, <2>2, <3>3, <4>1 DEF DataInv, BytesInv
      <3>4. QED
        BY <1>2, <2>7, <3>1, <3>2, <3>3 DEF Settling
    <2>8. \A p \in Ops : p \in Slots' \cup {connectReq', shutReq'} => size'[p] = 0
      BY <1>1, QueuedOps DEF DataInv, BytesInv, Slots
    <2>9. QED
      BY <2>5, <2>6, <2>7, <2>8 DEF BytesInv
  <1>15. OnlySettles
    <2>1. good \cup bad \cup Ids(doneq) \cup ends \subseteq Requests
      BY <1>4, <1>7, RequestsIds
    <2>2. QED
      BY <1>2, <2>1, QueuedOps DEF OnlySettles, Settling, DataInv
  <1>16. QED
    BY <1>9, <1>10, <1>11, <1>12, <1>13, <1>14, <1>15 DEF DataInv

-----------------------------------------------------------------------------
(***************************************************************************)
(* The invariants                                                          *)
(***************************************************************************)

\* Every step keeps promises, their owners and the bytes in order.
LEMMA DataStep ==
  ASSUME Net, Net', DataTypes, DataInv, [Next]_vars
  PROVE  DataTypes' /\ DataInv'
  <1> USE DEF lifeVars, slotVars, outVars, inVars, netVars, histVars
  <1>1. CASE Read \/ Accept \/ Connect \/ Shutdown
    BY <1>1, BeginData
  <1>2. CASE Listen \/ Close \/ Drop
    <2>1. ops' >= ops
      BY <1>2 DEF Listen, Close, Drop, Call, Net
    <2>2. UNCHANGED <<slotVars, connectReq, shutReq, writeq, doneq, prom, size, wire>>
      BY <1>2 DEF Listen, Close, Drop
    <2>3. QED
      BY <2>1, <2>2, IdleData
  <1>3. ASSUME NEW n \in Sizes, Write(n) PROVE DataTypes' /\ DataInv'
    BY <1>3, WriteData
  <1>4. CASE CloseCb
    <2>1. CASE ctx = "freed" /\ Requests # {}
      <3>1. UNCHANGED <<slotVars, connectReq, shutReq, writeq, doneq, prom, size, wire, ops>>
        BY <1>4, <2>1 DEF CloseCb
      <3>2. ops' >= ops
        BY <3>1 DEF Net
      <3>3. QED
        BY <3>1, <3>2, IdleData
    <2>2. CASE ~(ctx = "freed" /\ Requests # {})
      <3>1. uv' = "closed"
        BY <1>4, <2>2 DEF CloseCb
      <3>2. QED
        BY <1>4, <3>1, CloseCbData
    <2>3. QED
      BY <2>1, <2>2
  <1>5. CASE StreamIo
    BY <1>5, StreamIoData
  <1>6. ASSUME NEW ok \in BOOLEAN, ConnectCb(ok) \/ ReadCb(ok) \/ ConnectionCb(ok)
        PROVE  DataTypes' /\ DataInv'
    BY <1>6, ConnectCbData, ReadCbData, ConnectionCbData
  <1>7. CASE StaleCallback \/ Arrive \/ Drain \/ Reset \/ UNCHANGED vars
    <2>1. UNCHANGED <<slotVars, connectReq, shutReq, writeq, doneq, prom, size, wire, ops>>
      BY <1>7 DEF StaleCallback, Arrive, Drain, Reset, vars
    <2>2. ops' >= ops
      BY <2>1 DEF Net
    <2>3. QED
      BY <2>1, <2>2, IdleData
  <1>8. CASE Collect
    BY <1>8, FinalizerData DEF Collect
  <1>9. CASE FreeContext
    <2>1. CASE Finalizer
      BY <2>1, FinalizerData
    <2>2. CASE ~Finalizer
      <3>1. UNCHANGED <<slotVars, connectReq, shutReq, writeq, doneq, prom, size, wire, ops>>
        BY <1>9, <2>2 DEF FreeContext
      <3>2. ops' >= ops
        BY <3>1 DEF Net
      <3>3. QED
        BY <3>1, <3>2, IdleData
    <2>3. QED
      BY <2>1, <2>2
  <1>10. QED
    BY <1>1, <1>2, <1>3, <1>4, <1>5, <1>6, <1>7, <1>8, <1>9
    DEF Next, Program, Loop, Environment

\* The first state
LEMMA StreamInit ==
  ASSUME Init
  PROVE  StreamInv
  <1>1. Flags
    BY DEF Init, Flags
  <1>2. Owners /\ Promises /\ Net /\ States
    BY StreamAssumption DEF Init, Owners, Promises, Net, States, Modes
  <1>3. Queues /\ Wires
    BY EmptyIsSeq, StreamAssumption DEF Init, Queues, Wires
  <1>4. LifeInv /\ ClosedInv /\ ReadInv
    BY DEF Init, LifeInv, ClosedInv, ReadInv
  <1>5. OwnInv
    BY RequestsIds, EmptyQueue DEF Init, OwnInv, Pending, Slots
  <1>6. FreshInv /\ QueueInv
    BY EmptyQueue DEF Init, FreshInv, QueueInv
  <1>7. \A p : Count(<<>>, p) = 0
    BY FS_EmptySet DEF Count
  <1>8. SortedInv
    BY EmptyQueue DEF Init, SortedInv, Sorted
  <1>9. BytesInv
    BY <1>7, EmptyQueue DEF Init, BytesInv
  <1>10. QED
    BY <1>1, <1>2, <1>3, <1>4, <1>5, <1>6, <1>8, <1>9, TypeParts DEF StreamInv

\* Every step keeps the invariant.
LEMMA StreamStep ==
  ASSUME StreamInv, [Next]_vars
  PROVE  StreamInv'
  <1>1. Flags /\ Net /\ States /\ DataTypes /\ DataInv
    BY TypeParts DEF StreamInv, DataTypes, DataInv
  <1>2. Flags' /\ Net' /\ States' /\ LifeInv' /\ ClosedInv' /\ ReadInv'
    BY <1>1, FlagsStep, NetStep, StatesStep, LifeStep, ClosedStep, ReadStep
    DEF StreamInv, DataTypes
  <1>3. DataTypes' /\ DataInv'
    BY <1>1, <1>2, DataStep
  <1>4. TypeOK' /\ (backlog <= conns)'
    BY <1>2, <1>3 DEF DataTypes, TypeOK, Flags, Owners, Queues, WriteReqs, DoneReqs, Promises,
                      Net, Wires, States
  <1>5. QED
    BY <1>2, <1>3, <1>4 DEF StreamInv, DataInv

\* The inductive invariant is one.
THEOREM StreamInvariance == Spec => []StreamInv
  <1>1. Init => StreamInv
    BY StreamInit
  <1>2. StreamInv /\ [Next]_vars => StreamInv'
    BY StreamStep
  <1>3. QED
    BY <1>1, <1>2, PTL DEF Spec

\* Every state is of its type: in particular a write is queued with what it has
\* left, which is never nothing.
THEOREM StreamTypes == Spec => []TypeOK
  <1>1. StreamInv => TypeOK
    BY DEF StreamInv
  <1>2. QED
    BY <1>1, StreamInvariance, PTL

\* libuv never holds a request or a watcher of a struct that is freed, whatever
\* the order of close(), the close callback, the collector and the end of the
\* runtime (unless the handle is used again after close()).
THEOREM StreamNoDangling == Spec => []NoDanglingRequest
  <1>1. StreamInv => NoDanglingRequest
    <2>1. SUFFICES ASSUME StreamInv, mem = "freed", ~reused
                   PROVE  Requests = {} /\ ~pollin /\ ~pollout /\ ~fed /\ ~reading
      BY DEF NoDanglingRequest
    <2>2. uv = "closed"
      BY <2>1 DEF StreamInv, LifeInv
    <2>3. /\ connectReq = None /\ shutReq = None /\ writeq = <<>> /\ doneq = <<>>
          /\ ~pollin /\ ~pollout /\ ~fed /\ ~reading
      BY <2>1, <2>2 DEF StreamInv, ClosedInv
    <2>4. Requests = {}
      BY <2>3, RequestsIds, EmptyQueue
    <2>5. QED
      BY <2>3, <2>4
  <1>2. QED
    BY <1>1, StreamInvariance, PTL

\* Every promise the program waits for is in exactly one slot or request, and a
\* pending read() on an open handle is being served.
THEOREM StreamPending == Spec => []PendingIsOwned
  <1>1. StreamInv => PendingIsOwned
    BY DEF StreamInv, OwnInv, Pending, ReadInv, PendingIsOwned, ReadIsServed
  <1>2. QED
    BY <1>1, StreamInvariance, PTL

\* The bytes leave in the order of the calls of write(), each once, and no
\* write() is resolved short of its bytes.
THEOREM StreamWire == Spec => []WireOrder
  <1>1. StreamInv => WireOrder
    <2>1. SUFFICES ASSUME StreamInv PROVE WireOrder
      OBVIOUS
    <2>2. \A i, j \in DOMAIN wire : i < j => wire[i] <= wire[j]
      BY <2>1 DEF StreamInv, SortedInv, Sorted
    <2>3. \A i \in DOMAIN wire, j \in DOMAIN writeq : wire[i] <= writeq[j].op
      BY <2>1 DEF StreamInv, SortedInv, Values, Ids
    <2>4. WriteComplete
      BY <2>1 DEF StreamInv, BytesInv, WriteComplete, Count
    <2>5. QED
      BY <2>2, <2>3, <2>4 DEF WireOrder
  <1>2. QED
    BY <1>1, StreamInvariance, PTL

-----------------------------------------------------------------------------
(***************************************************************************)
(* The stream implements HandleLifetime                                    *)
(***************************************************************************)

\* A step that gives out a promise is made for an object that exists.
LEMMA BeginLifetime ==
  ASSUME NEW v \in {"pending", "resolved"}, StreamInv, Call,
         prom' = [prom EXCEPT ![ops + 1] = v], UNCHANGED <<mem, closed, finalized>>
  PROVE  Lifetime!Next
  <1>1. ops + 1 \in Ops /\ ops + 1 > ops
    BY TypeParts, StreamAssumption DEF StreamInv, Call, Net, Ops
  <1>2. prom[ops + 1] = "none"
    BY <1>1 DEF StreamInv, FreshInv
  <1>3. ~finalized
    BY DEF StreamInv, LifeInv, Call
  <1>4. Lifetime!Begin(ops + 1)
    BY <1>2, <1>3 DEF Lifetime!Begin
  <1>5. QED
    BY <1>1, <1>4 DEF Lifetime!Next

\* A callback settles promises of a struct that exists.
LEMMA SettleLifetime ==
  ASSUME mem = "live", OnlySettles, Promises', UNCHANGED <<mem, closed, finalized>>
  PROVE  Lifetime!Next
  BY DEF Lifetime!Next, Lifetime!Settle, Lifetime!SettleSome, Lifetime!Outcomes, OnlySettles,
         Promises

\* The finalizer gives up the ownership of the object.
LEMMA FinalizerLifetime ==
  ASSUME StreamInv, Finalizer, OnlySettles, Promises'
  PROVE  Lifetime!Next
  <1>1. ~finalized /\ finalized' /\ closed' = closed
    BY DEF Finalizer
  <1>2. mem' = IF closed THEN "freed" ELSE mem
    BY DEF Finalizer, FinalizeFrees
  <1>3. Lifetime!SettleSome /\ prom' \in [Ops -> {"none", "pending"} \cup Lifetime!Outcomes]
    BY DEF Lifetime!SettleSome, Lifetime!Outcomes, OnlySettles, Promises
  <1>4. Lifetime!Release("object")
    <2>1. CASE closed
      BY <1>1, <1>2, <1>3, <2>1 DEF Lifetime!Release
    <2>2. CASE ~closed
      BY <1>1, <1>2, <1>3, <2>2 DEF Lifetime!Release
    <2>3. QED
      BY <2>1, <2>2
  <1>5. QED
    BY <1>4 DEF Lifetime!Next

\* The close callback gives up that of the loop.
LEMMA CloseCbLifetime ==
  ASSUME StreamInv, CloseCb, uv' = "closed", OnlySettles, Promises'
  PROVE  Lifetime!Next
  <1>1. ~closed
    BY DEF CloseCb, StreamInv, LifeInv
  <1>2. closed' /\ mem' = (IF finalized THEN "freed" ELSE mem) /\ finalized' = finalized
    BY DEF CloseCb, CloseFrees
  <1>3. Lifetime!SettleSome /\ prom' \in [Ops -> {"none", "pending"} \cup Lifetime!Outcomes]
    BY DEF Lifetime!SettleSome, Lifetime!Outcomes, OnlySettles, Promises
  <1>4. Lifetime!Release("loop")
    <2>1. CASE finalized
      BY <1>1, <1>2, <1>3, <2>1 DEF Lifetime!Release
    <2>2. CASE ~finalized
      BY <1>1, <1>2, <1>3, <2>2 DEF Lifetime!Release
    <2>3. QED
      BY <2>1, <2>2
  <1>5. QED
    BY <1>4 DEF Lifetime!Next

\* Every step of the stream is one of HandleLifetime, or leaves its variables.
LEMMA LifetimeStep ==
  ASSUME StreamInv, [Next]_vars
  PROVE  [Lifetime!Next]_(Lifetime!vars)
  <1> USE DEF lifeVars, slotVars, outVars, inVars, netVars, histVars
  <1>t. Net /\ DataTypes /\ DataInv
    BY TypeParts DEF StreamInv, DataTypes, DataInv
  <1>s. ASSUME UNCHANGED <<mem, closed, finalized, prom>>
        PROVE  [Lifetime!Next]_(Lifetime!vars)
    BY <1>s DEF Lifetime!vars
  <1>1. CASE Read \/ Accept \/ Connect \/ Shutdown
    <2>1. /\ Call /\ prom' = [prom EXCEPT ![ops + 1] = "pending"]
          /\ UNCHANGED <<mem, closed, finalized>>
      BY <1>1 DEF Read, Accept, Connect, Shutdown, InitPromise
    <2>2. QED
      BY <2>1, BeginLifetime
  <1>2. CASE Listen \/ Close \/ Drop
    BY <1>2, <1>s DEF Listen, Close, Drop
  <1>3. ASSUME NEW n \in Sizes, Write(n) PROVE [Lifetime!Next]_(Lifetime!vars)
    <2>1. PICK v \in {"pending", "resolved"} : prom' = [prom EXCEPT ![ops + 1] = v]
      BY <1>3 DEF Write, WriteAll, WritePart, WriteError, WriteLater, InitPromise
    <2>2. Call /\ UNCHANGED <<mem, closed, finalized>>
      BY <1>3 DEF Write
    <2>3. QED
      BY <2>1, <2>2, BeginLifetime
  <1>4. CASE CloseCb
    <2>1. CASE ctx = "freed" /\ Requests # {}
      BY <1>4, <1>s, <2>1 DEF CloseCb
    <2>2. CASE ~(ctx = "freed" /\ Requests # {})
      <3>1. uv' = "closed"
        BY <1>4, <2>2 DEF CloseCb
      <3>2. OnlySettles /\ Promises'
        BY <1>t, <1>4, <3>1, CloseCbData DEF DataTypes
      <3>3. QED
        BY <1>4, <3>1, <3>2, CloseCbLifetime
    <2>3. QED
      BY <2>1, <2>2
  <1>5. CASE StreamIo
    <2>1. mem = "live" /\ UNCHANGED <<mem, closed, finalized>>
      BY <1>5 DEF StreamIo, Callback
    <2>2. OnlySettles /\ Promises'
      BY <1>t, <1>5, StreamIoData DEF DataTypes
    <2>3. QED
      BY <2>1, <2>2, SettleLifetime
  <1>6. ASSUME NEW ok \in BOOLEAN, ConnectCb(ok) \/ ReadCb(ok) \/ ConnectionCb(ok)
        PROVE  [Lifetime!Next]_(Lifetime!vars)
    <2>1. mem = "live" /\ UNCHANGED <<mem, closed, finalized>>
      BY <1>6 DEF ConnectCb, ReadCb, ConnectionCb, Callback
    <2>2. OnlySettles /\ Promises'
      BY <1>t, <1>6, ConnectCbData, ReadCbData, ConnectionCbData DEF DataTypes
    <2>3. QED
      BY <2>1, <2>2, SettleLifetime
  <1>7. CASE StaleCallback \/ Arrive \/ Drain \/ Reset \/ UNCHANGED vars
    BY <1>7, <1>s DEF StaleCallback, Arrive, Drain, Reset, vars
  <1>8. ASSUME Finalizer PROVE [Lifetime!Next]_(Lifetime!vars)
    BY <1>t, <1>8, FinalizerData, FinalizerLifetime DEF DataTypes
  <1>9. CASE Collect
    BY <1>8, <1>9 DEF Collect
  <1>10. CASE FreeContext
    BY <1>8, <1>10, <1>s DEF FreeContext
  <1>11. QED
    BY <1>1, <1>2, <1>3, <1>4, <1>5, <1>6, <1>7, <1>9, <1>10
    DEF Next, Program, Loop, Environment

\* The stream implements HandleLifetime: the struct is freed once, by the last
\* of the finalizer and the close callback, and every promise is settled at most
\* once and only while the struct exists.
THEOREM StreamLifetime == Spec => ImplementsLifetime
  <1>1. Init => Lifetime!Init
    BY DEF Init, Lifetime!Init
  <1>2. StreamInv /\ [Next]_vars => [Lifetime!Next]_(Lifetime!vars)
    BY LifetimeStep
  <1>3. QED
    BY <1>1, <1>2, StreamInvariance, PTL DEF Spec, ImplementsLifetime, Lifetime!Spec
=============================================================================
