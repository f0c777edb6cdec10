------------------------------ MODULE UdpProofs ------------------------------
(***************************************************************************)
(* Proofs about Udp: its invariants hold, and it implements                *)
(* HandleLifetime, for as many calls as one sendmmsg takes, any number of  *)
(* datagrams that arrive, any size of the kernel's buffer and with or      *)
(* without sendmmsg.                                                       *)
(***************************************************************************)
EXTENDS Udp, FiniteSetTheorems, WellFoundedInduction, TLAPS

-----------------------------------------------------------------------------
(***************************************************************************)
(* Queues of requests, whose field op is the number of their call          *)
(***************************************************************************)

\* The calls that have a request in queue q
Ids(q) == {q[i].op : i \in DOMAIN q}

\* The requests are in the order of the calls, and no call has two.
Ordered(q) == \A i, j \in DOMAIN q : i < j => q[i].op < q[j].op

\* The values that occur in s
Values(s) == {s[i] : i \in DOMAIN s}

\* An empty queue has no requests.
LEMMA EmptyQueue == Ids(<<>>) = {} /\ Ordered(<<>>) /\ Values(<<>>) = {}
  BY DEF Ids, Ordered, Values

\* The empty queue is of any type.
LEMMA EmptyIsSeq ==
  ASSUME NEW S
  PROVE  <<>> \in Seq(S)
  OBVIOUS

\* The elements of a sequence over S are in S.
LEMMA Elements ==
  ASSUME NEW S, NEW q \in Seq(S)
  PROVE  \A i \in DOMAIN q : q[i] \in S
  OBVIOUS

\* Append adds one request, which comes last.
LEMMA AppendQueue ==
  ASSUME NEW S, NEW q \in Seq(S), NEW e \in S
  PROVE  /\ Append(q, e) \in Seq(S)
         /\ Ids(Append(q, e)) = Ids(q) \cup {e.op}
         /\ Values(Append(q, e)) = Values(q) \cup {e}
         /\ Ordered(q) /\ (\A p \in Ids(q) : p < e.op) => Ordered(Append(q, e))
  <1> DEFINE a == Append(q, e)
  <1>1. /\ a \in Seq(S)
        /\ Len(a) = Len(q) + 1
        /\ DOMAIN a = 1..(Len(q) + 1)
        /\ DOMAIN q = 1..Len(q)
        /\ Len(q) \in Nat
        /\ \A i \in 1..Len(q) : a[i] = q[i]
        /\ a[Len(q) + 1] = e
    OBVIOUS
  <1> HIDE DEF a
  <1>2. Ids(a) = Ids(q) \cup {e.op}
    <2>1. ASSUME NEW i \in DOMAIN a
          PROVE  a[i].op \in Ids(q) \cup {e.op}
      <3>1. i \in 1..Len(q) \/ i = Len(q) + 1
        BY <1>1
      <3>2. QED
        BY <1>1, <3>1 DEF Ids
    <2>2. ASSUME NEW i \in DOMAIN q
          PROVE  q[i].op \in Ids(a)
      <3>1. i \in DOMAIN a /\ a[i] = q[i]
        BY <1>1
      <3>2. QED
        BY <3>1 DEF Ids
    <2>3. e.op \in Ids(a)
      <3>1. Len(q) + 1 \in DOMAIN a /\ a[Len(q) + 1] = e
        BY <1>1
      <3>2. QED
        BY <3>1 DEF Ids
    <2>4. QED
      BY <2>1, <2>2, <2>3 DEF Ids
  <1>3. ASSUME Ordered(q), \A p \in Ids(q) : p < e.op
        PROVE  Ordered(a)
    <2>1. \A i \in DOMAIN q : q[i].op < e.op
      BY <1>3 DEF Ids
    <2>2. QED
      BY <1>1, <1>3, <2>1 DEF Ordered
  <1>4. Values(a) = Values(q) \cup {e}
    <2>1. DOMAIN q \subseteq DOMAIN a /\ Len(q) + 1 \in DOMAIN a
      BY <1>1
    <2>2. \A i \in DOMAIN a : i \in DOMAIN q \/ i = Len(q) + 1
      BY <1>1
    <2>3. \A i \in DOMAIN q : a[i] = q[i]
      BY <1>1
    <2>4. a[Len(q) + 1] = e
      BY <1>1
    <2>5. QED
      BY <2>1, <2>2, <2>3, <2>4 DEF Values
  <1>5. QED
    BY <1>1, <1>2, <1>3, <1>4 DEF a

-----------------------------------------------------------------------------
(***************************************************************************)
(* The inductive invariant                                                 *)
(***************************************************************************)

\* The struct lives as long as one of its two owners does. The object that is
\* finalized is not held, has no pending recv() and closes its handle; when the
\* context is gone it was finalized, unless that failed.
LifeInv ==
  /\ mem = "freed" <=> closed /\ finalized
  /\ closed <=> uv = "closed"
  /\ ctx = "live" /\ finalized => ~held
  /\ finalized => uv # "open" /\ slot = None
  /\ ctx = "freed" /\ fault = "none" => finalized

\* A handle that was closed, and was not used again, has no socket and is not
\* watched, and when its close callback was called it has no requests. A handle
\* loses its socket only by being closed.
ClosedInv ==
  /\ ~reused =>
       /\ uv # "open" => ~pollin /\ ~pollout /\ ~fed /\ ~sock
       /\ uv = "closed" => writeq = <<>> /\ doneq = <<>>
  /\ connected => sock \/ uv # "open"

Pending == {p \in Ops : prom[p] = "pending"}

\* A pending promise has one owner, the slot if it is of a recv() and a request
\* if it is of a send(). The calls that were not made have no promise.
OwnInv ==
  /\ Pending = ({slot} \ {None}) \cup Ids(writeq) \cup Ids(doneq)
  /\ Ids(writeq) \cup Ids(doneq) \subseteq sends
  /\ slot \notin sends
  /\ \A p \in Ops : p > ops => prom[p] = "none" /\ got[p] = 0 /\ p \notin sends

\* Requests are queued in the order of their calls, and at most one that was
\* tried at once waits for its callback before them.
QueueInv ==
  /\ Ordered(writeq)
  /\ Len(doneq) <= 1
  /\ \A p \in Ids(doneq), q \in Ids(writeq) : p < q

Rising(s) == \A i, j \in DOMAIN s : i < j => s[i] < s[j]

\* Datagrams leave in the order of the calls.
SentInv ==
  /\ Rising(sent)
  /\ Values(sent) \subseteq sends
  /\ \A v \in Values(sent), q \in Ids(writeq) : v < q

\* A send() is told what happened to its datagram, and so will be the one that
\* was tried at once.
ToldInv ==
  /\ ~mmsg => \A p \in sends : /\ prom[p] = "resolved" => p \in Values(sent)
                               /\ prom[p] = "rejected" => p \notin Values(sent)
  /\ \A i \in DOMAIN doneq : doneq[i].ok <=> doneq[i].op \in Values(sent)

\* Datagrams are read in the order in which they came.
InboxInv ==
  /\ Rising(inbox)
  /\ \A v \in Values(inbox) \cup Values(taken) : v <= arrivals
  /\ \A v \in Values(taken), w \in Values(inbox) : v < w

Served == {p \in Ops : got[p] # 0}

\* What a recv() got was read, calls are served in their order, and the one that
\* is pending is behind them.
ServedInv ==
  /\ \A p \in Served : got[p] \in Values(taken) /\ prom[p] = "resolved"
  /\ \A p, q \in Served : p < q => got[p] < got[q]
  /\ slot # None => \A p \in Served : p < slot
  /\ ~reused => \A v \in Values(taken) : \E p \in Served : got[p] = v

RecvInv == ~reused => (slot # None <=> pollin)

UdpInv ==
  /\ TypeOK
  /\ LifeInv
  /\ ClosedInv
  /\ OwnInv
  /\ QueueInv
  /\ SentInv
  /\ ToldInv
  /\ InboxInv
  /\ ServedInv
  /\ RecvInv
  /\ FaultCause

-----------------------------------------------------------------------------
(***************************************************************************)
(* Sets of places in a queue                                               *)
(***************************************************************************)

\* A set of places that has all the places before each of its own is the front
\* of the queue.
LEMMA FrontPlaces ==
  ASSUME NEW n \in Nat, NEW D \in SUBSET (1..n),
         \A i \in D : \A j \in 1..n : j <= i => j \in D
  PROVE  \E k \in 0..n : D = 1..k
  <1> DEFINE T == {m \in Nat : m >= 1 /\ m \notin D}
             R == OpToRel(<, Nat)
  <1>1. IsWellFoundedOn(R, Nat)
    BY NatLessThanWellFounded
  <1>2. \A y, z \in Nat : y < z => <<y, z>> \in R
    BY DEF OpToRel
  <1>3. T \subseteq Nat /\ n + 1 \in T
    OBVIOUS
  <1> HIDE DEF R
  <1>4. PICK x \in T : \A y \in T : ~(<<y, x>> \in R)
    BY <1>1, <1>3, WFMin
  <1>5. x \in Nat /\ x >= 1 /\ x \notin D /\ \A y \in T : ~(y < x)
    BY <1>2, <1>4
  <1>6. x <= n + 1
    BY <1>3, <1>5
  <1>7. \A y \in D : y < x
    BY <1>5, <1>6
  <1>8. \A y \in 1..(x - 1) : y \in D
    BY <1>5
  <1>9. x - 1 \in 0..n
    BY <1>5, <1>6
  <1>10. \A y \in D : y \in 1..(x - 1)
    <2>1. \A y \in D : y \in Nat /\ 1 <= y
      OBVIOUS
    <2>2. QED
      BY <1>5, <1>7, <2>1
  <1>11. D = 1..(x - 1)
    BY <1>8, <1>10
  <1>12. QED
    BY <1>9, <1>11

\* How many places of a set are not behind i
Rank(is, i) == Cardinality({j \in is : j <= i})

\* Ranks count the places of a set: they are in order, and each number up to
\* the size of the set is the rank of one place.
LEMMA Ranks ==
  ASSUME NEW n \in Nat, NEW is \in SUBSET (1..n)
  PROVE  /\ IsFiniteSet(is)
         /\ Cardinality(is) \in Nat
         /\ \A i \in is : Rank(is, i) \in 1..Cardinality(is)
         /\ \A i, j \in is : i < j => Rank(is, i) < Rank(is, j)
         /\ \A m \in 1..Cardinality(is) : \E i \in is : Rank(is, i) = m
  <1> DEFINE Upto(i) == {j \in is : j <= i}
  <1>0. \A i \in is : i \in Nat
    OBVIOUS
  <1>1. IsFiniteSet(is) /\ Cardinality(is) \in Nat
    <2>1. IsFiniteSet(1..n)
      BY FS_Interval
    <2>2. QED
      BY <2>1, FS_Subset, FS_CardinalityType
  <1>2. ASSUME NEW i \in is
        PROVE  IsFiniteSet(Upto(i)) /\ Rank(is, i) \in 1..Cardinality(is)
    <2>1. Upto(i) \subseteq is
      OBVIOUS
    <2>2. i \in Upto(i)
      OBVIOUS
    <2>3. Rank(is, i) = Cardinality(Upto(i))
      BY DEF Rank
    <2> HIDE DEF Upto
    <2>4. IsFiniteSet(Upto(i)) /\ Cardinality(Upto(i)) <= Cardinality(is)
      BY <1>1, <2>1, FS_Subset
    <2>5. Cardinality(Upto(i)) \in Nat /\ Cardinality(Upto(i)) # 0
      BY <2>2, <2>4, FS_EmptySet, FS_CardinalityType
    <2>6. QED
      BY <1>1, <2>3, <2>4, <2>5
  <1>3. ASSUME NEW i \in is, NEW j \in is, i < j
        PROVE  Rank(is, i) < Rank(is, j)
    <2>1. Upto(i) \subseteq Upto(j) /\ j \in Upto(j) /\ j \notin Upto(i)
      <3>1. i \in Nat /\ j \in Nat /\ j <= j /\ ~(j <= i)
        BY <1>0, <1>3
      <3>2. \A m \in is : m <= i => m <= j
        BY <1>0, <1>3
      <3>3. QED
        BY <3>1, <3>2
    <2>2. /\ Rank(is, i) = Cardinality(Upto(i))
          /\ Rank(is, j) = Cardinality(Upto(j))
      BY DEF Rank
    <2>3. IsFiniteSet(Upto(j)) /\ Rank(is, i) \in Nat /\ Rank(is, j) \in Nat
      <3>1. /\ Rank(is, i) \in 1..Cardinality(is)
            /\ Rank(is, j) \in 1..Cardinality(is)
            /\ IsFiniteSet(Upto(j))
        BY <1>2
      <3> HIDE DEF Upto
      <3>2. QED
        BY <1>1, <3>1
    <2> HIDE DEF Upto
    <2>4. /\ Cardinality(Upto(i)) <= Cardinality(Upto(j))
          /\ Cardinality(Upto(j)) = Cardinality(Upto(i)) => Upto(j) = Upto(i)
      BY <2>1, <2>3, FS_Subset
    <2>5. QED
      BY <2>1, <2>2, <2>3, <2>4
  <1>4. \A m \in 1..Cardinality(is) : \E i \in is : Rank(is, i) = m
    <2> DEFINE f == [i \in is |-> Rank(is, i)]
               c == Cardinality(is)
    <2>1. f \in [is -> 1..c]
      BY <1>2
    <2>2. \A i, j \in is : i # j => f[i] # f[j]
      <3>1. \A i \in is : Rank(is, i) \in 1..c
        BY <1>2
      <3>2. \A i \in is : Rank(is, i) \in Nat
        BY <1>1, <3>1
      <3>3. QED
        BY <1>0, <1>3, <3>2
    <2>3. f \in Injection(is, 1..c)
      BY <2>1, <2>2 DEF Injection, IsInjective
    <2>4. IsFiniteSet(1..c) /\ Cardinality(1..c) = c
      BY <1>1, FS_Interval
    <2> HIDE DEF f
    <2>5. f \in Surjection(is, 1..c)
      BY <2>3, <2>4, FS_Injection
    <2>6. \A m \in 1..c : \E i \in is : f[i] = m
      BY <2>5 DEF Surjection
    <2>7. QED
      BY <2>6 DEF f
  <1>5. QED
    BY <1>1, <1>2, <1>3, <1>4

\* Nth enumerates a set of places from the front.
LEMMA NthPlaces ==
  ASSUME NEW n \in Nat, NEW is \in SUBSET (1..n)
  PROVE  /\ Cardinality(is) \in Nat
         /\ \A m \in 1..Cardinality(is) : Nth(is, m) \in is
         /\ \A m, k \in 1..Cardinality(is) : m < k => Nth(is, m) < Nth(is, k)
         /\ \A i \in is : \E m \in 1..Cardinality(is) : Nth(is, m) = i
  <1>0. \A m : Nth(is, m) = CHOOSE i \in is : Rank(is, i) = m
    BY DEF Nth, Rank
  <1>1. /\ Cardinality(is) \in Nat
        /\ \A i \in is : i \in Nat /\ Rank(is, i) \in 1..Cardinality(is)
        /\ \A i, j \in is : i < j => Rank(is, i) < Rank(is, j)
    <2>1. \A i \in is : i \in Nat
      OBVIOUS
    <2>2. QED
      BY <2>1, Ranks
  <1>2. ASSUME NEW m \in 1..Cardinality(is)
        PROVE  Nth(is, m) \in is /\ Rank(is, Nth(is, m)) = m
    <2>1. \E i \in is : Rank(is, i) = m
      BY Ranks
    <2>2. QED
      BY <1>0, <2>1
  <1>3. ASSUME NEW m \in 1..Cardinality(is), NEW k \in 1..Cardinality(is), m < k
        PROVE  Nth(is, m) < Nth(is, k)
    <2>1. PICK i \in is : i = Nth(is, m) /\ Rank(is, i) = m
      BY <1>2
    <2>2. PICK j \in is : j = Nth(is, k) /\ Rank(is, j) = k
      BY <1>2
    <2>3. i \in Nat /\ j \in Nat /\ m \in Nat /\ k \in Nat
      BY <1>1
    <2>4. ~(j < i) /\ i # j
      BY <1>1, <1>3, <2>1, <2>2, <2>3
    <2>5. QED
      BY <2>1, <2>2, <2>3, <2>4
  <1>4. ASSUME NEW i \in is
        PROVE  \E m \in 1..Cardinality(is) : Nth(is, m) = i
    <2>1. PICK m \in 1..Cardinality(is) : m = Rank(is, i)
      BY <1>1
    <2>2. PICK j \in is : j = Nth(is, m) /\ Rank(is, j) = m
      BY <1>2
    <2>3. i \in Nat /\ j \in Nat /\ Rank(is, i) \in Nat
      BY <1>1
    <2>4. i = j
      BY <1>1, <2>1, <2>2, <2>3
    <2>5. QED
      BY <2>2, <2>4
  <1>5. QED
    BY <1>1, <1>2, <1>3, <1>4

\* An ordered queue has as many calls as entries.
LEMMA OrderedCount ==
  ASSUME NEW S, NEW q \in Seq(S), Ordered(q), \A p \in Ids(q) : p \in Nat
  PROVE  IsFiniteSet(Ids(q)) /\ Cardinality(Ids(q)) = Len(q)
  <1> DEFINE f == [i \in 1..Len(q) |-> q[i].op]
  <1>1. Len(q) \in Nat /\ DOMAIN q = 1..Len(q)
    OBVIOUS
  <1>2. \A i \in 1..Len(q) : q[i].op \in Ids(q)
    BY <1>1 DEF Ids
  <1>3. f \in [1..Len(q) -> Ids(q)]
    BY <1>2
  <1>4. ASSUME NEW i \in 1..Len(q), NEW j \in 1..Len(q), i # j
        PROVE  f[i] # f[j]
    <2>1. q[i].op \in Nat /\ q[j].op \in Nat
      BY <1>2
    <2>2. i < j \/ j < i
      BY <1>4
    <2>3. q[i].op < q[j].op \/ q[j].op < q[i].op
      BY <1>1, <2>2 DEF Ordered
    <2>4. QED
      BY <2>1, <2>3
  <1>5. \A p \in Ids(q) : \E i \in 1..Len(q) : f[i] = p
    BY <1>1 DEF Ids
  <1>6. f \in Bijection(1..Len(q), Ids(q))
    BY <1>3, <1>4, <1>5 DEF Bijection, Injection, Surjection, IsInjective
  <1>7. ExistsBijection(1..Len(q), Ids(q))
    BY <1>6 DEF ExistsBijection
  <1>8. IsFiniteSet(1..Len(q)) /\ Cardinality(1..Len(q)) = Len(q)
    BY <1>1, FS_Interval
  <1>9. QED
    BY <1>7, <1>8, FS_Bijection

\* When the first k requests are completed the rest of the queue is as it was.
LEMMA RestQueue ==
  ASSUME NEW S, NEW q \in Seq(S), NEW k \in 0..Len(q), Ordered(q)
  PROVE  /\ SubSeq(q, k + 1, Len(q)) \in Seq(S)
         /\ Ordered(SubSeq(q, k + 1, Len(q)))
         /\ Ids(q) = {q[i].op : i \in 1..k} \cup Ids(SubSeq(q, k + 1, Len(q)))
         /\ \A i \in 1..k : \A p \in Ids(SubSeq(q, k + 1, Len(q))) : q[i].op < p
  <1> DEFINE t == SubSeq(q, k + 1, Len(q))
  <1>1. /\ Len(q) \in Nat
        /\ DOMAIN q = 1..Len(q)
        /\ t \in Seq(S)
        /\ DOMAIN t = 1..(Len(q) - k)
        /\ \A i \in DOMAIN t : t[i] = q[i + k]
    OBVIOUS
  <1> HIDE DEF t
  <1>2. Ordered(t)
    <2>1. SUFFICES ASSUME NEW i \in DOMAIN t, NEW j \in DOMAIN t, i < j
                   PROVE  t[i].op < t[j].op
      BY DEF Ordered
    <2>2. i + k \in DOMAIN q /\ j + k \in DOMAIN q /\ i + k < j + k
      BY <1>1, <2>1
    <2>3. q[i + k].op < q[j + k].op
      BY <2>2 DEF Ordered
    <2>4. QED
      BY <1>1, <2>3
  <1>3. Ids(q) = {q[i].op : i \in 1..k} \cup Ids(t)
    <2>1. ASSUME NEW i \in DOMAIN q
          PROVE  q[i].op \in {q[j].op : j \in 1..k} \cup Ids(t)
      <3>1. CASE i <= k
        BY <1>1, <3>1
      <3>2. CASE ~(i <= k)
        <4>1. i - k \in DOMAIN t /\ t[i - k] = q[i]
          BY <1>1, <3>2
        <4>2. QED
          BY <4>1 DEF Ids
      <3>3. QED
        BY <3>1, <3>2
    <2>2. ASSUME NEW i \in DOMAIN t PROVE t[i].op \in Ids(q)
      <3>1. i + k \in DOMAIN q /\ t[i] = q[i + k]
        BY <1>1
      <3>2. QED
        BY <3>1 DEF Ids
    <2>3. \A i \in 1..k : i \in DOMAIN q
      BY <1>1
    <2>4. QED
      BY <2>1, <2>2, <2>3 DEF Ids
  <1>4. ASSUME NEW i \in 1..k, NEW j \in DOMAIN t PROVE q[i].op < t[j].op
    <2>1. i \in DOMAIN q /\ j + k \in DOMAIN q /\ i < j + k /\ t[j] = q[j + k]
      BY <1>1
    <2>2. QED
      BY <2>1 DEF Ordered
  <1>5. QED
    BY <1>1, <1>2, <1>3, <1>4 DEF t, Ids

\* The calls of a set of places, from the front
CallsOf(q, is) == [n \in 1..Cardinality(is) |-> q[Nth(is, n)].op]

LEMMA CallsInOrder ==
  ASSUME NEW S, NEW q \in Seq(S), Ordered(q), NEW is \in SUBSET DOMAIN q,
         NEW T, \A i \in DOMAIN q : q[i].op \in T
  PROVE  /\ CallsOf(q, is) \in Seq(T)
         /\ Rising(CallsOf(q, is))
         /\ Values(CallsOf(q, is)) = {q[i].op : i \in is}
  <1> DEFINE c == CallsOf(q, is)
             m == Cardinality(is)
  <1>1. Len(q) \in Nat /\ DOMAIN q = 1..Len(q)
    OBVIOUS
  <1>2. /\ m \in Nat
        /\ \A i \in 1..m : Nth(is, i) \in is
        /\ \A i, j \in 1..m : i < j => Nth(is, i) < Nth(is, j)
        /\ \A i \in is : \E j \in 1..m : Nth(is, j) = i
    BY <1>1, NthPlaces
  <1>3. DOMAIN c = 1..m /\ \A i \in 1..m : c[i] = q[Nth(is, i)].op
    BY DEF CallsOf
  <1>4. c \in Seq(T)
    <2>1. \A i \in 1..m : q[Nth(is, i)].op \in T
      BY <1>2
    <2>2. [i \in 1..m |-> q[Nth(is, i)].op] \in Seq(T)
      BY <1>2, <2>1
    <2>3. QED
      BY <2>2 DEF CallsOf
  <1> HIDE DEF c, m
  <1>5. ASSUME NEW i \in 1..m, NEW j \in 1..m, i < j
        PROVE  c[i] < c[j]
    <2>1. PICK x \in DOMAIN q : x = Nth(is, i)
      BY <1>2
    <2>2. PICK y \in DOMAIN q : y = Nth(is, j)
      BY <1>2
    <2>3. x < y
      BY <1>2, <1>5, <2>1, <2>2
    <2>4. q[x].op < q[y].op
      BY <2>3 DEF Ordered
    <2>5. c[i] = q[x].op /\ c[j] = q[y].op
      BY <1>3, <2>1, <2>2
    <2>6. QED
      BY <2>4, <2>5
  <1>6. Values(c) = {q[i].op : i \in is}
    <2>1. ASSUME NEW i \in 1..m PROVE c[i] \in {q[j].op : j \in is}
      BY <1>2, <1>3
    <2>2. ASSUME NEW i \in is PROVE q[i].op \in Values(c)
      <3>1. PICK j \in 1..m : Nth(is, j) = i
        BY <1>2
      <3>2. c[j] = q[i].op /\ j \in DOMAIN c
        BY <1>3, <3>1
      <3>3. QED
        BY <3>2 DEF Values
    <2>3. Values(c) = {c[i] : i \in 1..m}
      BY <1>3 DEF Values
    <2>4. QED
      BY <2>1, <2>2, <2>3
  <1>7. QED
    BY <1>3, <1>4, <1>5, <1>6 DEF c, Rising

\* Behind a rising sequence, a rising one of greater values
LEMMA RisingConcat ==
  ASSUME NEW T, NEW s \in Seq(T), NEW t \in Seq(T), Rising(s), Rising(t),
         \A v \in Values(s), w \in Values(t) : v < w
  PROVE  /\ s \o t \in Seq(T)
         /\ Rising(s \o t)
         /\ Values(s \o t) = Values(s) \cup Values(t)
  <1> DEFINE r == s \o t
  <1>1. /\ r \in Seq(T)
        /\ Len(s) \in Nat /\ DOMAIN s = 1..Len(s)
        /\ Len(t) \in Nat /\ DOMAIN t = 1..Len(t)
        /\ DOMAIN r = 1..(Len(s) + Len(t))
        /\ \A i \in DOMAIN s : r[i] = s[i]
        /\ \A i \in DOMAIN t : r[i + Len(s)] = t[i]
    OBVIOUS
  <1> HIDE DEF r
  <1>2. ASSUME NEW i \in DOMAIN r
        PROVE  \/ i \in DOMAIN s /\ r[i] = s[i]
               \/ i - Len(s) \in DOMAIN t /\ r[i] = t[i - Len(s)] /\ i > Len(s)
    <2>1. CASE i <= Len(s)
      BY <1>1, <2>1
    <2>2. CASE ~(i <= Len(s))
      <3>1. i - Len(s) \in DOMAIN t /\ (i - Len(s)) + Len(s) = i /\ i > Len(s)
        BY <1>1, <2>2
      <3>2. QED
        BY <1>1, <3>1
    <2>3. QED
      BY <2>1, <2>2
  <1>3. Values(r) = Values(s) \cup Values(t)
    <2>1. Values(r) \subseteq Values(s) \cup Values(t)
      BY <1>2 DEF Values
    <2>2. \A i \in DOMAIN s : i \in DOMAIN r
      BY <1>1
    <2>3. \A i \in DOMAIN t : i + Len(s) \in DOMAIN r
      BY <1>1
    <2>4. \A i \in DOMAIN s : s[i] \in Values(r)
      BY <1>1, <2>2 DEF Values
    <2>5. ASSUME NEW i \in DOMAIN t PROVE t[i] \in Values(r)
      <3>1. t[i] = r[i + Len(s)] /\ i + Len(s) \in DOMAIN r
        BY <1>1, <2>3
      <3>2. QED
        BY <3>1 DEF Values
    <2>6. Values(s) \cup Values(t) \subseteq Values(r)
      BY <2>4, <2>5 DEF Values
    <2>7. QED
      BY <2>1, <2>6
  <1>4. ASSUME NEW i \in DOMAIN r, NEW j \in DOMAIN r, i < j
        PROVE  r[i] < r[j]
    <2>1. CASE j \in DOMAIN s /\ r[j] = s[j]
      <3>1. i \in DOMAIN s /\ r[i] = s[i]
        BY <1>1, <1>4, <2>1
      <3>2. QED
        BY <1>4, <2>1, <3>1 DEF Rising
    <2>2. CASE j - Len(s) \in DOMAIN t /\ r[j] = t[j - Len(s)] /\ j > Len(s)
      <3>1. CASE i \in DOMAIN s /\ r[i] = s[i]
        BY <2>2, <3>1 DEF Values
      <3>2. CASE i - Len(s) \in DOMAIN t /\ r[i] = t[i - Len(s)] /\ i > Len(s)
        <4>1. i - Len(s) < j - Len(s)
          BY <1>1, <1>4
        <4>2. QED
          BY <2>2, <3>2, <4>1 DEF Rising
      <3>3. QED
        BY <1>2, <3>1, <3>2
    <2>3. QED
      BY <1>2, <2>1, <2>2
  <1>5. QED
    BY <1>1, <1>3, <1>4 DEF r, Rising

\* The same with one value
LEMMA RisingAppend ==
  ASSUME NEW T, NEW s \in Seq(T), NEW e \in T, Rising(s), \A v \in Values(s) : v < e
  PROVE  /\ Append(s, e) \in Seq(T)
         /\ Rising(Append(s, e))
         /\ Values(Append(s, e)) = Values(s) \cup {e}
  <1> DEFINE r == Append(s, e)
  <1>1. /\ r \in Seq(T)
        /\ Len(s) \in Nat /\ DOMAIN s = 1..Len(s)
        /\ DOMAIN r = 1..(Len(s) + 1)
        /\ \A i \in DOMAIN s : r[i] = s[i]
        /\ r[Len(s) + 1] = e
    OBVIOUS
  <1> HIDE DEF r
  <1>2. \A i \in DOMAIN r : i \in DOMAIN s \/ i = Len(s) + 1
    BY <1>1
  <1>3. \A i \in DOMAIN s : i \in DOMAIN r /\ s[i] < e
    BY <1>1 DEF Values
  <1>4. Len(s) + 1 \in DOMAIN r
    BY <1>1
  <1>5. Values(r) = Values(s) \cup {e}
    BY <1>1, <1>2, <1>3, <1>4 DEF Values
  <1>6. ASSUME NEW i \in DOMAIN r, NEW j \in DOMAIN r, i < j
        PROVE  r[i] < r[j]
    <2>1. i \in DOMAIN s
      BY <1>1, <1>6
    <2>2. QED
      BY <1>1, <1>2, <1>3, <1>6, <2>1 DEF Rising
  <1>7. QED
    BY <1>1, <1>5, <1>6 DEF r, Rising

\* The rest of a rising sequence
LEMMA RisingTail ==
  ASSUME NEW T, NEW s \in Seq(T), s # <<>>, Rising(s)
  PROVE  /\ Head(s) \in T
         /\ Tail(s) \in Seq(T)
         /\ Rising(Tail(s))
         /\ Values(s) = Values(Tail(s)) \cup {Head(s)}
         /\ \A v \in Values(Tail(s)) : Head(s) < v
  <1> DEFINE t == Tail(s)
  <1>1. /\ Len(s) \in Nat \ {0}
        /\ DOMAIN s = 1..Len(s)
        /\ t \in Seq(T)
        /\ DOMAIN t = 1..(Len(s) - 1)
        /\ \A i \in DOMAIN t : t[i] = s[i + 1]
        /\ Head(s) = s[1]
        /\ 1 \in DOMAIN s
    OBVIOUS
  <1>2. Head(s) \in T
    OBVIOUS
  <1> HIDE DEF t
  <1>3. \A i \in DOMAIN t : i + 1 \in DOMAIN s /\ 1 < i + 1
    BY <1>1
  <1>4. \A i \in DOMAIN s : i = 1 \/ (i - 1 \in DOMAIN t /\ t[i - 1] = s[i])
    BY <1>1
  <1>5. Rising(t)
    <2>1. SUFFICES ASSUME NEW i \in DOMAIN t, NEW j \in DOMAIN t, i < j
                   PROVE  t[i] < t[j]
      BY DEF Rising
    <2>2. i + 1 < j + 1
      BY <1>1, <2>1
    <2>3. QED
      BY <1>1, <1>3, <2>2 DEF Rising
  <1>6. Values(s) = Values(t) \cup {Head(s)}
    BY <1>1, <1>3, <1>4 DEF Values
  <1>7. \A i \in DOMAIN t : Head(s) < t[i]
    BY <1>1, <1>3 DEF Rising
  <1>8. QED
    BY <1>1, <1>2, <1>5, <1>6, <1>7 DEF t, Values

\* The empty sequence
LEMMA RisingEmpty == Rising(<<>>)
  BY DEF Rising

-----------------------------------------------------------------------------
(***************************************************************************)
(* Types                                                                   *)
(***************************************************************************)

\* The conjuncts of TypeOK, apart
Flags == {closed, finalized, held, sock, connected, pollin, pollout, fed, mmsg, reused}
           \subseteq BOOLEAN

WriteReqs == [op : Ops, fits : BOOLEAN]

DoneReqs == [op : Ops, ok : BOOLEAN]

Queues == writeq \in Seq(WriteReqs) /\ doneq \in Seq(DoneReqs)

Promises == prom \in [Ops -> {"none", "pending", "resolved", "rejected", "dropped"}]

Net == room \in 0..Room /\ ops \in 0..MaxOps /\ arrivals \in 0..MaxArrivals

Outgoing == unkept \subseteq Ops /\ sends \subseteq Ops /\ sent \in Seq(Ops)

Incoming ==
  /\ slot \in Ops \cup {None}
  /\ inbox \in Seq(1..MaxArrivals)
  /\ taken \in Seq(1..MaxArrivals)
  /\ got \in [Ops -> 0..MaxArrivals]

States ==
  /\ ctx \in {"live", "freed"}
  /\ mem \in {"live", "freed"}
  /\ uv \in {"open", "closing", "closed"}
  /\ fault \in {"none", "freedContext", "freedHandle", "freedBuffer", "noDescriptor",
                "reopened", "unclosed"}

LEMMA TypeParts ==
  TypeOK <=> Flags /\ Queues /\ Promises /\ Net /\ Outgoing /\ Incoming /\ States
  BY DEF TypeOK, Flags, Queues, WriteReqs, DoneReqs, Promises, Net, Outgoing, Incoming, States

LEMMA Constants ==
  /\ Room \in Nat \ {0} /\ MaxArrivals \in Nat /\ MaxOps \in Nat
  /\ Ops \subseteq Nat \ {0} /\ None \notin Ops
  BY UdpAssumption DEF Ops

LEMMA FeedIsBoolean == Transmit.feed \in BOOLEAN
  BY DEF Transmit, Batch, OneByOne

\* The flags stay Boolean.
LEMMA FlagsStep ==
  ASSUME Flags, [Next]_vars
  PROVE  Flags'
  <1> USE DEF Flags, lifeVars, pollVars, sockVars, netVars, sendVars, recvVars
  <1>1. CASE Bind \/ Connect \/ Recv
    BY <1>1, Zenon DEF Bind, Connect, Recv, DeferredBind, Reuse
  <1>2. CASE Close \/ Drop
    BY <1>2, Zenon DEF Close, Drop, MaybeClose, StopIo
  <1>3. ASSUME NEW f \in BOOLEAN, NEW g \in BOOLEAN, Send(f, g) PROVE Flags'
    <2>1. {sock', reused'} \subseteq BOOLEAN
      BY <1>3, Zenon DEF Send, DeferredBind, Reuse
    <2>2. {fed', pollout'} \subseteq BOOLEAN
      BY <1>3, Zenon DEF Send, SendNow, SendAgain, SendStale, SendLater
    <2>3. UNCHANGED <<closed, finalized, held, connected, pollin, mmsg>>
      BY <1>3, Zenon DEF Send
    <2>4. QED
      BY <2>1, <2>2, <2>3, Zenon
  <1>4. ASSUME NEW p \in Ops, LetGo(p) PROVE Flags'
    BY <1>4, Zenon DEF LetGo
  <1>5. CASE CloseCb
    BY <1>5, Zenon DEF CloseCb
  <1>6. ASSUME NEW ok \in BOOLEAN, RecvCb(ok) PROVE Flags'
    BY <1>6, Zenon DEF RecvCb, RecvStop
  <1>7. CASE SendIo
    BY <1>7, FeedIsBoolean, Zenon DEF SendIo, StillWatched
  <1>8. CASE SendFreed \/ StaleCallback \/ Arrive \/ Drain
    BY <1>8, Zenon DEF SendFreed, StaleCallback, Arrive, Drain
  <1>9. CASE Collect \/ FreeContext
    BY <1>9, Zenon DEF Collect, FreeContext, Finalizer, MaybeClose, StopIo
  <1>10. CASE UNCHANGED vars
    BY <1>10, Zenon DEF vars
  <1>11. QED
    BY <1>1, <1>2, <1>3, <1>4, <1>5, <1>6, <1>7, <1>8, <1>9, <1>10
    DEF Next, Program, Loop, Environment

\* So do the names of the states.
LEMMA StatesStep ==
  ASSUME States, [Next]_vars
  PROVE  States'
  <1> USE DEF States, lifeVars, pollVars, sockVars, netVars, sendVars, recvVars
  <1>1. CASE Bind \/ Connect \/ Recv
    BY <1>1 DEF Bind, Connect, Recv
  <1>2. CASE Close \/ Drop
    BY <1>2 DEF Close, Drop, MaybeClose
  <1>3. ASSUME NEW f \in BOOLEAN, NEW g \in BOOLEAN, Send(f, g) PROVE States'
    BY <1>3 DEF Send, SendNow, SendAgain, SendStale, SendLater
  <1>4. ASSUME NEW p \in Ops, LetGo(p) PROVE States'
    BY <1>4 DEF LetGo
  <1>5. CASE CloseCb
    BY <1>5 DEF CloseCb, CloseFrees
  <1>6. ASSUME NEW ok \in BOOLEAN, RecvCb(ok) PROVE States'
    BY <1>6 DEF RecvCb
  <1>7. CASE SendIo
    BY <1>7 DEF SendIo
  <1>8. CASE SendFreed \/ StaleCallback \/ Arrive \/ Drain
    BY <1>8 DEF SendFreed, StaleCallback, Arrive, Drain
  <1>9. CASE Collect \/ FreeContext
    BY <1>9 DEF Collect, FreeContext, Finalizer, FinalizeFrees, MaybeClose
  <1>10. CASE UNCHANGED vars
    BY <1>10 DEF vars
  <1>11. QED
    BY <1>1, <1>2, <1>3, <1>4, <1>5, <1>6, <1>7, <1>8, <1>9, <1>10
    DEF Next, Program, Loop, Environment

-----------------------------------------------------------------------------
(***************************************************************************)
(* Life of the struct, and what is left of a handle that was closed        *)
(***************************************************************************)

\* The finalizer and the close callback, in either order, free the struct when
\* the other has been there.
LEMMA LifeStep ==
  ASSUME Flags, States, LifeInv, [Next]_vars
  PROVE  LifeInv'
  <1> USE DEF LifeInv, lifeVars, pollVars, sockVars, netVars, sendVars, recvVars
  <1>1. CASE Bind \/ Connect
    BY <1>1 DEF Bind, Connect
  <1>2. CASE Recv
    BY <1>2 DEF Recv, Call
  <1>3. CASE Close
    BY <1>3 DEF Close, Call, EndRecv, Flags, MaybeClose
  <1>4. CASE Drop
    BY <1>4 DEF Drop, Flags
  <1>5. ASSUME NEW f \in BOOLEAN, NEW g \in BOOLEAN, Send(f, g) PROVE LifeInv'
    <2>1. UNCHANGED <<ctx, mem, closed, finalized, held, uv, slot>> /\ ctx = "live"
      BY <1>5 DEF Send, Call
    <2>2. QED
      BY <2>1
  <1>6. ASSUME NEW p \in Ops, LetGo(p) PROVE LifeInv'
    BY <1>6 DEF LetGo
  <1>7. CASE CloseCb
    <2>1. CASE sock \/ pollin \/ pollout \/ (ctx = "freed" /\ Requests # {})
      BY <1>7, <2>1 DEF CloseCb
    <2>2. CASE ~(sock \/ pollin \/ pollout \/ (ctx = "freed" /\ Requests # {}))
      BY <1>7, <2>2 DEF CloseCb, CloseFrees, Flags, States
    <2>3. QED
      BY <2>1, <2>2
  <1>8. ASSUME NEW ok \in BOOLEAN, RecvCb(ok) PROVE LifeInv'
    BY <1>8 DEF RecvCb, ClearRecv
  <1>9. CASE SendIo
    BY <1>9 DEF SendIo
  <1>10. CASE SendFreed \/ StaleCallback \/ Arrive \/ Drain
    BY <1>10 DEF SendFreed, StaleCallback, Arrive, Drain
  <1>11. ASSUME Finalizer, ~held \/ ctx' = "freed" PROVE LifeInv'
    <2>1. (uv = "closed" <=> uv' = "closed") /\ uv' # "open"
      BY <1>11 DEF Finalizer, MaybeClose, Flags
    <2>2. QED
      BY <1>11, <2>1 DEF Finalizer, FinalizeFrees, Flags, States
  <1>12. CASE Collect
    BY <1>11, <1>12 DEF Collect
  <1>13. CASE FreeContext
    <2>1. CASE Finalizer
      BY <1>11, <1>13, <2>1 DEF FreeContext
    <2>2. CASE ~Finalizer
      BY <1>13, <2>2 DEF FreeContext
    <2>3. QED
      BY <2>1, <2>2
  <1>14. CASE UNCHANGED vars
    BY <1>14 DEF vars
  <1>15. QED
    BY <1>1, <1>2, <1>3, <1>4, <1>5, <1>6, <1>7, <1>8, <1>9, <1>10, <1>12, <1>13, <1>14
    DEF Next, Program, Loop, Environment

\* What close() stopped stays stopped, unless a call uses the handle again.
LEMMA ClosedStep ==
  ASSUME Flags, States, ClosedInv, [Next]_vars
  PROVE  ClosedInv'
  <1> USE DEF ClosedInv, lifeVars, pollVars, sockVars, netVars, sendVars, recvVars
  <1>1. CASE Bind \/ Connect \/ Recv
    BY <1>1 DEF Bind, Connect, Recv, DeferredBind, Reuse
  <1>2. CASE Close
    BY <1>2 DEF Close, MaybeClose, StopIo
  <1>3. CASE Drop
    BY <1>3 DEF Drop
  <1>4. ASSUME NEW f \in BOOLEAN, NEW g \in BOOLEAN, Send(f, g) PROVE ClosedInv'
    <2>1. /\ reused' = (reused \/ uv # "open")
          /\ uv' = uv /\ connected' = connected
          /\ connected => sock' = sock
      BY <1>4 DEF Send, DeferredBind, Reuse
    <2>2. QED
      BY <2>1 DEF Flags
  <1>5. ASSUME NEW p \in Ops, LetGo(p) PROVE ClosedInv'
    BY <1>5 DEF LetGo
  <1>6. CASE CloseCb
    BY <1>6 DEF CloseCb
  <1>7. ASSUME NEW ok \in BOOLEAN, RecvCb(ok) PROVE ClosedInv'
    BY <1>7 DEF RecvCb, CanRecvCb, RecvStop
  <1>8. CASE SendIo
    <2>1. fed \/ pollout
      BY <1>8 DEF SendIo, CanSendIo
    <2>2. UNCHANGED <<uv, reused, connected, sock>>
      BY <1>8 DEF SendIo
    <2>3. QED
      BY <2>1, <2>2
  <1>9. CASE SendFreed \/ StaleCallback \/ Arrive \/ Drain
    BY <1>9 DEF SendFreed, StaleCallback, Arrive, Drain
  <1>10. ASSUME Finalizer PROVE ClosedInv'
    BY <1>10 DEF Finalizer, MaybeClose, StopIo
  <1>11. CASE Collect
    BY <1>10, <1>11 DEF Collect
  <1>12. CASE FreeContext
    BY <1>10, <1>12 DEF FreeContext
  <1>13. CASE UNCHANGED vars
    BY <1>13 DEF vars
  <1>14. QED
    BY <1>1, <1>2, <1>3, <1>4, <1>5, <1>6, <1>7, <1>8, <1>9, <1>11, <1>12, <1>13
    DEF Next, Program, Loop, Environment

\* The slot and the watcher are taken and given up together.
LEMMA RecvStep ==
  ASSUME Flags, States, Net, Incoming, LifeInv, ClosedInv, RecvInv, [Next]_vars
  PROVE  RecvInv'
  <1> USE DEF RecvInv, lifeVars, pollVars, sockVars, netVars, sendVars, recvVars
  <1>1. CASE Bind \/ Connect
    BY <1>1 DEF Bind, Connect, DeferredBind, Reuse, Flags
  <1>2. CASE Recv
    <2>1. pollin' = TRUE /\ slot' = ops + 1 /\ ops \in Nat
      BY <1>2, Constants DEF Recv, Net
    <2>2. slot' # None
      BY <2>1, UdpAssumption
    <2>3. QED
      BY <2>1, <2>2
  <1>3. CASE Close
    <2>1. slot' = None /\ reused' = reused
      BY <1>3 DEF Close, EndRecv
    <2>2. ~reused => ~pollin'
      BY <1>3 DEF Close, MaybeClose, StopIo, ClosedInv, Flags
    <2>3. QED
      BY <2>1, <2>2
  <1>4. CASE Drop
    BY <1>4 DEF Drop
  <1>5. ASSUME NEW f \in BOOLEAN, NEW g \in BOOLEAN, Send(f, g) PROVE RecvInv'
    <2>1. reused' = (reused \/ uv # "open") /\ UNCHANGED <<slot, pollin>>
      BY <1>5 DEF Send, DeferredBind, Reuse
    <2>2. QED
      BY <2>1 DEF Flags
  <1>6. ASSUME NEW p \in Ops, LetGo(p) PROVE RecvInv'
    BY <1>6 DEF LetGo
  <1>7. CASE CloseCb
    BY <1>7 DEF CloseCb
  <1>8. ASSUME NEW ok \in BOOLEAN, RecvCb(ok) PROVE RecvInv'
    BY <1>8 DEF RecvCb, RecvStop, ClearRecv
  <1>9. CASE SendIo
    BY <1>9 DEF SendIo
  <1>10. CASE SendFreed \/ StaleCallback \/ Arrive \/ Drain
    BY <1>10 DEF SendFreed, StaleCallback, Arrive, Drain
  <1>11. ASSUME Finalizer PROVE RecvInv'
    <2>1. slot' = None /\ reused' = reused
      BY <1>11 DEF Finalizer
    <2>2. ~reused => ~pollin'
      BY <1>11 DEF Finalizer, MaybeClose, StopIo, LifeInv, ClosedInv, Flags
    <2>3. QED
      BY <2>1, <2>2
  <1>12. CASE Collect
    BY <1>11, <1>12 DEF Collect
  <1>13. CASE FreeContext
    BY <1>11, <1>13 DEF FreeContext
  <1>14. CASE UNCHANGED vars
    BY <1>14 DEF vars
  <1>15. QED
    BY <1>1, <1>2, <1>3, <1>4, <1>5, <1>6, <1>7, <1>8, <1>9, <1>10, <1>12, <1>13, <1>14
    DEF Next, Program, Loop, Environment

\* An undefined state comes of a handle that is used after close(), of a buffer
\* that is not kept or of a context that is freed with a call pending.
LEMMA FaultStep ==
  ASSUME Flags, States, LifeInv, ClosedInv, FaultCause, [Next]_vars
  PROVE  FaultCause'
  <1> USE DEF FaultCause, lifeVars, pollVars, sockVars, netVars, sendVars, recvVars
  <1>f. ASSUME fault = "none", UNCHANGED fault PROVE FaultCause'
    BY <1>f
  <1>1. CASE Program /\ ~(\E f, g \in BOOLEAN : Send(f, g))
    BY <1>1, <1>f DEF Program, Bind, Connect, Recv, Close, Drop, LetGo, Call
  <1>2. ASSUME NEW f \in BOOLEAN, NEW g \in BOOLEAN, Send(f, g) PROVE FaultCause'
    <2>1. fault = "none" /\ (fault' = fault \/ ~Usable \/ unkept' # {})
      BY <1>2 DEF Send, SendNow, SendAgain, SendStale, SendLater, Call
    <2>2. ~Usable => reused'
      BY <1>2 DEF Send, Reuse, Usable, ClosedInv, Flags
    <2>3. QED
      BY <1>f, <2>1, <2>2
  <1>3. CASE CloseCb
    <2>1. CASE sock \/ pollin \/ pollout
      BY <1>3, <2>1 DEF CloseCb, ClosedInv
    <2>2. CASE ~(sock \/ pollin \/ pollout) /\ ctx = "freed" /\ Requests # {}
      <3>1. UNCHANGED <<ctx, writeq, doneq>>
        BY <1>3, <2>2 DEF CloseCb
      <3>2. Requests' = Requests
        BY <3>1 DEF Requests, Queued, Sent, Failed
      <3>3. QED
        BY <2>2, <3>1, <3>2
    <2>3. CASE ~(sock \/ pollin \/ pollout) /\ ~(ctx = "freed" /\ Requests # {})
      BY <1>3, <1>f, <2>3 DEF CloseCb
    <2>4. QED
      BY <2>1, <2>2, <2>3
  <1>4. ASSUME NEW ok \in BOOLEAN, RecvCb(ok) PROVE FaultCause'
    BY <1>4, <1>f DEF RecvCb, Callback
  <1>5. CASE SendIo
    BY <1>5, <1>f DEF SendIo, Callback
  <1>6. CASE SendFreed
    BY <1>6 DEF SendFreed
  <1>7. CASE StaleCallback
    <2>1. uv # "open" /\ (pollin \/ fed \/ pollout)
      BY <1>7 DEF StaleCallback, Callback, CanRecvCb, CanSendIo, LifeInv, States
    <2>2. reused /\ reused' = reused
      BY <1>7, <2>1 DEF ClosedInv, StaleCallback, Flags
    <2>3. QED
      BY <2>2
  <1>8. CASE Arrive \/ Drain \/ Collect
    BY <1>8, <1>f DEF Arrive, Drain, Collect
  <1>9. CASE FreeContext
    <2>1. CASE UNCHANGED fault
      BY <1>9, <1>f, <2>1 DEF FreeContext
    <2>2. CASE fault' # fault
      BY <1>9, <2>2 DEF FreeContext
    <2>3. QED
      BY <2>1, <2>2
  <1>10. CASE UNCHANGED vars
    BY <1>10 DEF vars, Requests, Queued, Sent, Failed
  <1>11. QED
    BY <1>1, <1>2, <1>3, <1>4, <1>5, <1>6, <1>7, <1>8, <1>9, <1>10
    DEF Next, Program, Loop, Environment

-----------------------------------------------------------------------------
(***************************************************************************)
(* What the kernel takes of the queue                                      *)
(***************************************************************************)

\* The places of a queue up to which no more than r of the places P come are the
\* front of the queue.
LEMMA UpToRoom ==
  ASSUME NEW n \in Nat, NEW r \in Nat, NEW P
  PROVE  \E k \in 0..n :
           /\ {i \in 1..n : Cardinality({j \in 1..i : j \in P}) <= r} = 1..k
           /\ Cardinality({j \in 1..k : j \in P}) \in 0..r
  <1> DEFINE Up(i) == {j \in 1..i : j \in P}
             D == {i \in 1..n : Cardinality(Up(i)) <= r}
  <1>1. ASSUME NEW i \in Nat PROVE IsFiniteSet(Up(i)) /\ Cardinality(Up(i)) \in Nat
    <2>1. IsFiniteSet(1..i) /\ Up(i) \subseteq 1..i
      BY <1>1, FS_Interval
    <2> HIDE DEF Up
    <2>2. IsFiniteSet(Up(i))
      BY <2>1, FS_Subset
    <2>3. QED
      BY <2>2, FS_CardinalityType
  <1>2. ASSUME NEW i \in D, NEW j \in 1..n, j <= i PROVE j \in D
    <2>1. Up(j) \subseteq Up(i) /\ i \in Nat /\ j \in Nat
      BY <1>2
    <2>2. Cardinality(Up(i)) <= r
      OBVIOUS
    <2>3. Cardinality(Up(j)) \in Nat /\ IsFiniteSet(Up(i)) /\ Cardinality(Up(i)) \in Nat
      BY <1>1, <2>1
    <2>4. Cardinality(Up(j)) <= r
      <3> HIDE DEF Up
      <3>1. Cardinality(Up(j)) <= Cardinality(Up(i))
        BY <2>1, <2>3, FS_Subset
      <3>2. QED
        BY <2>2, <2>3, <3>1
    <2>5. QED
      BY <2>4
  <1>3. D \in SUBSET (1..n)
    OBVIOUS
  <1>4. PICK k \in 0..n : D = 1..k
    <2> HIDE DEF D
    <2>1. QED
      BY <1>2, <1>3, FrontPlaces
  <1>5. Cardinality(Up(k)) \in 0..r
    <2>1. CASE k = 0
      <3>1. Up(k) = {}
        BY <2>1
      <3> HIDE DEF Up
      <3>2. QED
        BY <3>1, FS_EmptySet
    <2>2. CASE k # 0
      <3>1. k \in D /\ k \in Nat
        BY <1>4, <2>2
      <3>2. Cardinality(Up(k)) <= r
        BY <3>1
      <3>3. Cardinality(Up(k)) \in Nat
        BY <1>1, <3>1
      <3> HIDE DEF Up
      <3>4. QED
        BY <3>2, <3>3
    <2>3. QED
      BY <2>1, <2>2
  <1>6. QED
    BY <1>4, <1>5

\* What is reported as sent is the front of the queue, and so is all that is
\* completed: a batch that fails begins where the others end.
LEMMA BatchFront ==
  ASSUME Queues
  PROVE  /\ \E k \in 0..Len(writeq) : Batch.done = 1..k
         /\ Batch.good \subseteq Batch.done
  <1> DEFINE n == Len(writeq)
             good == {i \in DOMAIN writeq : \A s \in Begins : s <= i => Goes(s)}
             bad == {i \in DOMAIN writeq :
                       \E s \in Begins : s <= i /\ i < s + Width /\ Refused(s)}
             D == good \cup bad
  <1>1. n \in Nat /\ DOMAIN writeq = 1..n
    BY DEF Queues
  <1>2. Begins \subseteq 1..n
    BY <1>1 DEF Begins
  <1>3. Width \in Nat
    BY UdpAssumption
  <1>4. ASSUME NEW i \in D, NEW j \in 1..n, j <= i PROVE j \in D
    <2>1. i \in 1..n /\ j \in DOMAIN writeq
      BY <1>1
    <2>2. CASE i \in good
      <3>1. \A s \in Begins : s <= j => Goes(s)
        BY <1>2, <1>4, <2>1, <2>2
      <3>2. QED
        BY <2>1, <3>1
    <2>3. CASE i \in bad
      <3>1. PICK s \in Begins : s <= i /\ i < s + Width /\ Refused(s)
        BY <2>3
      <3>2. s \in 1..n
        BY <1>2
      <3>3. CASE s <= j
        <4>1. j < s + Width
          BY <1>3, <1>4, <2>1, <3>1, <3>2
        <4>2. QED
          BY <2>1, <3>1, <3>3, <4>1
      <3>4. CASE ~(s <= j)
        <4>1. \A t \in Begins : t < s => Goes(t)
          BY <3>1 DEF Refused
        <4>2. \A t \in Begins : t <= j => Goes(t)
          BY <1>2, <3>2, <3>4, <4>1
        <4>3. QED
          BY <2>1, <4>2
      <3>5. QED
        BY <3>3, <3>4
    <2>4. QED
      BY <2>2, <2>3
  <1>5. D \in SUBSET (1..n)
    BY <1>1
  <1>6. Batch.done = D /\ Batch.good = good
    BY DEF Batch
  <1>7. good \subseteq D
    OBVIOUS
  <1> HIDE DEF D, n, good
  <1>8. \E k \in 0..n : D = 1..k
    BY <1>1, <1>4, <1>5, FrontPlaces
  <1>9. QED
    BY <1>6, <1>7, <1>8 DEF n

\* The front of the queue is completed. What the kernel took is a part of it, for
\* which there was room, and without sendmmsg it is what is reported as sent.
LEMMA TransmitFacts ==
  ASSUME Flags, Queues, Net
  PROVE  \E k \in 0..Len(writeq) :
           /\ Transmit.done = 1..k
           /\ Transmit.good \subseteq 1..k
           /\ Transmit.sent \subseteq 1..k
           /\ Cardinality(Transmit.sent) \in 0..room
           /\ ~mmsg => Transmit.good = Transmit.sent
  <1> DEFINE n == Len(writeq)
  <1>1. n \in Nat /\ DOMAIN writeq = 1..n
    BY DEF Queues
  <1>2. room \in Nat
    BY Constants DEF Net
  <1>3. CASE mmsg
    <2> DEFINE P == {j \in 1..n : Clean(j)}
               T == Batch.sent
    <2>1. Transmit = Batch
      BY <1>3 DEF Transmit
    <2>2. PICK k \in 0..n : Batch.done = 1..k /\ Batch.good \subseteq 1..k
      BY BatchFront
    <2>3. PICK m \in 0..n :
            /\ {i \in 1..n : Cardinality({j \in 1..i : j \in P}) <= room} = 1..m
            /\ Cardinality({j \in 1..m : j \in P}) \in 0..room
      <3> HIDE DEF P, n
      <3>1. QED
        BY <1>1, <1>2, UpToRoom
    <2>4. T = {i \in Batch.good : Clean(i) /\ Cardinality(Taken(i)) <= room}
      BY DEF Batch
    <2>5. \A i \in 1..n : Taken(i) = {j \in 1..i : j \in P}
      BY <1>1 DEF Taken
    <2>6. T \subseteq {j \in 1..m : j \in P}
      <3>1. SUFFICES ASSUME NEW i \in T PROVE i \in 1..m /\ i \in P
        OBVIOUS
      <3>2. i \in 1..n /\ Clean(i) /\ Cardinality(Taken(i)) <= room
        BY <1>1, <2>2, <2>4, <3>1
      <3>3. Taken(i) = {j \in 1..i : j \in P}
        BY <2>5, <3>2
      <3>4. Cardinality({j \in 1..i : j \in P}) <= room
        BY <3>2, <3>3
      <3>5. i \in {l \in 1..n : Cardinality({j \in 1..l : j \in P}) <= room}
        BY <3>2, <3>4
      <3>6. QED
        BY <2>3, <3>2, <3>5
    <2>7. T \subseteq 1..k
      BY <2>2, <2>4
    <2> DEFINE U == {j \in 1..m : j \in P}
    <2>8. T \subseteq U /\ IsFiniteSet(U) /\ Cardinality(U) \in 0..room
      <3>1. IsFiniteSet(1..m) /\ U \subseteq 1..m
        BY FS_Interval
      <3>2. T \subseteq U /\ Cardinality(U) \in 0..room
        BY <2>3, <2>6
      <3> HIDE DEF U, T
      <3>3. QED
        BY <3>1, <3>2, FS_Subset
    <2>9. Cardinality(T) \in 0..room
      <3> HIDE DEF T, U
      <3>1. IsFiniteSet(T) /\ Cardinality(T) <= Cardinality(U)
        BY <2>8, FS_Subset
      <3>2. Cardinality(T) \in Nat
        BY <3>1, FS_CardinalityType
      <3>3. QED
        BY <1>2, <2>8, <3>1, <3>2
    <2>10. QED
      BY <1>3, <2>1, <2>2, <2>7, <2>9
  <1>4. CASE ~mmsg
    <2> DEFINE P == {j \in 1..n : writeq[j].fits}
               done == {i \in DOMAIN writeq : Cardinality(Fitting(i)) <= room}
               good == {i \in done : writeq[i].fits}
    <2>1. Transmit.done = done /\ Transmit.good = good /\ Transmit.sent = good
      BY <1>4 DEF Transmit, OneByOne
    <2>2. PICK k \in 0..n :
            /\ {i \in 1..n : Cardinality({j \in 1..i : j \in P}) <= room} = 1..k
            /\ Cardinality({j \in 1..k : j \in P}) \in 0..room
      <3> HIDE DEF P, n
      <3>1. QED
        BY <1>1, <1>2, UpToRoom
    <2>3. \A i \in 1..n : Fitting(i) = {j \in 1..i : j \in P}
      BY <1>1 DEF Fitting
    <2>4. done = {i \in 1..n : Cardinality({j \in 1..i : j \in P}) <= room}
      <3>1. done = {i \in 1..n : Cardinality(Fitting(i)) <= room}
        BY <1>1
      <3> HIDE DEF P, done
      <3>2. QED
        BY <2>3, <3>1
    <2>5. done = 1..k
      BY <2>2, <2>4
    <2>6. good = {j \in 1..k : j \in P} /\ good \subseteq 1..k
      <3>1. good = {i \in 1..k : writeq[i].fits}
        BY <2>5
      <3> HIDE DEF good
      <3>2. QED
        BY <1>1, <3>1
    <2> HIDE DEF done, good
    <2>7. QED
      BY <1>4, <2>1, <2>2, <2>5, <2>6
  <1>5. QED
    BY <1>3, <1>4

\* The counters stay in their ranges, and the kernel never holds more than Room.
LEMMA NetStep ==
  ASSUME Flags, Queues, Net, [Next]_vars
  PROVE  Net' /\ ops' >= ops
  <1> USE DEF Net, Call, lifeVars, pollVars, sockVars, netVars, sendVars, recvVars
  <1>s. Room \in Nat \ {0} /\ MaxArrivals \in Nat /\ MaxOps \in Nat
    BY Constants
  <1>1. CASE Bind \/ Connect \/ Recv
    BY <1>1, <1>s DEF Bind, Connect, Recv
  <1>2. CASE Close \/ Drop
    BY <1>2, <1>s DEF Close, Drop, MaybeClose, StopIo
  <1>3. ASSUME NEW f \in BOOLEAN, NEW g \in BOOLEAN, Send(f, g) PROVE Net' /\ ops' >= ops
    <2>1. /\ ops < MaxOps /\ ops' = ops + 1 /\ arrivals' = arrivals
          /\ room' = room \/ (room > 0 /\ room' = room - 1)
      BY <1>3 DEF Send, SendNow, SendAgain, SendStale, SendLater
    <2>2. QED
      BY <1>s, <2>1
  <1>4. ASSUME NEW p \in Ops, LetGo(p) PROVE Net' /\ ops' >= ops
    BY <1>4, <1>s DEF LetGo
  <1>5. CASE CloseCb
    BY <1>5, <1>s DEF CloseCb
  <1>6. ASSUME NEW ok \in BOOLEAN, RecvCb(ok) PROVE Net' /\ ops' >= ops
    BY <1>6, <1>s DEF RecvCb
  <1>7. CASE SendIo
    <2>1. /\ room' = room - Cardinality(Transmit.sent)
          /\ UNCHANGED <<ops, arrivals>>
      BY <1>7 DEF SendIo
    <2>2. Cardinality(Transmit.sent) \in 0..room
      BY TransmitFacts
    <2>3. QED
      BY <1>s, <2>1, <2>2
  <1>8. CASE SendFreed \/ StaleCallback \/ Arrive \/ Drain
    BY <1>8, <1>s DEF SendFreed, StaleCallback, Arrive, Drain
  <1>9. CASE Collect \/ FreeContext
    BY <1>9, <1>s DEF Collect, FreeContext, Finalizer, MaybeClose, StopIo
  <1>10. CASE UNCHANGED vars
    BY <1>10, <1>s DEF vars
  <1>11. QED
    BY <1>1, <1>2, <1>3, <1>4, <1>5, <1>6, <1>7, <1>8, <1>9, <1>10
    DEF Next, Program, Loop, Environment

-----------------------------------------------------------------------------
(***************************************************************************)
(* Promises, their owners, and the datagrams                               *)
(***************************************************************************)

DataTypes == Queues /\ Promises /\ Outgoing /\ Incoming

SendInv == QueueInv /\ SentInv /\ ToldInv

InInv == InboxInv /\ ServedInv

DataInv == OwnInv /\ SendInv /\ InInv

\* The promise libuv or the slot has of p
Owned == ({slot} \ {None}) \cup Ids(writeq) \cup Ids(doneq)

\* The requests, by the queues
LEMMA RequestsIds ==
  ASSUME Queues
  PROVE  /\ Queued = Ids(writeq)
         /\ Sent \cup Failed = Ids(doneq)
         /\ Requests = Ids(writeq) \cup Ids(doneq)
  <1>1. \A i \in DOMAIN doneq : doneq[i].ok \in BOOLEAN
    <2>1. \A i \in DOMAIN doneq : doneq[i] \in DoneReqs
      BY Elements DEF Queues
    <2>2. QED
      BY <2>1 DEF DoneReqs
  <1>2. Sent \cup Failed = Ids(doneq)
    BY <1>1 DEF Sent, Failed, Ids
  <1>3. QED
    BY <1>2 DEF Requests, Queued, Ids

\* What is owned is a call that was made and is pending; sends are calls that
\* were made; the next call is new.
LEMMA OwnedFacts ==
  ASSUME Net, DataTypes, OwnInv
  PROVE  /\ ops \in Nat
         /\ Ids(writeq) \subseteq Ops
         /\ Ids(doneq) \subseteq Ops
         /\ \A p \in Owned : p \in Ops /\ p \in Nat /\ p <= ops /\ prom[p] = "pending"
         /\ slot # None => slot \in Owned
         /\ \A p \in sends : p \in Ops /\ p \in Nat /\ p <= ops
         /\ \A p \in Served : p \in Ops /\ p \in Nat /\ p <= ops
         /\ ops < MaxOps => /\ ops + 1 \in Ops
                            /\ prom[ops + 1] = "none"
                            /\ got[ops + 1] = 0
                            /\ ops + 1 \notin sends
                            /\ ops + 1 \notin Owned
  <1>1. ops \in Nat /\ Ops \subseteq Nat
    BY Constants DEF Net
  <1>2. Ids(writeq) \subseteq Ops
    <2>1. \A i \in DOMAIN writeq : writeq[i] \in WriteReqs
      BY Elements DEF DataTypes, Queues
    <2>2. QED
      BY <2>1 DEF Ids, WriteReqs
  <1>3. Ids(doneq) \subseteq Ops
    <2>1. \A i \in DOMAIN doneq : doneq[i] \in DoneReqs
      BY Elements DEF DataTypes, Queues
    <2>2. QED
      BY <2>1 DEF Ids, DoneReqs
  <1>4. ASSUME NEW p \in Owned PROVE p \in Ops /\ p \in Nat /\ p <= ops /\ prom[p] = "pending"
    <2>1. p \in Ops /\ prom[p] = "pending"
      BY <1>4 DEF OwnInv, Pending, Owned
    <2>2. p \in Nat
      BY <1>1, <2>1
    <2>3. QED
      BY <2>1, <2>2, <1>1 DEF OwnInv
  <1>5. slot # None => slot \in Owned
    BY DEF Owned
  <1>6. ASSUME NEW p \in sends PROVE p \in Ops /\ p \in Nat /\ p <= ops
    BY <1>1, <1>6 DEF OwnInv, DataTypes, Outgoing
  <1>7. ASSUME NEW p \in Served PROVE p \in Ops /\ p \in Nat /\ p <= ops
    BY <1>1, <1>7 DEF OwnInv, Served
  <1>8. ASSUME ops < MaxOps
        PROVE  /\ ops + 1 \in Ops /\ prom[ops + 1] = "none" /\ got[ops + 1] = 0
               /\ ops + 1 \notin sends /\ ops + 1 \notin Owned
    <2>1. ops + 1 \in Ops /\ ops + 1 > ops
      BY <1>1, <1>8, Constants DEF Ops
    <2>2. prom[ops + 1] = "none" /\ got[ops + 1] = 0 /\ ops + 1 \notin sends
      BY <2>1 DEF OwnInv
    <2>3. QED
      BY <1>4, <2>1, <2>2
  <1>9. QED
    BY <1>1, <1>2, <1>3, <1>4, <1>5, <1>6, <1>7, <1>8

\* A step that leaves the requests and the promises of send()
LEMMA SendKept ==
  ASSUME SendInv, UNCHANGED <<writeq, doneq, sends, sent, mmsg>>,
         \A p \in sends : prom'[p] = prom[p]
  PROVE  SendInv'
  BY DEF SendInv, QueueInv, SentInv, ToldInv

\* A step that reads no datagram, and may give up the slot or the socket
LEMMA InKept ==
  ASSUME Flags, InInv, UNCHANGED <<taken, got, arrivals>>, inbox' \in {inbox, <<>>},
         slot' \in {slot, None}, reused => reused',
         \A p \in Served : prom'[p] = prom[p]
  PROVE  InInv'
  <1>1. Served' = Served
    BY DEF Served
  <1>2. Rising(inbox') /\ Values(inbox') \subseteq Values(inbox)
    BY EmptyQueue, RisingEmpty DEF InInv, InboxInv
  <1>3. InboxInv'
    BY <1>2 DEF InInv, InboxInv
  <1>4. ServedInv'
    BY <1>1 DEF InInv, ServedInv
  <1>5. QED
    BY <1>3, <1>4 DEF InInv

\* A step that touches no promise and no datagram
LEMMA IdleData ==
  ASSUME Flags, Net, Net', ops' >= ops, DataTypes, DataInv, unkept' \subseteq Ops,
         reused => reused',
         UNCHANGED <<writeq, doneq, sends, sent, mmsg, prom, slot, taken, got, arrivals>>,
         inbox' \in {inbox, <<>>}
  PROVE  DataTypes' /\ DataInv'
  <1>1. DataTypes'
    BY EmptyIsSeq DEF DataTypes, Queues, Promises, Outgoing, Incoming
  <1>2. OwnInv'
    <2>1. \A p \in Ops : p > ops' => p > ops
      BY Constants DEF Net
    <2>2. QED
      BY <2>1 DEF DataInv, OwnInv, Pending
  <1>3. SendInv'
    BY SendKept DEF DataInv
  <1>4. InInv'
    BY InKept DEF DataInv
  <1>5. QED
    BY <1>1, <1>2, <1>3, <1>4 DEF DataInv

Outcomes == {"resolved", "rejected", "dropped"}

\* A promise that changes was pending and is settled.
OnlySettles ==
  \A p \in Ops : prom'[p] # prom[p] => prom[p] = "pending" /\ prom'[p] \in Outcomes

\* The promise in the slot is settled and the slot given up.
SettleSlot ==
  /\ prom' \in [Ops -> {"none", "pending"} \cup Outcomes]
  /\ \A p \in Ops : p # slot => prom'[p] = prom[p]
  /\ slot # None => prom'[slot] \in Outcomes
  /\ slot' = None

\* The owners of the promises that are left, and those that were settled
LEMMA SettleSlotOwn ==
  ASSUME Net, Net', ops' >= ops, DataTypes, OwnInv, SettleSlot,
         UNCHANGED <<writeq, doneq, sends>>,
         \A p \in Ops : p > ops => got'[p] = got[p]
  PROVE  OwnInv' /\ OnlySettles /\ Promises'
  <1>1. slot # None => slot \in Ops /\ slot <= ops /\ prom[slot] = "pending"
    BY OwnedFacts
  <1>2. OnlySettles /\ Promises'
    <2>1. None \notin Ops
      BY Constants
    <2>2. OnlySettles
      BY <1>1, <2>1 DEF OnlySettles, SettleSlot
    <2>3. Promises'
      BY DEF SettleSlot, Promises, Outcomes
    <2>4. QED
      BY <2>2, <2>3
  <1>3. Pending' = Pending \ {slot}
    <2>1. None \notin Ops
      BY Constants
    <2>2. slot # None => prom'[slot] # "pending"
      BY DEF SettleSlot, Outcomes
    <2>3. QED
      BY <1>1, <2>1, <2>2 DEF Pending, SettleSlot
  <1>4. slot \notin Ids(writeq) \cup Ids(doneq)
    BY DEF OwnInv
  <1>5. Pending' = ({slot'} \ {None}) \cup Ids(writeq') \cup Ids(doneq')
    BY <1>3, <1>4 DEF OwnInv, SettleSlot
  <1>6. slot' \notin sends
    BY Constants DEF SettleSlot, DataTypes, Outgoing
  <1>7. ASSUME NEW p \in Ops, p > ops'
        PROVE  prom'[p] = "none" /\ got'[p] = 0 /\ p \notin sends'
    <2>1. p > ops /\ p \in Nat /\ ops \in Nat
      BY <1>7, Constants DEF Net
    <2>2. p # slot
      <3>1. slot # None => slot \in Nat /\ slot <= ops
        BY <1>1, OwnedFacts
      <3>2. QED
        BY <2>1, <3>1, UdpAssumption
    <2>3. QED
      BY <2>1, <2>2 DEF SettleSlot, OwnInv
  <1>8. QED
    BY <1>2, <1>5, <1>6, <1>7 DEF OwnInv

\* close() and the finalizer settle a pending recv() without a datagram.
LEMMA SlotData ==
  ASSUME Flags, Net, Net', ops' >= ops, DataTypes, DataInv, SettleSlot,
         inbox' \in {inbox, <<>>},
         UNCHANGED <<writeq, doneq, unkept, sends, sent, mmsg, taken, got, arrivals, reused>>
  PROVE  DataTypes' /\ DataInv' /\ OnlySettles
  <1>1. OwnInv' /\ OnlySettles /\ Promises'
    BY SettleSlotOwn DEF DataInv
  <1>2. DataTypes'
    BY <1>1, EmptyIsSeq DEF DataTypes, Queues, Outgoing, Incoming, SettleSlot
  <1>3. slot \notin sends
    BY DEF DataInv, OwnInv
  <1>4. SendInv'
    <2>1. \A p \in sends : prom'[p] = prom[p]
      BY <1>3 DEF SettleSlot, DataTypes, Outgoing
    <2>2. QED
      BY <2>1, SendKept DEF DataInv
  <1>5. InInv'
    <2>1. \A p \in Served : p # slot /\ p \in Ops
      <3>1. \A p \in Served : p \in Ops /\ prom[p] = "resolved"
        BY DEF Served, DataInv, InInv, ServedInv
      <3>2. slot # None => prom[slot] = "pending"
        BY OwnedFacts DEF DataInv
      <3>3. QED
        BY <3>1, <3>2, Constants
    <2>2. \A p \in Served : prom'[p] = prom[p]
      BY <2>1 DEF SettleSlot
    <2>3. QED
      BY <2>2, InKept DEF DataInv, SettleSlot
  <1>6. QED
    BY <1>1, <1>2, <1>4, <1>5 DEF DataInv

\* recv() takes the slot.
LEMMA RecvData ==
  ASSUME Flags, Net, Net', DataTypes, DataInv, Recv
  PROVE  DataTypes' /\ DataInv'
  <1> USE DEF lifeVars, pollVars, sockVars, netVars, sendVars, recvVars
  <1>1. /\ ops < MaxOps /\ ops' = ops + 1 /\ slot = None /\ slot' = ops + 1
        /\ prom' = [prom EXCEPT ![ops + 1] = "pending"]
        /\ UNCHANGED <<writeq, doneq, unkept, sends, sent, mmsg, inbox, taken, got, arrivals>>
        /\ reused => reused'
    BY DEF Recv, Call, CanRecv, InitPromise, DeferredBind, Reuse
  <1>2. /\ ops \in Nat /\ ops + 1 \in Ops /\ prom[ops + 1] = "none" /\ ops + 1 \notin sends
        /\ ops + 1 # None
    BY <1>1, OwnedFacts, UdpAssumption DEF DataInv
  <1>3. DataTypes'
    BY <1>1, <1>2 DEF DataTypes, Queues, Promises, Outgoing, Incoming
  <1>4. OwnInv'
    <2>1. Pending' = Pending \cup {ops + 1}
      BY <1>1, <1>2 DEF Pending, DataTypes, Promises
    <2>2. ASSUME NEW p \in Ops, p > ops'
          PROVE  prom'[p] = "none" /\ got'[p] = 0 /\ p \notin sends'
      <3>1. p > ops /\ p # ops + 1
        BY <1>1, <1>2, <2>2, Constants
      <3>2. QED
        BY <1>1, <3>1 DEF DataInv, OwnInv, DataTypes, Promises
    <2>3. Pending' = ({slot'} \ {None}) \cup Ids(writeq') \cup Ids(doneq')
      BY <1>1, <1>2, <2>1 DEF DataInv, OwnInv
    <2>4. QED
      BY <1>1, <1>2, <2>2, <2>3 DEF DataInv, OwnInv
  <1>5. SendInv'
    <2>1. \A p \in sends : prom'[p] = prom[p]
      BY <1>1, <1>2 DEF DataTypes, Promises, Outgoing
    <2>2. QED
      BY <1>1, <2>1, SendKept DEF DataInv
  <1>6. InInv'
    <2>1. Served' = Served
      BY <1>1 DEF Served
    <2>2. \A p \in Served : p < ops + 1 /\ p \in Ops
      BY <1>2, OwnedFacts DEF DataInv
    <2>3. \A p \in Served : prom'[p] = prom[p]
      BY <1>1, <1>2, <2>2, Constants DEF DataTypes, Promises
    <2>4. ServedInv'
      BY <1>1, <2>1, <2>2, <2>3 DEF DataInv, InInv, ServedInv
    <2>5. InboxInv'
      BY <1>1 DEF DataInv, InInv, InboxInv
    <2>6. QED
      BY <2>4, <2>5 DEF InInv
  <1>7. QED
    BY <1>3, <1>4, <1>5, <1>6 DEF DataInv

\* uvUdpRecvCb: the slot is given up, with the next datagram or an error.
LEMMA RecvCbData ==
  ASSUME Flags, Net, Net', DataTypes, DataInv, RecvInv, NEW ok \in BOOLEAN, RecvCb(ok)
  PROVE  DataTypes' /\ DataInv' /\ OnlySettles
  <1> USE DEF lifeVars, pollVars, sockVars, netVars, sendVars, recvVars
  <1>1. /\ pollin /\ slot' = None
        /\ UNCHANGED <<writeq, doneq, unkept, sends, sent, mmsg, arrivals, reused, ops>>
    BY DEF RecvCb, CanRecvCb, ClearRecv
  <1>2. SettleSlot
    <2>1. SettleAll({slot}, {}) \/ SettleAll({}, {slot})
      BY DEF RecvCb
    <2>2. QED
      BY <1>1, <2>1, Constants
      DEF SettleAll, SettleSlot, Outcomes, DataTypes, Promises, Incoming
  <1>n. ops \in Nat
    BY OwnedFacts DEF DataInv
  <1>3. CASE ~ok
    <2>1. UNCHANGED <<inbox, taken, got>>
      BY <1>3 DEF RecvCb
    <2>2. QED
      BY <1>1, <1>2, <1>n, <2>1, SlotData
  <1>4. CASE ok
    <2> DEFINE d == Head(inbox)
    <2>1. /\ inbox # <<>> /\ inbox' = Tail(inbox) /\ taken' = Append(taken, d)
          /\ got' = [p \in Ops |-> IF p = slot THEN d ELSE got[p]]
          /\ SettleAll({slot}, {})
      BY <1>4 DEF RecvCb
    <2>2. /\ d \in 1..MaxArrivals
          /\ Tail(inbox) \in Seq(1..MaxArrivals)
          /\ Rising(Tail(inbox))
          /\ Values(inbox) = Values(Tail(inbox)) \cup {d}
          /\ \A v \in Values(Tail(inbox)) : d < v
      BY <2>1, RisingTail DEF DataTypes, Incoming, DataInv, InInv, InboxInv
    <2> HIDE DEF d
    <2>3. /\ taken' \in Seq(1..MaxArrivals)
          /\ Values(taken') = Values(taken) \cup {d}
      <3>1. taken \in Seq(1..MaxArrivals)
        BY DEF DataTypes, Incoming
      <3>2. taken' \in Seq(1..MaxArrivals)
        BY <2>1, <2>2, <3>1
      <3>3. Values(taken') = Values(taken) \cup {d}
        <4>1. /\ Len(taken) \in Nat /\ DOMAIN taken = 1..Len(taken)
              /\ DOMAIN taken' = 1..(Len(taken) + 1)
              /\ \A i \in DOMAIN taken : taken'[i] = taken[i]
              /\ taken'[Len(taken) + 1] = d
          BY <2>1, <2>2, <3>1
        <4>2. /\ \A i \in DOMAIN taken' : i \in DOMAIN taken \/ i = Len(taken) + 1
              /\ \A i \in DOMAIN taken : i \in DOMAIN taken'
              /\ Len(taken) + 1 \in DOMAIN taken'
          BY ONLY <4>1
        <4>3. QED
          BY ONLY <4>1, <4>2 DEF Values
      <3>4. QED
        BY <3>2, <3>3
    <2>4. /\ slot # None => slot \in Ops /\ slot <= ops /\ slot \in Nat /\ slot \notin Served
          /\ None \notin Ops
          /\ \A p \in Served : p # slot
      <3>1. \A p \in Served : p \in Ops /\ prom[p] = "resolved"
        BY DEF Served, DataInv, InInv, ServedInv
      <3>2. slot # None => slot \in Ops /\ slot <= ops /\ slot \in Nat /\ prom[slot] = "pending"
        BY OwnedFacts DEF DataInv
      <3>3. QED
        BY <3>1, <3>2, Constants
    <2>5. OwnInv' /\ OnlySettles /\ Promises'
      <3>1. \A p \in Ops : p > ops => got'[p] = got[p]
        <4>1. ASSUME NEW p \in Ops, p > ops PROVE p # slot
          BY <1>n, <2>4, <4>1
        <4>2. QED
          BY <2>1, <4>1
      <3>2. QED
        BY <1>1, <1>2, <1>n, <3>1, SettleSlotOwn DEF DataInv
    <2>6. DataTypes'
      <3>1. got' \in [Ops -> 0..MaxArrivals]
        BY <2>1, <2>2, Constants DEF DataTypes, Incoming
      <3>2. QED
        BY <1>1, <2>1, <2>2, <2>3, <2>5, <3>1 DEF DataTypes, Queues, Outgoing, Incoming
    <2>7. SendInv'
      <3>1. \A p \in sends : prom'[p] = prom[p]
        BY <1>2 DEF SettleSlot, DataTypes, Outgoing, DataInv, OwnInv
      <3>2. QED
        BY <1>1, <3>1, SendKept DEF DataInv
    <2>8. InboxInv'
      BY <1>1, <2>1, <2>2, <2>3 DEF DataInv, InInv, InboxInv
    <2>9. ServedInv'
      <3>1. /\ slot = None => Served' = Served /\ \A p \in Ops : got'[p] = got[p]
            /\ slot # None => /\ Served' = Served \cup {slot}
                              /\ got'[slot] = d
                              /\ prom'[slot] = "resolved"
            /\ \A p \in Served : got'[p] = got[p] /\ prom'[p] = prom[p]
        <4>1. d # 0
          BY <2>2, Constants
        <4>2. \A p \in Ops : got'[p] = IF p = slot THEN d ELSE got[p]
          BY <2>1
        <4>3. \A p \in Ops : prom'[p] = IF p = slot THEN "resolved" ELSE prom[p]
          BY <2>1 DEF SettleAll
        <4>4. QED
          BY <2>4, <4>1, <4>2, <4>3 DEF Served
      <3>2. \A p \in Served : got[p] \in Values(taken) /\ got[p] < d
        <4>1. \A p \in Served : got[p] \in Values(taken)
          BY DEF DataInv, InInv, ServedInv
        <4>2. \A v \in Values(taken) : v < d
          BY <2>2 DEF DataInv, InInv, InboxInv
        <4>3. QED
          BY <4>1, <4>2
      <3>3. slot # None => \A p \in Served : p < slot
        BY DEF DataInv, InInv, ServedInv
      <3>4. \A p \in Served : p \in Nat
        BY OwnedFacts DEF DataInv
      <3>5. \A p \in Served' : got'[p] \in Values(taken') /\ prom'[p] = "resolved"
        BY <2>3, <3>1, <3>2 DEF DataInv, InInv, ServedInv
      <3>6. ASSUME NEW p \in Served', NEW q \in Served', p < q
            PROVE  got'[p] < got'[q]
        <4>1. CASE p \in Served /\ q \in Served
          BY <3>1, <3>6, <4>1 DEF DataInv, InInv, ServedInv
        <4>2. CASE p \in Served /\ q \notin Served
          BY <3>1, <3>2, <4>2
        <4>3. CASE p \notin Served
          <5>1. p = slot /\ slot # None
            BY <3>1, <4>3
          <5>2. q = slot \/ q < slot
            BY <3>1, <3>3, <5>1
          <5>3. q \in Nat /\ slot \in Nat
            BY <2>4, <3>1, <3>4, <5>1
          <5>4. QED
            BY <3>6, <5>1, <5>2, <5>3
        <4>4. QED
          BY <4>1, <4>2, <4>3
      <3>7. ~reused' => \A v \in Values(taken') : \E p \in Served' : got'[p] = v
        <4>1. SUFFICES ASSUME ~reused, NEW v \in Values(taken) \cup {d}
                       PROVE  \E p \in Served' : got'[p] = v
          BY <1>1, <2>3
        <4>2. slot # None
          BY <1>1, <4>1 DEF RecvInv
        <4>3. CASE v = d
          BY <3>1, <4>2, <4>3
        <4>4. CASE v \in Values(taken)
          <5>1. PICK p \in Served : got[p] = v
            BY <4>1, <4>4 DEF DataInv, InInv, ServedInv
          <5>2. QED
            BY <3>1, <4>2, <5>1
        <4>5. QED
          BY <4>1, <4>3, <4>4
      <3>8. QED
        BY <1>1, <3>5, <3>6, <3>7 DEF ServedInv
    <2>10. QED
      BY <2>5, <2>6, <2>7, <2>8, <2>9 DEF DataInv, InInv
  <1>5. QED
    BY <1>3, <1>4

\* A datagram reaches the socket.
LEMMA ArriveData ==
  ASSUME Flags, Net, Net', DataTypes, DataInv, Arrive
  PROVE  DataTypes' /\ DataInv'
  <1> USE DEF lifeVars, pollVars, sockVars, netVars, sendVars, recvVars
  <1>1. /\ arrivals < MaxArrivals /\ arrivals' = arrivals + 1
        /\ inbox' = Append(inbox, arrivals + 1)
        /\ UNCHANGED <<writeq, doneq, unkept, sends, sent, mmsg, prom, slot, taken, got,
                       reused, ops>>
    BY DEF Arrive
  <1>2. arrivals \in Nat /\ arrivals + 1 \in 1..MaxArrivals
    BY <1>1, Constants DEF Net
  <1>3. \A v \in Values(inbox) \cup Values(taken) : v \in Nat /\ v <= arrivals
    <2>1. \A v \in Values(inbox) \cup Values(taken) : v \in 1..MaxArrivals
      BY Elements DEF Values, DataTypes, Incoming
    <2>2. QED
      BY <2>1, Constants DEF DataInv, InInv, InboxInv
  <1>4. \A v \in Values(inbox) \cup Values(taken) : v < arrivals + 1 /\ v <= arrivals + 1
    BY <1>2, <1>3
  <1>5. /\ inbox' \in Seq(1..MaxArrivals)
        /\ Rising(inbox')
        /\ Values(inbox') = Values(inbox) \cup {arrivals + 1}
    <2> DEFINE T == 1..MaxArrivals
               e == arrivals + 1
    <2>1. inbox \in Seq(T) /\ Rising(inbox)
      BY DEF DataTypes, Incoming, DataInv, InInv, InboxInv
    <2>2. e \in T /\ \A v \in Values(inbox) : v < e
      BY <1>2, <1>4
    <2>3. inbox' = Append(inbox, e)
      BY <1>1
    <2> HIDE DEF T, e
    <2>4. /\ Append(inbox, e) \in Seq(T)
          /\ Rising(Append(inbox, e))
          /\ Values(Append(inbox, e)) = Values(inbox) \cup {e}
      BY <2>1, <2>2, RisingAppend
    <2>5. QED
      BY <2>3, <2>4 DEF T, e
  <1>6. DataTypes'
    BY <1>1, <1>5 DEF DataTypes, Queues, Promises, Outgoing, Incoming
  <1>7. OwnInv'
    BY <1>1 DEF DataInv, OwnInv, Pending
  <1>8. SendInv'
    BY <1>1, SendKept DEF DataInv
  <1>9. InboxInv'
    BY <1>1, <1>2, <1>4, <1>5 DEF DataInv, InInv, InboxInv
  <1>10. ServedInv'
    BY <1>1 DEF DataInv, InInv, ServedInv, Served
  <1>11. QED
    BY <1>6, <1>7, <1>8, <1>9, <1>10 DEF DataInv, InInv

InFlight == Ids(writeq) \cup Ids(doneq)

\* Requests are called back and leave the queues.
LEMMA RequestsSettled ==
  ASSUME Flags, Net, DataTypes, OwnInv, InInv, NEW good, NEW bad, SettleAll(good, bad),
         good \cup bad \subseteq InFlight, InFlight' = InFlight \ (good \cup bad),
         UNCHANGED <<slot, sends, got, taken, inbox, arrivals, ops, reused>>
  PROVE  OwnInv' /\ OnlySettles /\ Promises' /\ InInv'
  <1> USE DEF InFlight
  <1>1. \A p \in good \cup bad : p \in Ops /\ p <= ops /\ p \in Nat /\ prom[p] = "pending"
    BY OwnedFacts DEF Owned
  <1>2. OnlySettles
    BY <1>1 DEF OnlySettles, SettleAll, Outcomes
  <1>3. Promises'
    BY DEF SettleAll, DataTypes, Promises
  <1>4. Pending' = Pending \ (good \cup bad)
    BY DEF SettleAll, Pending
  <1>5. slot \notin InFlight
    BY DEF OwnInv
  <1>6. Pending' = ({slot'} \ {None}) \cup Ids(writeq') \cup Ids(doneq')
    BY <1>4, <1>5 DEF OwnInv
  <1>7. ASSUME NEW p \in Ops, p > ops
        PROVE  prom'[p] = "none" /\ got'[p] = 0 /\ p \notin sends'
    <2>1. p \notin good \cup bad
      BY <1>1, <1>7, OwnedFacts
    <2>2. QED
      BY <1>7, <2>1 DEF SettleAll, OwnInv
  <1>8. OwnInv'
    BY <1>6, <1>7 DEF OwnInv
  <1>9. \A p \in Served : prom'[p] = prom[p]
    <2>1. \A p \in Served : p \in Ops /\ prom[p] = "resolved"
      BY DEF Served, InInv, ServedInv
    <2>2. QED
      BY <1>1, <2>1 DEF SettleAll
  <1>10. InInv'
    BY <1>9, InKept
  <1>11. QED
    BY <1>2, <1>3, <1>8, <1>10

\* What is queued has not left.
LEMMA QueuedNotSent ==
  ASSUME DataTypes, SentInv, NEW p \in Ids(writeq), Net, OwnInv
  PROVE  p \notin Values(sent)
  <1>1. p \in Nat
    BY OwnedFacts DEF Owned
  <1>2. \A v \in Values(sent) : v < p
    BY DEF SentInv
  <1>3. QED
    BY <1>1, <1>2

\* The status of a datagram that was tried at once
LEMMA TriedOnce ==
  ASSUME Queues, ToldInv
  PROVE  Sent \subseteq Values(sent) /\ Failed \cap Values(sent) = {}
  <1>1. \A i \in DOMAIN doneq : doneq[i].ok <=> doneq[i].op \in Values(sent)
    BY DEF ToldInv
  <1>2. Sent \subseteq Values(sent)
    BY <1>1 DEF Sent
  <1>3. Failed \cap Values(sent) = {}
    BY <1>1 DEF Failed
  <1>4. QED
    BY <1>2, <1>3

\* uv__udp_finish_close calls back every request.
LEMMA CloseCbData ==
  ASSUME Flags, Net, DataTypes, DataInv, CloseCb, uv' = "closed"
  PROVE  DataTypes' /\ DataInv' /\ OnlySettles
  <1> USE DEF lifeVars, pollVars, sockVars, netVars, sendVars, recvVars
  <1>1. /\ SettleAll(Sent, Cancelled)
        /\ writeq' = <<>> /\ doneq' = <<>> /\ unkept' = {}
        /\ UNCHANGED <<slot, sends, sent, mmsg, got, taken, inbox, arrivals, ops, reused>>
    BY DEF CloseCb
  <1>2. Sent \cup Cancelled = InFlight /\ InFlight' = {}
    BY <1>1, RequestsIds, EmptyQueue DEF Cancelled, InFlight, DataTypes
  <1>3. OwnInv' /\ OnlySettles /\ Promises' /\ InInv'
    BY <1>1, <1>2, RequestsSettled DEF DataInv
  <1>4. DataTypes'
    BY <1>1, <1>3, EmptyIsSeq DEF DataTypes, Queues, Outgoing, Incoming
  <1>5. QueueInv' /\ SentInv'
    <2>1. Len(<<>>) = 0
      OBVIOUS
    <2>2. QED
      BY <1>1, <2>1, EmptyQueue DEF DataInv, SendInv, QueueInv, SentInv
  <1>6. ToldInv'
    <2>1. DOMAIN doneq' = {}
      BY <1>1
    <2>2. Sent \subseteq Values(sent) /\ Failed \cap Values(sent) = {}
      BY TriedOnce DEF DataInv, SendInv, DataTypes
    <2>3. Queued \cap Values(sent) = {}
      BY QueuedNotSent, RequestsIds DEF DataInv, SendInv, DataTypes
    <2>4. ASSUME ~mmsg, NEW p \in sends
          PROVE  /\ prom'[p] = "resolved" => p \in Values(sent)
                 /\ prom'[p] = "rejected" => p \notin Values(sent)
      <3>1. p \in Ops
        BY OwnedFacts DEF DataInv
      <3>2. prom'[p] = IF p \in Sent THEN "resolved"
                       ELSE IF p \in Cancelled THEN "rejected" ELSE prom[p]
        BY <1>1, <3>1 DEF SettleAll
      <3>3. /\ prom[p] = "resolved" => p \in Values(sent)
            /\ prom[p] = "rejected" => p \notin Values(sent)
        BY <2>4 DEF DataInv, SendInv, ToldInv
      <3>4. QED
        BY <2>2, <2>3, <3>2, <3>3 DEF Cancelled
    <2>5. QED
      BY <1>1, <2>1, <2>4 DEF ToldInv
  <1>7. QED
    BY <1>3, <1>4, <1>5, <1>6 DEF DataInv, SendInv

\* uv__udp_io takes the front of the queue and calls it back.
LEMMA SendIoData ==
  ASSUME Flags, Net, DataTypes, DataInv, SendIo
  PROVE  DataTypes' /\ DataInv' /\ OnlySettles
  <1> USE DEF lifeVars, pollVars, sockVars, netVars, sendVars, recvVars
  <1>0. Queues /\ QueueInv /\ SentInv /\ ToldInv /\ OwnInv /\ InInv
    BY DEF DataTypes, DataInv, SendInv
  <1>1. PICK k \in 0..Len(writeq), G \in {Transmit.good}, T \in {Transmit.sent} :
           /\ Transmit.done = 1..k /\ Transmit.good = G /\ Transmit.sent = T
           /\ G \subseteq 1..k /\ T \subseteq 1..k
           /\ ~mmsg => G = T
    BY <1>0, TransmitFacts
  <1>2. /\ Len(writeq) \in Nat /\ DOMAIN writeq = 1..Len(writeq) /\ k \in Nat
        /\ writeq \in Seq(WriteReqs)
    BY <1>0 DEF Queues
  <1>3. Cardinality(1..k) = k
    BY <1>2, FS_Interval
  <1>4. PICK left : left = SubSeq(writeq, k + 1, Len(writeq))
    OBVIOUS
  <1>5. /\ sent' = sent \o CallsOf(writeq, T)
        /\ writeq' = left /\ doneq' = <<>>
        /\ unkept' \subseteq unkept
        /\ SettleAll(Sent \cup OpsOf(G), Failed \cup OpsOf((1..k) \ G))
        /\ UNCHANGED <<slot, sends, mmsg, got, taken, inbox, arrivals, ops, reused>>
    BY <1>1, <1>3, <1>4 DEF SendIo, CallsOf
  <1>6. /\ left \in Seq(WriteReqs) /\ Ordered(left)
        /\ Ids(writeq) = OpsOf(1..k) \cup Ids(left)
        /\ \A p \in OpsOf(1..k), q \in Ids(left) : p < q
    <2>1. /\ left \in Seq(WriteReqs) /\ Ordered(left)
          /\ Ids(writeq) = {writeq[i].op : i \in 1..k} \cup Ids(left)
          /\ \A i \in 1..k : \A q \in Ids(left) : writeq[i].op < q
      <3>1. Ordered(writeq) /\ k \in 0..Len(writeq)
        BY <1>0 DEF QueueInv
      <3>2. QED
        BY ONLY <1>2, <1>4, <3>1, RestQueue
    <2>2. QED
      BY ONLY <2>1 DEF OpsOf
  <1>7. \A i \in DOMAIN writeq : writeq[i].op \in Ops
    BY OwnedFacts DEF Ids, DataInv
  <1>8. /\ CallsOf(writeq, T) \in Seq(Ops)
        /\ Rising(CallsOf(writeq, T))
        /\ Values(CallsOf(writeq, T)) = OpsOf(T)
    <2>1. T \subseteq DOMAIN writeq
      BY <1>1, <1>2
    <2>2. QED
      BY <1>0, <1>2, <1>7, <2>1, CallsInOrder DEF QueueInv, OpsOf
  <1>9. OpsOf(T) \subseteq OpsOf(1..k) /\ OpsOf(G) \cup OpsOf((1..k) \ G) = OpsOf(1..k)
    BY <1>1 DEF OpsOf
  <1>10. \A p \in Ids(writeq) \cup Ids(doneq) : p \in Nat /\ p \in Ops /\ prom[p] = "pending"
    BY OwnedFacts DEF DataInv, Owned
  <1>11. /\ sent' \in Seq(Ops)
         /\ Rising(sent')
         /\ Values(sent') = Values(sent) \cup OpsOf(T)
    <2>1. \A v \in Values(sent), w \in OpsOf(T) : v < w
      BY <1>0, <1>6, <1>9 DEF SentInv
    <2>2. sent \in Seq(Ops) /\ Rising(sent)
      BY <1>0 DEF DataTypes, Outgoing, SentInv
    <2>3. QED
      BY <1>5, <1>8, <2>1, <2>2, RisingConcat
  <1>12. Sent \cup Failed = Ids(doneq)
    BY <1>0, RequestsIds
  <1>13. OwnInv' /\ OnlySettles /\ Promises' /\ InInv'
    <2>1. OpsOf(1..k) \cap Ids(left) = {}
      BY <1>6, <1>10
    <2>2. Ids(doneq) \cap Ids(left) = {}
      BY <1>0, <1>6, <1>10 DEF QueueInv
    <2>3. InFlight = OpsOf(1..k) \cup Ids(left) \cup Ids(doneq) /\ InFlight' = Ids(left)
      BY <1>5, <1>6, EmptyQueue DEF InFlight
    <2>4. (Sent \cup OpsOf(G)) \cup (Failed \cup OpsOf((1..k) \ G)) = OpsOf(1..k) \cup Ids(doneq)
      BY <1>9, <1>12
    <2>5. /\ (Sent \cup OpsOf(G)) \cup (Failed \cup OpsOf((1..k) \ G)) \subseteq InFlight
          /\ InFlight' = InFlight \ ((Sent \cup OpsOf(G)) \cup (Failed \cup OpsOf((1..k) \ G)))
      BY <2>1, <2>2, <2>3, <2>4
    <2>6. QED
      BY <1>0, <1>5, <2>5, RequestsSettled
  <1>14. DataTypes'
    BY <1>5, <1>6, <1>11, <1>13, EmptyIsSeq DEF DataTypes, Queues, Outgoing, Incoming
  <1>15. QueueInv'
    <2>1. Len(<<>>) = 0
      OBVIOUS
    <2>2. QED
      BY <1>5, <1>6, <2>1, EmptyQueue DEF QueueInv
  <1>16. SentInv'
    <2>1. OpsOf(T) \subseteq sends
      BY <1>0, <1>6, <1>9 DEF OwnInv
    <2>2. Values(sent') \subseteq sends
      BY <1>0, <1>11, <2>1 DEF SentInv
    <2>3. \A v \in Values(sent'), q \in Ids(left) : v < q
      BY <1>0, <1>6, <1>9, <1>11 DEF SentInv
    <2>4. QED
      BY <1>5, <1>11, <2>2, <2>3 DEF SentInv
  <1>17. ToldInv'
    <2>1. DOMAIN doneq' = {}
      BY <1>5
    <2>2. Sent \subseteq Values(sent) /\ Failed \cap Values(sent) = {}
      BY <1>0, TriedOnce
    <2>3. Ids(writeq) \cap Values(sent) = {}
      BY <1>0, QueuedNotSent
    <2>4. Ids(doneq) \cap Ids(writeq) = {}
      BY <1>0, <1>10 DEF QueueInv
    <2>5. ASSUME ~mmsg, NEW p \in sends
          PROVE  /\ prom'[p] = "resolved" => p \in Values(sent')
                 /\ prom'[p] = "rejected" => p \notin Values(sent')
      <3>1. p \in Ops
        BY OwnedFacts DEF DataInv
      <3>2. G = T
        BY <1>1, <2>5
      <3>3. prom'[p] = IF p \in Sent \cup OpsOf(T) THEN "resolved"
                       ELSE IF p \in Failed \cup OpsOf((1..k) \ T) THEN "rejected" ELSE prom[p]
        BY <1>5, <3>1, <3>2 DEF SettleAll
      <3>4. /\ prom[p] = "resolved" => p \in Values(sent)
            /\ prom[p] = "rejected" => p \notin Values(sent)
        BY <1>0, <2>5 DEF ToldInv
      <3>5. prom[p] = "rejected" => p \notin OpsOf(T)
        BY <1>6, <1>9, <1>10
      <3>6. OpsOf((1..k) \ T) \subseteq Ids(writeq) /\ OpsOf(T) \subseteq Ids(writeq)
        BY <1>6, <1>9, <3>2
      <3>7. QED
        BY <1>11, <2>2, <2>3, <3>3, <3>4, <3>5, <3>6
    <2>6. QED
      BY <1>5, <2>1, <2>5 DEF ToldInv
  <1>18. QED
    BY <1>13, <1>14, <1>15, <1>16, <1>17 DEF DataInv, SendInv

\* A send() has its number, and a promise that is settled or in one request.
LEMMA SendOwn ==
  ASSUME Flags, Net, DataTypes, DataInv, ops < MaxOps, ops' = ops + 1,
         sends' = sends \cup {ops + 1}, reused => reused',
         UNCHANGED <<slot, got, taken, inbox, arrivals>>,
         \/ /\ prom' = [prom EXCEPT ![ops + 1] = "pending"]
            /\ InFlight' = InFlight \cup {ops + 1}
         \/ /\ prom' = prom \/ prom' = [prom EXCEPT ![ops + 1] = "resolved"]
            /\ InFlight' = InFlight
  PROVE  OwnInv' /\ Promises' /\ InInv'
  <1> USE DEF InFlight
  <1>1. /\ ops \in Nat /\ ops + 1 \in Ops /\ prom[ops + 1] = "none" /\ got[ops + 1] = 0
        /\ ops + 1 \notin sends /\ ops + 1 \notin Owned
    BY OwnedFacts DEF DataInv
  <1>2. Promises'
    BY DEF DataTypes, Promises
  <1>3. \A p \in Ops : p # ops + 1 => prom'[p] = prom[p]
    BY DEF DataTypes, Promises
  <1>4. Pending' = ({slot'} \ {None}) \cup Ids(writeq') \cup Ids(doneq')
    <2>1. CASE /\ prom' = [prom EXCEPT ![ops + 1] = "pending"]
               /\ InFlight' = InFlight \cup {ops + 1}
      <3>1. Pending' = Pending \cup {ops + 1}
        BY <1>1, <2>1 DEF Pending, DataTypes, Promises
      <3>2. QED
        BY <2>1, <3>1 DEF DataInv, OwnInv
    <2>2. CASE /\ prom' = prom \/ prom' = [prom EXCEPT ![ops + 1] = "resolved"]
               /\ InFlight' = InFlight
      <3>1. Pending' = Pending
        BY <1>1, <2>2 DEF Pending, DataTypes, Promises
      <3>2. QED
        BY <2>2, <3>1 DEF DataInv, OwnInv
    <2>3. QED
      BY <2>1, <2>2
  <1>5. slot' \notin sends'
    <2>1. slot # ops + 1
      BY <1>1, UdpAssumption DEF Owned
    <2>2. QED
      BY <2>1 DEF DataInv, OwnInv
  <1>6. ASSUME NEW p \in Ops, p > ops'
        PROVE  prom'[p] = "none" /\ got'[p] = 0 /\ p \notin sends'
    <2>1. p > ops /\ p # ops + 1
      BY <1>1, <1>6, Constants
    <2>2. QED
      BY <1>3, <2>1 DEF DataInv, OwnInv
  <1>7. OwnInv'
    BY <1>4, <1>5, <1>6 DEF DataInv, OwnInv
  <1>8. \A p \in Served : prom'[p] = prom[p]
    <2>1. \A p \in Served : p # ops + 1 /\ p \in Ops
      BY <1>1 DEF Served
    <2>2. QED
      BY <1>3, <2>1
  <1>9. InInv'
    BY <1>8, InKept DEF DataInv
  <1>10. QED
    BY <1>2, <1>7, <1>9

\* ijUdpSend, with each of its outcomes
LEMMA SendData ==
  ASSUME Flags, Net, DataTypes, DataInv, NEW f \in BOOLEAN, NEW g \in BOOLEAN, Send(f, g)
  PROVE  DataTypes' /\ DataInv'
  <1> USE DEF lifeVars, pollVars, sockVars, netVars, sendVars, recvVars
  <1> DEFINE n == ops + 1
  <1>0. /\ ops < MaxOps /\ ops' = n /\ sends' = sends \cup {n} /\ (reused => reused')
        /\ UNCHANGED <<slot, got, taken, inbox, arrivals, mmsg>>
    BY DEF Send, Call, DeferredBind, Reuse
  <1>1. /\ ops \in Nat /\ n \in Ops /\ n \in Nat /\ prom[n] = "none" /\ n \notin sends
        /\ \A p \in sends : p \in Ops /\ p \in Nat /\ p < n
        /\ \A p \in Ids(writeq) \cup Ids(doneq) : p \in Ops /\ p \in Nat /\ p < n
    <2>1. /\ ops \in Nat /\ n \in Ops /\ prom[n] = "none" /\ n \notin sends
          /\ \A p \in sends : p \in Ops /\ p \in Nat /\ p <= ops
          /\ \A p \in Ids(writeq) \cup Ids(doneq) : p \in Ops /\ p \in Nat /\ p <= ops
      BY <1>0, OwnedFacts DEF DataInv, Owned
    <2>2. QED
      BY <2>1
  <1>2. /\ Queues /\ QueueInv /\ SentInv /\ ToldInv
        /\ prom \in [Ops -> {"none", "pending", "resolved", "rejected", "dropped"}]
        /\ sent \in Seq(Ops) /\ sends \subseteq Ops /\ unkept \subseteq Ops
        /\ \A v \in Values(sent) : v \in sends /\ v < n
    BY <1>1 DEF DataTypes, DataInv, SendInv, SentInv, Promises, Outgoing
  <1> HIDE DEF n
  <1>3. CASE SendNow(f)
    <2>1. /\ writeq = <<>> /\ doneq = <<>> /\ UNCHANGED <<writeq, doneq, unkept>>
          /\ prom' = [prom EXCEPT ![n] = "resolved"]
          /\ sent' = Append(sent, n)
      BY <1>3 DEF SendNow, CanTry, n
    <2>2. sent' \in Seq(Ops) /\ Rising(sent') /\ Values(sent') = Values(sent) \cup {n}
      BY <1>1, <1>2, <2>1, RisingAppend DEF SentInv
    <2>3. OwnInv' /\ Promises' /\ InInv'
      BY <1>0, <2>1, SendOwn DEF InFlight, n
    <2>4. DataTypes'
      BY <1>0, <1>1, <1>2, <2>1, <2>2, <2>3 DEF DataTypes, Queues, Outgoing, Incoming
    <2>5. QueueInv'
      BY <1>2, <2>1 DEF QueueInv
    <2>6. SentInv'
      <3>1. Ids(writeq') = {}
        BY <2>1, EmptyQueue
      <3>2. Values(sent') \subseteq sends'
        BY <1>0, <1>2, <2>2
      <3>3. QED
        BY <2>2, <3>1, <3>2 DEF SentInv
    <2>7. ToldInv'
      <3>1. DOMAIN doneq' = {}
        BY <2>1
      <3>2. ASSUME ~mmsg, NEW p \in sends \cup {n}
            PROVE  /\ prom'[p] = "resolved" => p \in Values(sent')
                   /\ prom'[p] = "rejected" => p \notin Values(sent')
        <4>1. CASE p = n
          BY <1>1, <1>2, <2>1, <2>2, <4>1
        <4>2. CASE p # n
          <5>1. p \in sends /\ prom'[p] = prom[p]
            BY <1>2, <2>1, <3>2, <4>2
          <5>2. /\ prom[p] = "resolved" => p \in Values(sent)
                /\ prom[p] = "rejected" => p \notin Values(sent)
            BY <1>2, <3>2, <5>1 DEF ToldInv
          <5>3. QED
            BY <2>2, <4>2, <5>1, <5>2
        <4>3. QED
          BY <4>1, <4>2
      <3>3. QED
        BY <1>0, <3>1, <3>2 DEF ToldInv
    <2>8. QED
      BY <2>3, <2>4, <2>5, <2>6, <2>7 DEF DataInv, SendInv
  <1>4. ASSUME NEW ok \in BOOLEAN, SendAgain(ok) PROVE DataTypes' /\ DataInv'
    <2>1. /\ writeq = <<>> /\ doneq = <<>> /\ UNCHANGED <<writeq, unkept>>
          /\ prom' = [prom EXCEPT ![n] = "pending"]
          /\ doneq' = <<[op |-> n, ok |-> ok]>>
          /\ sent' = IF ok THEN Append(sent, n) ELSE sent
      BY <1>4 DEF SendAgain, CanTry, InitPromise, n
    <2>2. /\ sent' \in Seq(Ops) /\ Rising(sent')
          /\ Values(sent') = IF ok THEN Values(sent) \cup {n} ELSE Values(sent)
      <3>1. CASE ok
        <4>1. sent' = Append(sent, n)
          BY <2>1, <3>1
        <4>2. sent' \in Seq(Ops) /\ Rising(sent') /\ Values(sent') = Values(sent) \cup {n}
          BY <1>1, <1>2, <4>1, RisingAppend DEF SentInv
        <4>3. QED
          BY <3>1, <4>2
      <3>2. CASE ~ok
        BY <1>2, <2>1, <3>2 DEF SentInv
      <3>3. QED
        BY <3>1, <3>2
    <2>3. /\ doneq' \in Seq(DoneReqs) /\ DOMAIN doneq' = {1} /\ Len(doneq') = 1
          /\ doneq'[1].op = n /\ doneq'[1].ok = ok
      BY <1>1, <1>4, <2>1 DEF DoneReqs
    <2>4. Ids(doneq') = {n}
      BY <2>3 DEF Ids
    <2>5. OwnInv' /\ Promises' /\ InInv'
      <3>1. InFlight' = InFlight \cup {n}
        BY <2>1, <2>4, EmptyQueue DEF InFlight
      <3>2. QED
        BY <1>0, <2>1, <3>1, SendOwn DEF n
    <2>6. DataTypes'
      BY <1>0, <1>1, <1>2, <2>1, <2>2, <2>3, <2>5 DEF DataTypes, Queues, Outgoing, Incoming
    <2>7. QueueInv'
      <3>1. Ordered(writeq') /\ Ids(writeq') = {}
        BY <2>1, EmptyQueue
      <3>2. QED
        BY <2>3, <3>1 DEF QueueInv
    <2>8. SentInv'
      <3>1. Ids(writeq') = {}
        BY <2>1, EmptyQueue
      <3>2. Values(sent') \subseteq sends'
        BY <1>0, <1>2, <2>2
      <3>3. QED
        BY <2>2, <3>1, <3>2 DEF SentInv
    <2>9. ToldInv'
      <3>1. \A i \in DOMAIN doneq' : doneq'[i].ok <=> doneq'[i].op \in Values(sent')
        BY <1>1, <1>2, <1>4, <2>2, <2>3
      <3>2. ASSUME ~mmsg, NEW p \in sends \cup {n}
            PROVE  /\ prom'[p] = "resolved" => p \in Values(sent')
                   /\ prom'[p] = "rejected" => p \notin Values(sent')
        <4>1. CASE p = n
          BY <1>1, <1>2, <2>1, <4>1
        <4>2. CASE p # n
          <5>1. p \in sends /\ prom'[p] = prom[p]
            BY <1>2, <2>1, <3>2, <4>2
          <5>2. /\ prom[p] = "resolved" => p \in Values(sent)
                /\ prom[p] = "rejected" => p \notin Values(sent)
            BY <1>2, <3>2, <5>1 DEF ToldInv
          <5>3. QED
            BY <2>2, <4>2, <5>1, <5>2
        <4>3. QED
          BY <4>1, <4>2
      <3>3. QED
        BY <1>0, <3>1, <3>2 DEF ToldInv
    <2>10. QED
      BY <2>5, <2>6, <2>7, <2>8, <2>9 DEF DataInv, SendInv
  <1>5. CASE SendLater(f, g) /\ Usable
    <2>1. /\ writeq' = Append(writeq, [op |-> n, fits |-> f])
          /\ prom' = [prom EXCEPT ![n] = "pending"]
          /\ unkept' \subseteq unkept \cup {n}
          /\ UNCHANGED <<doneq, sent>>
      BY <1>5 DEF SendLater, InitPromise, n
    <2>2. /\ writeq' \in Seq(WriteReqs)
          /\ Ids(writeq') = Ids(writeq) \cup {n}
          /\ Ordered(writeq')
      <3>1. PICK e \in WriteReqs : e = [op |-> n, fits |-> f] /\ e.op = n
        <4>1. [op |-> n, fits |-> f] \in WriteReqs /\ [op |-> n, fits |-> f].op = n
          BY <1>1 DEF WriteReqs
        <4>2. QED
          BY ONLY <4>1, Zenon
      <3>2. writeq \in Seq(WriteReqs) /\ Ordered(writeq) /\ \A p \in Ids(writeq) : p < n
        BY <1>1, <1>2 DEF Queues, QueueInv
      <3>3. /\ Append(writeq, e) \in Seq(WriteReqs)
            /\ Ids(Append(writeq, e)) = Ids(writeq) \cup {e.op}
            /\ Ordered(Append(writeq, e))
        BY <3>1, <3>2, AppendQueue
      <3>4. QED
        BY <2>1, <3>1, <3>3
    <2>3. OwnInv' /\ Promises' /\ InInv'
      <3>1. InFlight' = InFlight \cup {n}
        BY <2>1, <2>2 DEF InFlight
      <3>2. QED
        BY <1>0, <2>1, <3>1, SendOwn DEF n
    <2>4. DataTypes'
      BY <1>0, <1>1, <1>2, <2>1, <2>2, <2>3 DEF DataTypes, Queues, Outgoing, Incoming
    <2>5. QueueInv'
      BY <1>1, <1>2, <2>1, <2>2 DEF QueueInv
    <2>6. SentInv'
      BY <1>0, <1>2, <2>1, <2>2 DEF SentInv
    <2>7. ToldInv'
      <3>1. ASSUME ~mmsg, NEW p \in sends \cup {n}
            PROVE  /\ prom'[p] = "resolved" => p \in Values(sent)
                   /\ prom'[p] = "rejected" => p \notin Values(sent)
        <4>1. CASE p = n
          BY <1>1, <1>2, <2>1, <4>1
        <4>2. CASE p # n
          <5>1. p \in sends /\ prom'[p] = prom[p]
            BY <1>2, <2>1, <3>1, <4>2
          <5>2. QED
            BY <1>2, <3>1, <5>1 DEF ToldInv
        <4>3. QED
          BY <4>1, <4>2
      <3>2. QED
        BY <1>0, <1>2, <2>1, <3>1 DEF ToldInv
    <2>8. QED
      BY <2>3, <2>4, <2>5, <2>6, <2>7 DEF DataInv, SendInv
  <1>6. CASE (SendLater(f, g) /\ ~Usable) \/ SendStale(f, g)
    <2>1. UNCHANGED <<prom, writeq, doneq, sent>> /\ unkept' \subseteq unkept \cup {n}
      BY <1>6 DEF SendLater, SendStale, n
    <2>2. OwnInv' /\ Promises' /\ InInv'
      BY <1>0, <2>1, SendOwn DEF InFlight, n
    <2>3. DataTypes'
      BY <1>0, <1>1, <1>2, <2>1, <2>2 DEF DataTypes, Queues, Outgoing, Incoming
    <2>4. QueueInv' /\ SentInv'
      BY <1>0, <1>2, <2>1 DEF QueueInv, SentInv
    <2>5. ToldInv'
      BY <1>0, <1>1, <1>2, <2>1 DEF ToldInv
    <2>6. QED
      BY <2>2, <2>3, <2>4, <2>5 DEF DataInv, SendInv
  <1>7. QED
    BY <1>3, <1>4, <1>5, <1>6 DEF Send

\* Every action keeps the promises with their owners and the datagrams in order.
LEMMA DataStep ==
  ASSUME Flags, Net, Net', ops' >= ops, DataTypes, DataInv, RecvInv, [Next]_vars
  PROVE  DataTypes' /\ DataInv'
  <1> USE DEF lifeVars, pollVars, sockVars, netVars, sendVars, recvVars
  <1>o. unkept \subseteq Ops
    BY DEF DataTypes, Outgoing
  <1>1. CASE Bind \/ Connect \/ Drop
    <2>1. UNCHANGED <<writeq, doneq, unkept, sends, sent, mmsg, prom, slot, taken, got,
                      arrivals, inbox>>
      BY <1>1 DEF Bind, Connect, Drop
    <2>2. reused' = (reused \/ uv # "open") \/ reused' = reused
      BY <1>1, Zenon DEF Bind, Connect, Drop, DeferredBind, Reuse
    <2>3. reused => reused'
      BY <2>2, Zenon
    <2>4. QED
      BY <1>o, <2>1, <2>3, IdleData
  <1>2. CASE Recv
    BY <1>2, RecvData
  <1>3. CASE Close
    <2>1. /\ UNCHANGED <<writeq, doneq, unkept, sends, sent, mmsg, taken, got, arrivals, reused>>
          /\ inbox' \in {inbox, <<>>}
      BY <1>3 DEF Close, MaybeClose, StopIo
    <2>2. SettleSlot
      BY <1>3, Constants
      DEF Close, EndRecv, SettleAll, SettleSlot, Outcomes, DataTypes, Promises, Incoming
    <2>3. QED
      BY <2>1, <2>2, SlotData
  <1>4. ASSUME NEW f \in BOOLEAN, NEW g \in BOOLEAN, Send(f, g) PROVE DataTypes' /\ DataInv'
    BY <1>4, SendData
  <1>5. ASSUME NEW p \in Ops, LetGo(p) PROVE DataTypes' /\ DataInv'
    <2>1. /\ UNCHANGED <<writeq, doneq, sends, sent, mmsg, prom, slot, taken, got, arrivals,
                         inbox, reused>>
          /\ unkept' = unkept \cup {p}
      BY <1>5 DEF LetGo
    <2>2. QED
      BY <1>o, <2>1, IdleData
  <1>6. CASE CloseCb
    <2>1. CASE sock \/ pollin \/ pollout \/ (ctx = "freed" /\ Requests # {})
      <3>1. UNCHANGED <<writeq, doneq, unkept, sends, sent, mmsg, prom, slot, taken, got,
                        arrivals, inbox, reused>>
        BY <1>6, <2>1 DEF CloseCb
      <3>2. QED
        BY <1>o, <3>1, IdleData
    <2>2. CASE ~(sock \/ pollin \/ pollout \/ (ctx = "freed" /\ Requests # {}))
      <3>1. uv' = "closed"
        BY <1>6, <2>2 DEF CloseCb
      <3>2. QED
        BY <1>6, <3>1, CloseCbData
    <2>3. QED
      BY <2>1, <2>2
  <1>7. ASSUME NEW ok \in BOOLEAN, RecvCb(ok) PROVE DataTypes' /\ DataInv'
    BY <1>7, RecvCbData
  <1>8. CASE SendIo
    BY <1>8, SendIoData
  <1>9. CASE SendFreed \/ StaleCallback \/ Drain \/ UNCHANGED vars
    <2>1. UNCHANGED <<writeq, doneq, unkept, sends, sent, mmsg, prom, slot, taken, got,
                      arrivals, inbox, reused>>
      BY <1>9 DEF SendFreed, StaleCallback, Drain, vars
    <2>2. QED
      BY <1>o, <2>1, IdleData
  <1>10. CASE Arrive
    BY <1>10, ArriveData
  <1>11. ASSUME Finalizer PROVE DataTypes' /\ DataInv'
    <2>1. /\ UNCHANGED <<writeq, doneq, unkept, sends, sent, mmsg, taken, got, arrivals, reused>>
          /\ inbox' \in {inbox, <<>>}
      BY <1>11 DEF Finalizer, MaybeClose, StopIo
    <2>2. SettleSlot
      BY <1>11, Constants
      DEF Finalizer, SettleSlot, Outcomes, DataTypes, Promises, Incoming
    <2>3. QED
      BY <2>1, <2>2, SlotData
  <1>12. CASE Collect
    BY <1>11, <1>12 DEF Collect
  <1>13. CASE FreeContext
    <2>1. CASE Finalizer
      BY <1>11, <2>1
    <2>2. CASE ~Finalizer
      <3>1. UNCHANGED <<writeq, doneq, unkept, sends, sent, mmsg, prom, slot, taken, got,
                        arrivals, inbox, reused>>
        BY <1>13, <2>2 DEF FreeContext
      <3>2. QED
        BY <1>o, <3>1, IdleData
    <2>3. QED
      BY <2>1, <2>2
  <1>14. QED
    BY <1>1, <1>2, <1>3, <1>4, <1>5, <1>6, <1>7, <1>8, <1>9, <1>10, <1>12, <1>13
    DEF Next, Program, Loop, Environment

-----------------------------------------------------------------------------
(***************************************************************************)
(* The theorems                                                            *)
(***************************************************************************)

LEMMA UdpInit == Init => UdpInv
  <1> SUFFICES ASSUME Init PROVE UdpInv
    OBVIOUS
  <1> USE DEF Init
  <1>1. TypeOK
    <2>1. Queues /\ Promises /\ Outgoing
      BY EmptyIsSeq DEF Queues, Promises, Outgoing
    <2>2. Net /\ Incoming
      BY EmptyIsSeq, Constants DEF Net, Incoming
    <2>3. Flags /\ States
      BY DEF Flags, States
    <2>4. QED
      BY <2>1, <2>2, <2>3, TypeParts
  <1>2. LifeInv /\ ClosedInv /\ RecvInv /\ FaultCause
    BY DEF LifeInv, ClosedInv, RecvInv, FaultCause
  <1>3. OwnInv
    <2>1. Pending = {}
      BY DEF Pending
    <2>2. QED
      BY <2>1, EmptyQueue DEF OwnInv
  <1>4. QueueInv /\ SentInv /\ ToldInv
    <2>1. Len(<<>>) = 0
      OBVIOUS
    <2>2. QED
      BY <2>1, EmptyQueue, RisingEmpty DEF QueueInv, SentInv, ToldInv
  <1>5. InboxInv /\ ServedInv
    BY EmptyQueue, RisingEmpty DEF InboxInv, ServedInv, Served
  <1>6. QED
    BY <1>1, <1>2, <1>3, <1>4, <1>5 DEF UdpInv

LEMMA UdpStep ==
  ASSUME UdpInv, [Next]_vars
  PROVE  UdpInv'
  <1>1. Flags /\ Queues /\ Promises /\ Net /\ Outgoing /\ Incoming /\ States
    BY TypeParts DEF UdpInv
  <1>2. LifeInv /\ ClosedInv /\ RecvInv /\ FaultCause /\ DataTypes /\ DataInv
    BY <1>1 DEF UdpInv, DataTypes, DataInv, SendInv, InInv
  <1>3. Flags' /\ States' /\ Net' /\ ops' >= ops
    BY <1>1, FlagsStep, StatesStep, NetStep
  <1>4. LifeInv' /\ ClosedInv' /\ RecvInv' /\ FaultCause'
    BY <1>1, <1>2, LifeStep, ClosedStep, RecvStep, FaultStep
  <1>5. DataTypes' /\ DataInv'
    BY <1>1, <1>2, <1>3, DataStep
  <1>6. TypeOK'
    BY <1>3, <1>5
    DEF TypeOK, Flags, Queues, WriteReqs, DoneReqs, Promises, Net, Outgoing, Incoming,
        States, DataTypes
  <1>7. QED
    BY <1>4, <1>5, <1>6 DEF UdpInv, DataInv, SendInv, InInv

\* The inductive invariant holds for any number of calls and datagrams.
THEOREM UdpInvariance == Spec => []UdpInv
  <1>1. Init => UdpInv
    BY UdpInit
  <1>2. UdpInv /\ [Next]_vars => UdpInv'
    BY UdpStep
  <1>3. QED
    BY <1>1, <1>2, PTL DEF Spec

\* Every pending promise is in one place: as many requests as entries of the
\* queues.
LEMMA RequestsCount ==
  ASSUME UdpInv
  PROVE  PendingIsOwned
  <1>1. Net /\ DataTypes /\ Queues /\ OwnInv /\ QueueInv
    BY TypeParts DEF UdpInv, DataTypes
  <1>2. Requests = Ids(writeq) \cup Ids(doneq)
    BY <1>1, RequestsIds
  <1>3. {p \in Ops : prom[p] = "pending"} = ({slot} \ {None}) \cup Requests
    BY <1>1, <1>2 DEF OwnInv, Pending
  <1>4. slot \notin Requests
    BY <1>1, <1>2 DEF OwnInv
  <1>5. \A p \in Ids(writeq) \cup Ids(doneq) : p \in Nat
    BY <1>1, OwnedFacts DEF Owned
  <1>6. IsFiniteSet(Ids(writeq)) /\ Cardinality(Ids(writeq)) = Len(writeq)
    BY <1>1, <1>5, OrderedCount DEF Queues, QueueInv
  <1>7. IsFiniteSet(Ids(doneq)) /\ Cardinality(Ids(doneq)) = Len(doneq)
    <2>1. Len(doneq) \in Nat /\ DOMAIN doneq = 1..Len(doneq) /\ Len(doneq) <= 1
      BY <1>1 DEF Queues, QueueInv
    <2>2. Ordered(doneq)
      BY <2>1 DEF Ordered
    <2>3. QED
      BY <1>1, <1>5, <2>2, OrderedCount DEF Queues
  <1>8. Ids(writeq) \cap Ids(doneq) = {}
    BY <1>1, <1>5 DEF QueueInv
  <1>9. Cardinality(Requests) = Len(writeq) + Len(doneq)
    <2>1. Cardinality(Ids(writeq) \cap Ids(doneq)) = 0
      BY <1>8, FS_EmptySet
    <2>2. Cardinality(Ids(writeq) \cup Ids(doneq))
            = Cardinality(Ids(writeq)) + Cardinality(Ids(doneq))
              - Cardinality(Ids(writeq) \cap Ids(doneq))
      BY <1>6, <1>7, FS_Union
    <2>3. Len(writeq) \in Nat /\ Len(doneq) \in Nat
      BY <1>1 DEF Queues
    <2>4. QED
      BY <1>2, <1>6, <1>7, <2>1, <2>2, <2>3
  <1>10. QED
    BY <1>3, <1>4, <1>9 DEF PendingIsOwned

\* A struct that libuv still uses exists, every pending promise has exactly one
\* owner, without sendmmsg send() is told the truth, and undefined states come
\* only of a closed handle that is used again, of a buffer that is not kept or
\* of a context that is freed with a call pending.
THEOREM UdpSafety == Spec => []Inv
  <1>1. UdpInv => Inv
    <2> SUFFICES ASSUME UdpInv PROVE Inv
      OBVIOUS
    <2>1. NoDanglingRequest
      <3>1. SUFFICES ASSUME mem = "freed", ~reused
                     PROVE  Requests = {} /\ ~pollin /\ ~pollout /\ ~fed
        BY DEF NoDanglingRequest
      <3>2. uv = "closed"
        BY <3>1 DEF UdpInv, LifeInv
      <3>3. ~pollin /\ ~pollout /\ ~fed /\ writeq = <<>> /\ doneq = <<>>
        BY <3>1, <3>2 DEF UdpInv, ClosedInv
      <3>4. Requests = {}
        BY <3>3, RequestsIds, EmptyQueue, TypeParts DEF UdpInv
      <3>5. QED
        BY <3>3, <3>4
    <2>2. StatusIsTrueAlone
      BY DEF UdpInv, ToldInv, StatusIsTrueAlone, ToldTruly, Values
    <2>3. QED
      BY <2>1, <2>2, RequestsCount DEF Inv, UdpInv
  <1>2. QED
    BY <1>1, UdpInvariance, PTL

\* A pending recv() is watched, every datagram that was read is the result of one
\* recv() in the order of the calls, and datagrams leave in the order of the
\* calls of send().
THEOREM UdpDelivery == Spec => []Delivery
  <1>1. UdpInv => Delivery
    <2> SUFFICES ASSUME UdpInv PROVE Delivery
      OBVIOUS
    <2>1. RecvIsServed
      BY DEF UdpInv, RecvInv, RecvIsServed
    <2>2. ReadIsDelivered
      <3>1. SUFFICES ASSUME ~reused
                     PROVE  /\ Values(taken) = {got[p] : p \in Served}
                            /\ \A p, q \in Served : p < q => got[p] < got[q]
                            /\ \A p \in Served : prom[p] = "resolved"
        BY DEF ReadIsDelivered, Served, Values
      <3>2. QED
        BY <3>1 DEF UdpInv, ServedInv
    <2>3. SendOrder
      <3>1. Queued = Ids(writeq)
        BY DEF Queued, Ids
      <3>2. QED
        BY <3>1 DEF UdpInv, SentInv, Rising, SendOrder, Values
    <2>4. QED
      BY <2>1, <2>2, <2>3 DEF Delivery
  <1>2. QED
    BY <1>1, UdpInvariance, PTL

-----------------------------------------------------------------------------
(***************************************************************************)
(* The handle implements HandleLifetime                                    *)
(***************************************************************************)

\* A call gives out a promise, which may be settled already, for an object that
\* exists.
LEMMA BeginLifetime ==
  ASSUME NEW v \in {"pending", "resolved"}, UdpInv, Call,
         prom' = [prom EXCEPT ![ops + 1] = v], UNCHANGED <<mem, closed, finalized>>
  PROVE  Lifetime!Next
  <1>1. ops + 1 \in Ops /\ prom[ops + 1] = "none"
    BY OwnedFacts, TypeParts DEF UdpInv, DataTypes, Call
  <1>2. ~finalized
    BY DEF UdpInv, LifeInv, Call
  <1>3. Lifetime!Begin(ops + 1)
    BY <1>1, <1>2 DEF Lifetime!Begin
  <1>4. QED
    BY <1>1, <1>3 DEF Lifetime!Next

\* A callback, and close(), settle promises of a struct that exists.
LEMMA SettleLifetime ==
  ASSUME mem = "live", OnlySettles, Promises', UNCHANGED <<mem, closed, finalized>>
  PROVE  Lifetime!Next
  BY DEF Lifetime!Next, Lifetime!Settle, Lifetime!SettleSome, Lifetime!Outcomes, OnlySettles,
         Outcomes, Promises

\* The finalizer gives up the ownership of the object.
LEMMA FinalizerLifetime ==
  ASSUME Finalizer, OnlySettles, Promises'
  PROVE  Lifetime!Next
  <1>1. ~finalized /\ finalized' /\ closed' = closed
    BY DEF Finalizer
  <1>2. mem' = IF closed THEN "freed" ELSE mem
    BY DEF Finalizer, FinalizeFrees
  <1>3. Lifetime!SettleSome /\ prom' \in [Ops -> {"none", "pending"} \cup Lifetime!Outcomes]
    BY DEF Lifetime!SettleSome, Lifetime!Outcomes, OnlySettles, Outcomes, Promises
  <1>4. Lifetime!Release("object")
    <2>1. CASE closed
      BY <1>1, <1>2, <1>3, <2>1 DEF Lifetime!Release
    <2>2. CASE ~closed
      BY <1>1, <1>2, <1>3, <2>2 DEF Lifetime!Release
    <2>3. QED
      BY <2>1, <2>2
  <1>5. QED
    BY <1>4 DEF Lifetime!Next

\* The close callback gives up that of the loop.
LEMMA CloseCbLifetime ==
  ASSUME UdpInv, CloseCb, uv' = "closed", OnlySettles, Promises'
  PROVE  Lifetime!Next
  <1>1. ~closed
    BY DEF CloseCb, UdpInv, LifeInv
  <1>2. closed' /\ mem' = (IF finalized THEN "freed" ELSE mem) /\ finalized' = finalized
    BY DEF CloseCb, CloseFrees
  <1>3. Lifetime!SettleSome /\ prom' \in [Ops -> {"none", "pending"} \cup Lifetime!Outcomes]
    BY DEF Lifetime!SettleSome, Lifetime!Outcomes, OnlySettles, Outcomes, Promises
  <1>4. Lifetime!Release("loop")
    <2>1. CASE finalized
      BY <1>1, <1>2, <1>3, <2>1 DEF Lifetime!Release
    <2>2. CASE ~finalized
      BY <1>1, <1>2, <1>3, <2>2 DEF Lifetime!Release
    <2>3. QED
      BY <2>1, <2>2
  <1>5. QED
    BY <1>4 DEF Lifetime!Next

\* Every step of the handle is one of HandleLifetime, or leaves its variables.
LEMMA LifetimeStep ==
  ASSUME UdpInv, [Next]_vars
  PROVE  [Lifetime!Next]_(Lifetime!vars)
  <1> USE DEF lifeVars, pollVars, sockVars, netVars, sendVars, recvVars
  <1>t. Flags /\ States /\ Net /\ DataTypes /\ DataInv /\ RecvInv /\ LifeInv /\ Queues
    BY TypeParts DEF UdpInv, DataTypes, DataInv, SendInv, InInv
  <1>n. Net' /\ ops' >= ops
    BY <1>t, NetStep
  <1>s. ASSUME UNCHANGED <<mem, closed, finalized, prom>>
        PROVE  [Lifetime!Next]_(Lifetime!vars)
    BY <1>s DEF Lifetime!vars
  <1>1. CASE Bind \/ Connect \/ Drop
    BY <1>1, <1>s DEF Bind, Connect, Drop
  <1>2. CASE Recv
    <2>1. /\ Call /\ prom' = [prom EXCEPT ![ops + 1] = "pending"]
          /\ UNCHANGED <<mem, closed, finalized>>
      BY <1>2 DEF Recv, InitPromise
    <2>2. QED
      BY <2>1, BeginLifetime
  <1>3. ASSUME NEW f \in BOOLEAN, NEW g \in BOOLEAN, Send(f, g)
        PROVE  [Lifetime!Next]_(Lifetime!vars)
    <2>1. Call /\ UNCHANGED <<mem, closed, finalized>>
      BY <1>3 DEF Send
    <2>2. \/ prom' = prom
          \/ prom' = [prom EXCEPT ![ops + 1] = "pending"]
          \/ prom' = [prom EXCEPT ![ops + 1] = "resolved"]
      BY <1>3 DEF Send, SendNow, SendAgain, SendStale, SendLater, InitPromise
    <2>3. QED
      BY <1>s, <2>1, <2>2, BeginLifetime
  <1>4. CASE Close
    <2>1. /\ mem = "live" /\ UNCHANGED <<mem, closed, finalized>>
          /\ UNCHANGED <<writeq, doneq, unkept, sends, sent, mmsg, taken, got, arrivals, reused>>
          /\ inbox' \in {inbox, <<>>}
      BY <1>4, <1>t DEF Close, Call, MaybeClose, StopIo, LifeInv, States
    <2>2. SettleSlot
      BY <1>4, <1>t, Constants
      DEF Close, EndRecv, SettleAll, SettleSlot, Outcomes, DataTypes, Promises, Incoming
    <2>3. OnlySettles /\ Promises'
      BY <1>t, <1>n, <2>1, <2>2, SlotData DEF DataTypes
    <2>4. QED
      BY <2>1, <2>3, SettleLifetime
  <1>5. CASE CloseCb
    <2>1. CASE sock \/ pollin \/ pollout \/ (ctx = "freed" /\ Requests # {})
      BY <1>5, <1>s, <2>1 DEF CloseCb
    <2>2. CASE ~(sock \/ pollin \/ pollout \/ (ctx = "freed" /\ Requests # {}))
      <3>1. uv' = "closed"
        BY <1>5, <2>2 DEF CloseCb
      <3>2. OnlySettles /\ Promises'
        BY <1>t, <1>5, <3>1, CloseCbData DEF DataTypes
      <3>3. QED
        BY <1>5, <3>1, <3>2, CloseCbLifetime
    <2>3. QED
      BY <2>1, <2>2
  <1>6. ASSUME NEW ok \in BOOLEAN, RecvCb(ok) PROVE [Lifetime!Next]_(Lifetime!vars)
    <2>1. mem = "live" /\ UNCHANGED <<mem, closed, finalized>>
      BY <1>6 DEF RecvCb, Callback
    <2>2. OnlySettles /\ Promises'
      BY <1>t, <1>n, <1>6, RecvCbData DEF DataTypes
    <2>3. QED
      BY <2>1, <2>2, SettleLifetime
  <1>7. CASE SendIo
    <2>1. mem = "live" /\ UNCHANGED <<mem, closed, finalized>>
      BY <1>7 DEF SendIo, Callback
    <2>2. OnlySettles /\ Promises'
      BY <1>t, <1>7, SendIoData DEF DataTypes
    <2>3. QED
      BY <2>1, <2>2, SettleLifetime
  <1>8. ASSUME NEW p \in Ops, LetGo(p) PROVE [Lifetime!Next]_(Lifetime!vars)
    BY <1>8, <1>s DEF LetGo
  <1>9. CASE SendFreed \/ StaleCallback \/ Arrive \/ Drain \/ UNCHANGED vars
    BY <1>9, <1>s DEF SendFreed, StaleCallback, Arrive, Drain, vars
  <1>10. ASSUME Finalizer PROVE [Lifetime!Next]_(Lifetime!vars)
    <2>1. /\ UNCHANGED <<writeq, doneq, unkept, sends, sent, mmsg, taken, got, arrivals, reused>>
          /\ inbox' \in {inbox, <<>>}
      BY <1>10 DEF Finalizer, MaybeClose, StopIo
    <2>2. SettleSlot
      BY <1>10, <1>t, Constants
      DEF Finalizer, SettleSlot, Outcomes, DataTypes, Promises, Incoming
    <2>3. OnlySettles /\ Promises'
      BY <1>t, <1>n, <2>1, <2>2, SlotData DEF DataTypes
    <2>4. QED
      BY <1>10, <2>3, FinalizerLifetime
  <1>11. CASE Collect
    BY <1>10, <1>11 DEF Collect
  <1>12. CASE FreeContext
    <2>1. CASE Finalizer
      BY <1>10, <2>1
    <2>2. CASE ~Finalizer
      BY <1>12, <1>s, <2>2 DEF FreeContext
    <2>3. QED
      BY <2>1, <2>2
  <1>13. QED
    BY <1>1, <1>2, <1>3, <1>4, <1>5, <1>6, <1>7, <1>8, <1>9, <1>11, <1>12
    DEF Next, Program, Loop, Environment

\* The UDP handle implements HandleLifetime: the struct is freed once, by the
\* last of the finalizer and the close callback, and every promise is settled at
\* most once and only while the struct exists.
THEOREM UdpLifetime == Spec => ImplementsLifetime
  <1>1. Init => Lifetime!Init
    BY DEF Init, Lifetime!Init
  <1>2. UdpInv /\ [Next]_vars => [Lifetime!Next]_(Lifetime!vars)
    BY LifetimeStep
  <1>3. QED
    BY <1>1, <1>2, UdpInvariance, PTL DEF Spec, ImplementsLifetime, Lifetime!Spec
==============================================================================
