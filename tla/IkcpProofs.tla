----------------------------- MODULE IkcpProofs ------------------------------
(***************************************************************************)
(* Proofs about Ikcp: for any windows, any range of sequence numbers that  *)
(* is more than twice both windows, and any number of messages and faults. *)
(***************************************************************************)
EXTENDS Ikcp, FiniteSetTheorems, WellFoundedInduction, TLAPS

-----------------------------------------------------------------------------
(***************************************************************************)
(* Numbers                                                                 *)
(***************************************************************************)

LEMMA Constants ==
  /\ SndWnd \in Nat /\ SndWnd > 0 /\ RcvWnd \in Nat /\ RcvWnd > 0
  /\ Modulus \in Nat /\ Modulus > 2 * (SndWnd + RcvWnd) /\ Start \in Nat /\ MaxFaults \in Nat
  BY IkcpAssumption

\* _itimediff is the difference of numbers that are less than half a cycle
\* apart.
LEMMA DiffIsReal ==
  ASSUME NEW a \in Int, NEW b \in Int, 2 * (a - b) < Modulus, 2 * (b - a) < Modulus
  PROVE  Diff(a, b) = a - b
  <1>1. Modulus \in Nat /\ Modulus > 0
    BY Constants
  <1> DEFINE x == a - b
  <1>2. x \in Int /\ 2 * x < Modulus /\ -(2 * x) < Modulus
    BY <1>1
  <1> HIDE DEF x
  <1>3. CASE x >= 0
    <2>1. x % Modulus = x
      BY <1>1, <1>2, <1>3
    <2>2. QED
      BY <1>2, <2>1 DEF Diff, x
  <1>4. CASE x < 0
    <2>1. x % Modulus = x + Modulus
      BY <1>1, <1>2, <1>4
    <2>2. QED
      BY <1>1, <1>2, <1>4, <2>1 DEF Diff, x
  <1>5. QED
    BY <1>2, <1>3, <1>4

\* A set of numbers has a least one.
LEMMA LeastNumber ==
  ASSUME NEW T \in SUBSET Nat, T # {}
  PROVE  \E x \in T : \A y \in T : x <= y
  <1> DEFINE R == OpToRel(<, Nat)
  <1>1. IsWellFoundedOn(R, Nat)
    BY NatLessThanWellFounded
  <1>2. \A y, z \in Nat : y < z => <<y, z>> \in R
    BY DEF OpToRel
  <1> HIDE DEF R
  <1>3. PICK x \in T : \A y \in T : ~(<<y, x>> \in R)
    BY <1>1, WFMin
  <1>4. ASSUME NEW y \in T PROVE x <= y
    <2>1. x \in Nat /\ y \in Nat
      OBVIOUS
    <2>2. ~(y < x)
      BY <1>2, <1>3, <2>1
    <2>3. QED
      BY <2>1, <2>2
  <1>5. QED
    BY <1>4

\* Numbers 1, 2 ... up to the first that is missing
LEMMA Counted ==
  ASSUME NEW n \in Nat, NEW W \in SUBSET (1..n), \A i \in W : \A j \in 1..i : j \in W
  PROVE  /\ W = 1..Cardinality(W) /\ Cardinality(W) \in 0..n
         /\ Cardinality(W) = n \/ Cardinality(W) + 1 \notin W
  <1> DEFINE k == Cardinality(W)
  <1>1. IsFiniteSet(1..n) /\ Cardinality(1..n) = n
    BY FS_Interval
  <1>2. IsFiniteSet(W) /\ k <= n
    BY <1>1, FS_Subset
  <1>3. k \in Nat
    BY <1>2, FS_CardinalityType
  <1>4. IsFiniteSet(1..k) /\ Cardinality(1..k) = k
    BY <1>3, FS_Interval
  <1>5. ASSUME NEW i \in W PROVE i <= k
    <2>1. i \in 1..n /\ i \in Nat /\ i >= 1
      BY <1>5
    <2>2. Cardinality(1..i) = i
      BY <2>1, FS_Interval
    <2>3. 1..i \in SUBSET W
      OBVIOUS
    <2>4. QED
      BY <1>2, <2>2, <2>3, FS_Subset
  <1>6. W \in SUBSET (1..k)
    BY <1>3, <1>5
  <1>7. W = 1..k
    BY <1>4, <1>6, FS_Subset
  <1> HIDE DEF k
  <1>8. QED
    BY <1>2, <1>3, <1>7 DEF k

\* There are two ends.
LEMMA Peers ==
  ASSUME NEW n \in Nodes
  PROVE  /\ Peer(n) \in Nodes /\ Peer(n) # n /\ Peer(Peer(n)) = n
         /\ \A m \in Nodes : m = n \/ m = Peer(n)
  <1>1. IsFiniteSet(Nodes \ {n}) /\ Cardinality(Nodes \ {n}) = 1
    <2>1. IsFiniteSet(Nodes) /\ Cardinality(Nodes) = 2
      BY IkcpAssumption
    <2>2. QED
      BY <2>1, FS_RemoveElement
  <1>2. PICK x : Nodes \ {n} = {x}
    BY <1>1, FS_Singleton
  <1>3. x \in Nodes /\ x # n /\ \A m \in Nodes : m = n \/ m = x
    BY <1>2
  <1>4. Peer(n) = x /\ Peer(x) = n
    BY <1>3 DEF Peer
  <1>5. QED
    BY <1>3, <1>4

-----------------------------------------------------------------------------
(***************************************************************************)
(* The inductive invariant                                                 *)
(***************************************************************************)

\* After i segments of the stream st of the messages ms, message m + 1 begins,
\* or all of them are over.
Begins(st, ms, i, m) ==
  \/ i = Len(st) /\ m = Len(ms)
  \/ /\ i + 1 \in DOMAIN st /\ m + 1 \in DOMAIN ms
     /\ st[i + 1] = [msg |-> m + 1, frg |-> ms[m + 1] - 1]

\* All the segments that an end has made of its messages ms: each message whole,
\* one after the other.
Chain(st, ms) ==
  /\ st \in Seq(Payload) /\ ms \in Seq(Nat \ {0})
  /\ \A i \in DOMAIN st :
       /\ i + st[i].frg <= Len(st)
       /\ \A k \in 0..st[i].frg : st[i + k] = [msg |-> st[i].msg, frg |-> st[i].frg - k]
       /\ st[i].frg = 0 => Begins(st, ms, i, st[i].msg)

\* A segment or packet with number sn carries what the stream has there.
Holds(st, s) ==
  /\ s.sn - Start + 1 \in DOMAIN st
  /\ s.msg = st[s.sn - Start + 1].msg /\ s.frg = st[s.sn - Start + 1].frg

\* The sender has started the segments below nxt.
Sender(st, queue, buf, nxt, una) ==
  /\ nxt \in Nat /\ una \in Nat /\ Start <= una /\ una <= nxt /\ nxt <= una + SndWnd
  /\ queue \in Seq(Payload) /\ Len(st) = nxt - Start + Len(queue)
  /\ \A i \in DOMAIN queue : queue[i] = st[nxt - Start + i]
  /\ buf \subseteq Segment
  /\ \A s \in buf : una <= s.sn /\ s.sn < nxt /\ Holds(st, s)

\* The receiver has taken the messages in msgs, and has the segments below nxt.
Receiver(st, ms, limit, nxt, queue, buf, msgs) ==
  /\ nxt \in Nat /\ nxt <= limit
  /\ queue \in Seq(Payload) /\ Len(queue) <= RcvWnd /\ Start + Len(queue) <= nxt
  /\ \A i \in DOMAIN queue : queue[i] = st[nxt - Start - Len(queue) + i]
  /\ buf \subseteq Segment
  /\ \A s \in buf : nxt <= s.sn /\ s.sn < nxt + RcvWnd /\ s.sn < limit /\ Holds(st, s)
  /\ msgs \in Seq(Seq(Payload)) /\ Len(msgs) <= Len(ms)
  /\ \A m \in DOMAIN msgs : msgs[m] = Pieces(m, ms[m])
  /\ Begins(st, ms, nxt - Start - Len(queue), Len(msgs))

\* The receiver has segment sn.
Has(sn, nxt, buf) == sn < nxt \/ \E s \in buf : s.sn = sn

Received(sn, limit, nxt, buf) ==
  sn \in Nat /\ Start <= sn /\ sn < limit /\ Has(sn, nxt, buf)

Kept(sbuf, limit, nxt, rbuf) ==
  \A sn \in Start..(limit - 1) : (\E s \in sbuf : s.sn = sn) \/ Has(sn, nxt, rbuf)

\* Packet x from n to p, or from p to n, tells the truth about the segments of n.
Truthful(x, n, p, st, limit, nxt, buf) ==
  /\ x.to = p /\ x.cmd = "push" => x.sn < limit /\ Holds(st, x)
  /\ x.to = n => /\ Start <= x.una /\ x.una <= nxt
                 /\ x.cmd = "ack" => Received(x.sn, limit, nxt, buf)

\* What n sends to p
Direction(n, p, st) ==
  /\ Chain(st, sent[n])
  /\ Sender(st, snd_queue[n], snd_buf[n], snd_nxt[n], snd_una[n])
  /\ Receiver(st, sent[n], snd_nxt[n], rcv_nxt[p], rcv_queue[p], rcv_buf[p], got[p])
  /\ Kept(snd_buf[n], snd_nxt[n], rcv_nxt[p], rcv_buf[p])
  /\ \A sn \in acklist[p] : Received(sn, snd_nxt[n], rcv_nxt[p], rcv_buf[p])
  /\ \A x \in net \union delayed :
       Truthful(x, n, p, st, snd_nxt[n], rcv_nxt[p], rcv_buf[p])

PacketSet == [to : Nodes, cmd : {"push", "ack", "wask", "wins"}, sn : Nat, msg : Nat,
              frg : Nat, una : Nat, wnd : 0..RcvWnd]

IkcpTypes ==
  /\ snd_queue \in [Nodes -> Seq(Payload)] /\ rcv_queue \in [Nodes -> Seq(Payload)]
  /\ snd_buf \in [Nodes -> SUBSET Segment] /\ rcv_buf \in [Nodes -> SUBSET Segment]
  /\ snd_nxt \in [Nodes -> Nat] /\ snd_una \in [Nodes -> Nat] /\ rcv_nxt \in [Nodes -> Nat]
  /\ rmt_wnd \in [Nodes -> 0..RcvWnd]
  /\ probing \in [Nodes -> BOOLEAN] /\ tell \in [Nodes -> BOOLEAN]
  /\ due \in [Nodes -> BOOLEAN]
  /\ acklist \in [Nodes -> SUBSET Nat]
  /\ net \subseteq PacketSet /\ delayed \subseteq PacketSet
  /\ sent \in [Nodes -> Seq(Nat)]
  /\ got \in [Nodes -> Seq(Seq(Payload))]
  /\ faults \in 0..MaxFaults

IkcpInv ==
  /\ IkcpTypes
  /\ \A n \in Nodes : \E st \in Seq(Payload) : Direction(n, Peer(n), st)

-----------------------------------------------------------------------------
(***************************************************************************)
(* The receiver                                                            *)
(***************************************************************************)

LEMMA PayloadFields ==
  /\ \A s \in Segment : s.sn \in Nat /\ s.msg \in Nat /\ s.frg \in Nat
  /\ \A q \in Payload : q.msg \in Nat /\ q.frg \in Nat
  /\ \A i, j \in Nat : [msg |-> i, frg |-> j] \in Payload
  /\ \A i, j, k \in Nat : [sn |-> i, msg |-> j, frg |-> k] \in Segment
  BY DEF Segment, Payload

\* What follows a queue
LEMMA Joined ==
  ASSUME NEW S, NEW q \in Seq(S), NEW r \in Seq(S)
  PROVE  /\ q \o r \in Seq(S) /\ Len(q \o r) = Len(q) + Len(r)
         /\ DOMAIN (q \o r) = 1..(Len(q) + Len(r))
         /\ \A i \in 1..Len(q) : (q \o r)[i] = q[i]
         /\ \A i \in (Len(q) + 1)..(Len(q) + Len(r)) : (q \o r)[i] = r[i - Len(q)]
  OBVIOUS

\* The stream says what the segment with a given number is.
LEMMA SameSegment ==
  ASSUME NEW st, NEW s \in Segment, NEW t \in Segment, Holds(st, s), Holds(st, t), s.sn = t.sn
  PROVE  s = t
  BY DEF Segment, Holds

\* In a buffer that is not longer than the window the code finds the segment
\* with number sn.
LEMMA TurnIsReal ==
  ASSUME NEW nxt \in Nat, NEW buf \in SUBSET Segment, NEW sn \in Nat,
         \A s \in buf : nxt <= s.sn /\ s.sn < nxt + RcvWnd,
         nxt <= sn, sn < nxt + RcvWnd
  PROVE  Turn(buf, sn) = {s \in buf : s.sn = sn}
  <1>1. ASSUME NEW s \in buf PROVE Diff(s.sn, sn) = 0 <=> s.sn = sn
    <2> DEFINE x == s.sn
    <2>1. x \in Nat /\ nxt <= x /\ x < nxt + RcvWnd
      BY PayloadFields
    <2> HIDE DEF x
    <2>2. x \in Int /\ sn \in Int /\ 2 * (x - sn) < Modulus /\ 2 * (sn - x) < Modulus
      BY <2>1, Constants
    <2>3. Diff(x, sn) = x - sn
      BY <2>2, DiffIsReal
    <2>4. QED
      BY <2>1, <2>3 DEF x
  <1>2. QED
    BY <1>1 DEF Turn

\* What the loop at the end of ikcp_parse_data and ikcp_recv moves
LEMMA RunIsReal ==
  ASSUME NEW nxt \in Nat, NEW buf \in SUBSET Segment, NEW queue \in Seq(Payload),
         Len(queue) <= RcvWnd,
         \A s \in buf : nxt <= s.sn /\ s.sn < nxt + RcvWnd
  PROVE  LET k == Cardinality(Run(buf, queue, nxt))
             moved == [i \in 1..k |-> CHOOSE s \in Turn(buf, nxt + i - 1) : TRUE]
         IN  /\ k \in 0..(RcvWnd - Len(queue)) /\ k \in Nat
             /\ \A i \in 1..k : moved[i] \in buf /\ moved[i].sn = nxt + i - 1
  <1> DEFINE room == RcvWnd - Len(queue)
             W == Run(buf, queue, nxt)
             k == Cardinality(W)
             moved == [i \in 1..k |-> CHOOSE s \in Turn(buf, nxt + i - 1) : TRUE]
  <1>1. room \in Nat /\ room <= RcvWnd
    BY Constants
  <1>2. W = {i \in 1..room : \A j \in 1..i : Turn(buf, nxt + j - 1) # {}}
    BY DEF Run
  <1> HIDE DEF W, room
  <1>3. W \in SUBSET (1..room) /\ \A i \in W : \A j \in 1..i : j \in W
    <2>1. ASSUME NEW i \in W, NEW j \in 1..i PROVE j \in W
      <3>1. i \in 1..room /\ \A h \in 1..i : Turn(buf, nxt + h - 1) # {}
        BY <1>2
      <3>2. j \in 1..room /\ \A h \in 1..j : h \in 1..i
        BY <1>1, <3>1
      <3>3. QED
        BY <1>2, <3>1, <3>2
    <2>2. QED
      BY <1>2, <2>1
  <1>4. W = 1..k /\ k \in 0..room
    BY <1>1, <1>3, Counted
  <1>5. k \in Nat /\ k <= room
    BY <1>1, <1>4
  <1>6. ASSUME NEW i \in 1..k PROVE moved[i] \in buf /\ moved[i].sn = nxt + i - 1
    <2> DEFINE sn == nxt + i - 1
    <2>1. i \in W /\ i \in Nat /\ i >= 1
      BY <1>4, <1>5
    <2>2. i \in 1..i
      BY <2>1
    <2>3. Turn(buf, sn) # {}
      BY <1>2, <2>1, <2>2
    <2>4. sn \in Nat /\ nxt <= sn /\ sn < nxt + RcvWnd
      <3> HIDE DEF k
      <3>1. i <= RcvWnd
        BY <1>1, <1>5, Constants
      <3>2. QED
        BY <2>1, <3>1, Constants
    <2>5. moved[i] = CHOOSE s \in Turn(buf, sn) : TRUE
      OBVIOUS
    <2> HIDE DEF sn, k, moved
    <2>6. Turn(buf, sn) = {s \in buf : s.sn = sn}
      BY <2>4, TurnIsReal
    <2>7. moved[i] \in Turn(buf, sn)
      BY <2>3, <2>5
    <2>8. QED
      BY <2>6, <2>7 DEF sn
  <1>7. QED
    BY <1>4, <1>5, <1>6 DEF room, W

\* What Move takes out of buf, and what is left of buf and becomes of queue
MovedCount(buf, queue, nxt) == Cardinality(Run(buf, queue, nxt))

MovedRest(buf, queue, nxt) ==
  LET k == Cardinality(Run(buf, queue, nxt))
      moved == [i \in 1..k |-> CHOOSE s \in Turn(buf, nxt + i - 1) : TRUE]
  IN  buf \ {moved[i] : i \in 1..k}

MovedQueue(buf, queue, nxt) ==
  LET k == Cardinality(Run(buf, queue, nxt))
      moved == [i \in 1..k |-> CHOOSE s \in Turn(buf, nxt + i - 1) : TRUE]
  IN  queue \o [i \in 1..k |-> [msg |-> moved[i].msg, frg |-> moved[i].frg]]

\* rcv_buf -> rcv_queue: the receiver keeps what it has.
LEMMA MoveReceiver ==
  ASSUME NEW st, NEW ms, NEW limit \in Nat, NEW nxt, NEW queue, NEW buf, NEW msgs,
         st \in Seq(Payload),
         Receiver(st, ms, limit, nxt, queue, buf, msgs)
  PROVE  /\ Receiver(st, ms, limit, nxt + MovedCount(buf, queue, nxt),
                     MovedQueue(buf, queue, nxt), MovedRest(buf, queue, nxt), msgs)
         /\ \A sn \in Nat : Has(sn, nxt, buf)
               => Has(sn, nxt + MovedCount(buf, queue, nxt), MovedRest(buf, queue, nxt))
  <1> DEFINE k == Cardinality(Run(buf, queue, nxt))
             moved == [i \in 1..k |-> CHOOSE s \in Turn(buf, nxt + i - 1) : TRUE]
             rest == buf \ {moved[i] : i \in 1..k}
             tail == [i \in 1..k |-> [msg |-> moved[i].msg, frg |-> moved[i].frg]]
             more == queue \o tail
             l == Len(queue)
  <1>1. /\ nxt \in Nat /\ nxt <= limit /\ buf \in SUBSET Segment
        /\ queue \in Seq(Payload) /\ l <= RcvWnd /\ Start + l <= nxt
        /\ \A i \in DOMAIN queue : queue[i] = st[nxt - Start - l + i]
        /\ \A s \in buf : nxt <= s.sn /\ s.sn < nxt + RcvWnd /\ s.sn < limit /\ Holds(st, s)
        /\ msgs \in Seq(Seq(Payload)) /\ Len(msgs) <= Len(ms)
        /\ \A m \in DOMAIN msgs : msgs[m] = Pieces(m, ms[m])
        /\ Begins(st, ms, nxt - Start - l, Len(msgs))
    BY DEF Receiver
  <1>2. /\ k \in 0..(RcvWnd - l) /\ k \in Nat
        /\ \A i \in 1..k : moved[i] \in buf /\ moved[i].sn = nxt + i - 1
    BY <1>1, RunIsReal
  <1> HIDE DEF k, moved
  <1>3. l \in Nat /\ DOMAIN queue = 1..l
    BY <1>1
  <1>4. l + k <= RcvWnd
    BY <1>2, <1>3, Constants
  <1>5. tail \in Seq(Payload) /\ Len(tail) = k /\ DOMAIN tail = 1..k
    <2>1. \A i \in 1..k : tail[i] \in Payload
      BY <1>1, <1>2, PayloadFields
    <2>2. QED
      BY <1>2, <2>1
  <1>6. \A i \in 1..k : tail[i] = st[nxt - Start + i]
    <2>1. SUFFICES ASSUME NEW i \in 1..k PROVE tail[i] = st[nxt - Start + i]
      OBVIOUS
    <2>2. moved[i] \in buf /\ moved[i] \in Segment /\ moved[i].sn = nxt + i - 1 /\ Holds(st, moved[i])
      BY <1>1, <1>2
    <2>3. moved[i].sn - Start + 1 = nxt - Start + i
      BY <1>1, <1>2, <2>2, Constants
    <2>4. /\ nxt - Start + i \in DOMAIN st
          /\ moved[i].msg = st[nxt - Start + i].msg /\ moved[i].frg = st[nxt - Start + i].frg
      BY <2>2, <2>3 DEF Holds
    <2>5. st[nxt - Start + i] \in Payload
      BY <2>4
    <2>6. tail[i] = [msg |-> moved[i].msg, frg |-> moved[i].frg]
      OBVIOUS
    <2> HIDE DEF tail
    <2>7. QED
      BY <2>4, <2>5, <2>6 DEF Payload
  <1> HIDE DEF tail
  <1>7. /\ more \in Seq(Payload) /\ Len(more) = l + k /\ DOMAIN more = 1..(l + k)
        /\ \A i \in 1..l : more[i] = queue[i]
        /\ \A i \in (l + 1)..(l + k) : more[i] = tail[i - l]
    BY <1>1, <1>5, Joined
  <1> HIDE DEF more, l
  <1>8. nxt + k \in Nat /\ nxt + k <= limit
    <2>1. CASE k = 0
      BY <1>1, <2>1
    <2>2. CASE k > 0
      <3>1. k \in 1..k
        BY <1>2, <2>2
      <3>2. moved[k].sn = nxt + k - 1 /\ moved[k].sn < limit
        BY <1>1, <1>2, <3>1
      <3>3. QED
        BY <1>1, <1>2, <3>2
    <2>3. QED
      BY <1>2, <2>1, <2>2
  <1>9. (nxt + k) - Start - (l + k) = nxt - Start - l
    BY <1>1, <1>2, <1>3, Constants
  <1>10. \A i \in DOMAIN more : more[i] = st[(nxt + k) - Start - Len(more) + i]
    <2>1. SUFFICES ASSUME NEW i \in 1..(l + k) PROVE more[i] = st[nxt - Start - l + i]
      BY <1>7, <1>9
    <2>2. CASE i \in 1..l
      BY <1>1, <1>3, <1>7, <2>2
    <2>3. CASE i \in (l + 1)..(l + k)
      <3>1. i - l \in 1..k /\ nxt - Start + (i - l) = nxt - Start - l + i
        BY <1>1, <1>2, <1>3, <2>3, Constants
      <3>2. QED
        BY <1>6, <1>7, <2>3, <3>1
    <2>4. QED
      BY <1>2, <1>3, <2>2, <2>3
  <1>11. rest \subseteq Segment /\ \A s \in rest : s \in buf /\ nxt + k <= s.sn
    <2>1. ASSUME NEW s \in rest PROVE nxt + k <= s.sn
      <3>1. s \in buf /\ s \in Segment /\ s.sn \in Nat /\ nxt <= s.sn
        BY <1>1, PayloadFields
      <3>2. SUFFICES ASSUME s.sn < nxt + k PROVE FALSE
        BY <1>8, <3>1
      <3> DEFINE i == s.sn - nxt + 1
      <3>3. i \in 1..k /\ nxt + i - 1 = s.sn
        BY <1>1, <1>2, <3>1, <3>2
      <3> HIDE DEF i
      <3>4. moved[i] \in buf /\ moved[i].sn = s.sn /\ moved[i] # s
        BY <1>2, <3>3
      <3>5. QED
        BY <1>1, <3>1, <3>4, SameSegment
    <2>2. QED
      BY <1>1, <2>1
  <1>12. \A s \in rest : nxt + k <= s.sn /\ s.sn < nxt + k + RcvWnd /\ s.sn < limit /\ Holds(st, s)
    <2>1. ASSUME NEW s \in rest PROVE s.sn < nxt + k + RcvWnd
      <3>1. s \in buf /\ s.sn \in Nat /\ s.sn < nxt + RcvWnd
        BY <1>1, <1>11, PayloadFields
      <3>2. QED
        BY <1>1, <1>2, <3>1, Constants
    <2>2. QED
      BY <1>1, <1>11, <2>1
  <1>13. ASSUME NEW sn \in Nat, Has(sn, nxt, buf) PROVE Has(sn, nxt + k, rest)
    <2>1. CASE sn < nxt + k
      BY <2>1 DEF Has
    <2>2. CASE ~(sn < nxt + k)
      <3>1. ~(sn < nxt)
        BY <1>1, <1>2, <2>2
      <3>2. PICK s \in buf : s.sn = sn
        BY <1>13, <3>1 DEF Has
      <3>3. \A i \in 1..k : moved[i].sn < nxt + k
        BY <1>1, <1>2
      <3>4. s \in rest
        BY <2>2, <3>2, <3>3
      <3>5. QED
        BY <3>2, <3>4 DEF Has
    <2>3. QED
      BY <2>1, <2>2
  <1>14. Start + (l + k) <= nxt + k
    BY <1>1, <1>2, <1>3, Constants
  <1>15. Receiver(st, ms, limit, nxt + k, more, rest, msgs)
    <2> HIDE DEF rest
    <2>1. /\ more \in Seq(Payload) /\ Len(more) <= RcvWnd /\ Start + Len(more) <= nxt + k
          /\ (nxt + k) - Start - Len(more) = nxt - Start - l
      BY <1>4, <1>7, <1>9, <1>14
    <2>2. Begins(st, ms, (nxt + k) - Start - Len(more), Len(msgs))
      BY <1>1, <2>1
    <2> DEFINE to == nxt + k
    <2>3. /\ to \in Nat /\ to <= limit /\ Start + Len(more) <= to
          /\ \A i \in DOMAIN more : more[i] = st[to - Start - Len(more) + i]
          /\ \A s \in rest : to <= s.sn /\ s.sn < to + RcvWnd /\ s.sn < limit /\ Holds(st, s)
          /\ Begins(st, ms, to - Start - Len(more), Len(msgs))
      <3>1. to \in Nat /\ to <= limit /\ Start + Len(more) <= to
        BY <1>8, <2>1
      <3>2. \A i \in DOMAIN more : more[i] = st[to - Start - Len(more) + i]
        BY <1>10
      <3>3. \A s \in rest : to <= s.sn /\ s.sn < to + RcvWnd /\ s.sn < limit /\ Holds(st, s)
        BY <1>12
      <3>4. Begins(st, ms, to - Start - Len(more), Len(msgs))
        BY <2>2
      <3>5. QED
        BY <3>1, <3>2, <3>3, <3>4
    <2>4. more \in Seq(Payload) /\ Len(more) <= RcvWnd /\ rest \subseteq Segment
      BY <1>11, <2>1
    <2>5. /\ msgs \in Seq(Seq(Payload)) /\ Len(msgs) <= Len(ms)
          /\ \A m \in DOMAIN msgs : msgs[m] = Pieces(m, ms[m])
      BY <1>1
    <2> HIDE DEF to
    <2>6. Receiver(st, ms, limit, to, more, rest, msgs)
      BY ONLY <2>3, <2>4, <2>5 DEF Receiver
    <2>7. QED
      BY <2>6 DEF to
  <1>16. QED
    BY <1>13, <1>15 DEF k, moved, tail, more, MovedCount, MovedRest, MovedQueue

-----------------------------------------------------------------------------
(***************************************************************************)
(* The sender                                                              *)
(***************************************************************************)

\* Oldest is the least number of a buffer that is not longer than the window.
LEMMA OldestIsReal ==
  ASSUME NEW una \in Nat, NEW limit \in Nat, NEW buf \in SUBSET Segment,
         una <= limit, limit <= una + SndWnd,
         \A s \in buf : una <= s.sn /\ s.sn < limit
  PROVE  /\ Oldest(buf, limit) \in Nat /\ una <= Oldest(buf, limit) /\ Oldest(buf, limit) <= limit
         /\ \A s \in buf : Oldest(buf, limit) <= s.sn
  <1>1. CASE buf = {}
    BY <1>1 DEF Oldest
  <1>2. CASE buf # {}
    <2> DEFINE T == {s.sn : s \in buf}
               o == CHOOSE s \in buf : \A t \in buf : Diff(s.sn, t.sn) <= 0
    <2>1. ASSUME NEW s \in buf, NEW t \in buf PROVE Diff(s.sn, t.sn) <= 0 <=> s.sn <= t.sn
      <3> DEFINE x == s.sn
                 y == t.sn
      <3>1. x \in Nat /\ y \in Nat /\ una <= x /\ x < limit /\ una <= y /\ y < limit
        BY PayloadFields
      <3> HIDE DEF x, y
      <3>2. x \in Int /\ y \in Int /\ 2 * (x - y) < Modulus /\ 2 * (y - x) < Modulus
        BY <3>1, Constants
      <3>3. Diff(x, y) = x - y
        BY <3>2, DiffIsReal
      <3>4. Diff(x, y) <= 0 <=> x <= y
        BY <3>1, <3>3
      <3>5. QED
        BY <3>4 DEF x, y
    <2>2. T \in SUBSET Nat /\ T # {}
      BY <1>2, PayloadFields
    <2>3. PICK a \in T : \A b \in T : a <= b
      BY <2>2, LeastNumber
    <2>4. PICK s \in buf : s.sn = a
      BY <2>3
    <2>5. \A t \in buf : Diff(s.sn, t.sn) <= 0
      BY <2>1, <2>3, <2>4
    <2>6. o \in buf /\ \A t \in buf : Diff(o.sn, t.sn) <= 0
      BY <2>5
    <2>7. Oldest(buf, limit) = o.sn
      BY <1>2 DEF Oldest
    <2> HIDE DEF o
    <2>8. \A t \in buf : o.sn <= t.sn
      BY <2>1, <2>6
    <2>9. o.sn \in Nat /\ una <= o.sn /\ o.sn < limit
      BY <2>6, PayloadFields
    <2>10. QED
      BY <2>7, <2>8, <2>9
  <1>3. QED
    BY <1>1, <1>2

\* ikcp_shrink_buf after segments that the receiver has were removed.
LEMMA ShrinkSender ==
  ASSUME NEW st, NEW queue, NEW buf, NEW limit, NEW una, NEW nxt, NEW rbuf, NEW left,
         Sender(st, queue, buf, limit, una), Kept(buf, limit, nxt, rbuf), left \subseteq buf,
         \A s \in buf : s \in left \/ Has(s.sn, nxt, rbuf)
  PROVE  Sender(st, queue, left, limit, Oldest(left, limit)) /\ Kept(left, limit, nxt, rbuf)
  <1>1. /\ limit \in Nat /\ una \in Nat /\ Start <= una /\ una <= limit /\ limit <= una + SndWnd
        /\ buf \subseteq Segment
        /\ \A s \in buf : una <= s.sn /\ s.sn < limit /\ Holds(st, s)
    BY DEF Sender
  <1> DEFINE o == Oldest(left, limit)
  <1>2. left \in SUBSET Segment /\ \A s \in left : una <= s.sn /\ s.sn < limit
    BY <1>1
  <1>3. o \in Nat /\ una <= o /\ o <= limit /\ \A s \in left : o <= s.sn
    BY <1>1, <1>2, OldestIsReal
  <1> HIDE DEF o
  <1>4. Start <= o /\ limit <= o + SndWnd
    BY <1>1, <1>3, Constants
  <1>5. Sender(st, queue, left, limit, o)
    BY <1>1, <1>3, <1>4 DEF Sender
  <1>6. Kept(left, limit, nxt, rbuf)
    BY DEF Kept
  <1>7. QED
    BY <1>5, <1>6 DEF o

\* The two ends are not further apart than their windows.
LEMMA WindowsMeet ==
  ASSUME NEW st, NEW ms, NEW squeue, NEW sbuf, NEW limit, NEW una,
         NEW nxt, NEW queue, NEW buf, NEW msgs,
         Sender(st, squeue, sbuf, limit, una), Receiver(st, ms, limit, nxt, queue, buf, msgs),
         Kept(sbuf, limit, nxt, buf)
  PROVE  /\ una \in Nat /\ nxt \in Nat /\ limit \in Nat /\ Start <= una /\ Start <= nxt
         /\ una <= nxt + RcvWnd /\ una <= limit /\ nxt <= limit /\ limit <= una + SndWnd
  <1>1. /\ limit \in Nat /\ una \in Nat /\ Start <= una /\ una <= limit /\ limit <= una + SndWnd
        /\ sbuf \subseteq Segment /\ \A s \in sbuf : una <= s.sn
    BY DEF Sender
  <1>2. /\ nxt \in Nat /\ nxt <= limit /\ Len(queue) \in Nat /\ Start + Len(queue) <= nxt
        /\ buf \subseteq Segment /\ \A s \in buf : s.sn < nxt + RcvWnd
    BY DEF Receiver
  <1>3. Start <= nxt
    BY <1>2, Constants
  <1>4. una <= nxt + RcvWnd
    <2>1. SUFFICES ASSUME nxt + RcvWnd < una PROVE FALSE
      BY <1>1, <1>2, Constants
    <2> DEFINE sn == nxt + RcvWnd
    <2>2. sn \in Start..(limit - 1) /\ sn \in Nat /\ ~(sn < nxt) /\ sn < una
      BY <1>1, <1>2, <1>3, <2>1, Constants
    <2>3. \A s \in buf : s.sn < sn
      BY <1>2
    <2> HIDE DEF sn
    <2>4. \A s \in sbuf : s.sn # sn
      BY <1>1, <2>2, PayloadFields
    <2>5. \A s \in buf : s.sn # sn
      BY <1>2, <2>2, <2>3, PayloadFields
    <2>6. QED
      BY <2>2, <2>4, <2>5 DEF Kept, Has
  <1>5. QED
    BY <1>1, <1>2, <1>3, <1>4

\* ikcp_parse_una and ikcp_parse_ack, for a packet that tells the truth.
LEMMA AckSender ==
  ASSUME NEW st, NEW ms, NEW squeue, NEW sbuf, NEW limit, NEW una,
         NEW nxt, NEW queue, NEW rbuf, NEW msgs, NEW isack, NEW pu \in Nat, NEW sn \in Nat,
         Sender(st, squeue, sbuf, limit, una), Receiver(st, ms, limit, nxt, queue, rbuf, msgs),
         Kept(sbuf, limit, nxt, rbuf),
         Start <= pu, pu <= nxt, 2 * (limit - pu) < Modulus,
         isack => Received(sn, limit, nxt, rbuf) /\ 2 * (limit - sn) < Modulus
  PROVE  LET buf == ParseUna(sbuf, pu)
             left == IF isack THEN ParseAck(buf, Oldest(buf, limit), limit, sn) ELSE buf
         IN  Sender(st, squeue, left, limit, Oldest(left, limit)) /\ Kept(left, limit, nxt, rbuf)
  <1> DEFINE buf == ParseUna(sbuf, pu)
             left == IF isack THEN ParseAck(buf, Oldest(buf, limit), limit, sn) ELSE buf
  <1>1. /\ una \in Nat /\ nxt \in Nat /\ limit \in Nat /\ Start <= una /\ Start <= nxt
        /\ una <= nxt + RcvWnd /\ una <= limit /\ nxt <= limit /\ limit <= una + SndWnd
    BY WindowsMeet
  <1>2. sbuf \subseteq Segment /\ \A s \in sbuf : una <= s.sn /\ s.sn < limit
    BY DEF Sender
  <1>3. ASSUME NEW s \in sbuf PROVE s \in buf \/ s.sn < pu
    <2> DEFINE x == s.sn
    <2>1. x \in Nat /\ una <= x /\ x < limit
      BY <1>2, PayloadFields
    <2> HIDE DEF x
    <2>2. pu \in Int /\ x \in Int /\ 2 * (pu - x) < Modulus /\ 2 * (x - pu) < Modulus
      BY <1>1, <2>1, Constants
    <2>3. Diff(pu, x) = pu - x
      BY <2>2, DiffIsReal
    <2>4. Diff(pu, x) <= 0 \/ x < pu
      BY <2>1, <2>3
    <2>5. QED
      BY <2>4 DEF ParseUna, x
  <1>4. buf \subseteq sbuf
    BY DEF ParseUna
  <1>5. \A s \in sbuf : s \in buf \/ Has(s.sn, nxt, rbuf)
    <2>1. ASSUME NEW s \in sbuf, s.sn < pu PROVE s.sn < nxt
      BY <1>1, <1>2, <2>1, PayloadFields
    <2>2. QED
      BY <1>3, <2>1 DEF Has
  <1> HIDE DEF buf
  <1>6. ASSUME NEW s \in buf PROVE s \in left \/ Has(s.sn, nxt, rbuf)
    <2>1. CASE ~isack
      BY <2>1
    <2>2. CASE isack
      <3> DEFINE x == s.sn
      <3>1. x \in Nat /\ una <= x /\ x < limit
        BY <1>2, <1>4, PayloadFields
      <3> HIDE DEF x
      <3>2. x \in Int /\ sn \in Int /\ 2 * (x - sn) < Modulus /\ 2 * (sn - x) < Modulus
        BY <1>1, <2>2, <3>1, Constants DEF Received
      <3>3. Diff(x, sn) = x - sn
        BY <3>2, DiffIsReal
      <3>4. Diff(x, sn) # 0 \/ x = sn
        BY <3>1, <3>3
      <3>5. left = ParseAck(buf, Oldest(buf, limit), limit, sn)
        BY <2>2
      <3>6. Diff(s.sn, sn) # 0 => s \in left
        BY <3>5 DEF ParseAck
      <3>7. s.sn = sn => Has(s.sn, nxt, rbuf)
        BY <2>2 DEF Received
      <3>8. QED
        BY <3>4, <3>6, <3>7 DEF x
    <2>3. QED
      BY <2>1, <2>2
  <1>7. left \subseteq buf
    BY DEF ParseAck
  <1> HIDE DEF left
  <1>8. left \subseteq sbuf /\ \A s \in sbuf : s \in left \/ Has(s.sn, nxt, rbuf)
    BY <1>4, <1>5, <1>6, <1>7
  <1>9. Sender(st, squeue, left, limit, Oldest(left, limit)) /\ Kept(left, limit, nxt, rbuf)
    BY <1>8, ShrinkSender
  <1>10. QED
    BY <1>9 DEF buf, left

\* How many segments ikcp_flush starts
LEMMA WindowIsReal ==
  ASSUME NEW n \in Nodes, NEW st, NEW w \in 0..SndWnd,
         Sender(st, snd_queue[n], snd_buf[n], snd_nxt[n], snd_una[n])
  PROVE  LET k == Cardinality(Window(n, w))
         IN  /\ k \in Nat /\ k <= Len(snd_queue[n])
             /\ snd_nxt[n] + k <= snd_una[n] + SndWnd
  <1> DEFINE q == snd_queue[n]
             nxt == snd_nxt[n]
             una == snd_una[n]
             W == Window(n, w)
             k == Cardinality(W)
             l == Len(q)
  <1>1. /\ nxt \in Nat /\ una \in Nat /\ una <= nxt /\ nxt <= una + SndWnd
        /\ l \in Nat /\ DOMAIN q = 1..l
    BY DEF Sender
  <1>2. W = {i \in 1..l : \A j \in 1..i : Diff(nxt + j - 1, una + w) < 0}
    BY <1>1 DEF Window
  <1> HIDE DEF W, nxt, una, q, l
  <1>3. W \in SUBSET (1..l) /\ \A i \in W : \A j \in 1..i : j \in W
    <2>1. ASSUME NEW i \in W, NEW j \in 1..i PROVE j \in W
      <3>1. i \in 1..l /\ \A h \in 1..i : Diff(nxt + h - 1, una + w) < 0
        BY <1>2
      <3>2. j \in 1..l /\ \A h \in 1..j : h \in 1..i
        BY <1>1, <3>1
      <3>3. QED
        BY <1>2, <3>1, <3>2
    <2>2. QED
      BY <1>2, <2>1
  <1>4. W = 1..k /\ k \in 0..l
    BY <1>1, <1>3, Counted
  <1>5. k \in Nat /\ k <= l
    BY <1>1, <1>4
  <1> HIDE DEF k
  <1>6. w \in Nat /\ w <= SndWnd
    BY Constants
  <1>7. ASSUME NEW j \in 1..k PROVE Diff(nxt + j - 1, una + w) < 0
    <2>1. j \in W /\ j \in 1..j
      BY <1>4, <1>5
    <2>2. QED
      BY <1>2, <2>1
  <1>8. ASSUME NEW j \in 1..k, nxt + j - 1 >= una + w, nxt + j - 1 <= una + w + SndWnd PROVE FALSE
    <2> DEFINE a == nxt + j - 1
               b == una + w
    <2>1. a \in Int /\ b \in Int /\ a >= b /\ 2 * (a - b) < Modulus /\ 2 * (b - a) < Modulus
      BY <1>1, <1>5, <1>6, <1>8, Constants
    <2>2. Diff(a, b) < 0
      BY <1>7
    <2> HIDE DEF a, b
    <2>3. Diff(a, b) = a - b
      BY <2>1, DiffIsReal
    <2>4. QED
      BY <2>1, <2>2, <2>3
  <1>9. nxt + k <= una + SndWnd
    <2>1. SUFFICES ASSUME nxt + k > una + SndWnd PROVE FALSE
      BY <1>1, <1>5, Constants
    <2>2. CASE nxt >= una + w
      <3>1. 1 \in 1..k
        BY <1>1, <1>5, <2>1, Constants
      <3>2. nxt + 1 - 1 >= una + w /\ nxt + 1 - 1 <= una + w + SndWnd
        BY <1>1, <1>6, <2>2, Constants
      <3>3. QED
        BY <1>8, <3>1, <3>2
    <2>3. CASE nxt < una + w
      <3> DEFINE j == una + w - nxt + 1
      <3>1. j \in 1..k /\ nxt + j - 1 >= una + w /\ nxt + j - 1 <= una + w + SndWnd
        BY <1>1, <1>5, <1>6, <2>1, <2>3, Constants
      <3> HIDE DEF j
      <3>2. QED
        BY <1>8, <3>1
    <2>4. QED
      BY <1>1, <1>6, <2>2, <2>3
  <1>10. QED
    BY <1>5, <1>9 DEF nxt, una, k, W, q, l

\* What is left of a queue
LEMMA Rest ==
  ASSUME NEW S, NEW q \in Seq(S), NEW k \in Nat, k <= Len(q)
  PROVE  LET r == SubSeq(q, k + 1, Len(q))
         IN  /\ r \in Seq(S) /\ Len(r) = Len(q) - k /\ DOMAIN r = 1..(Len(q) - k)
             /\ \A i \in 1..(Len(q) - k) : r[i] = q[k + i]
  OBVIOUS

\* The first k segments of the queue
Started(limit, queue, k) ==
  {[sn |-> limit + i - 1, msg |-> queue[i].msg, frg |-> queue[i].frg] : i \in 1..k}

\* ikcp_flush: snd_queue -> snd_buf.
LEMMA StartSender ==
  ASSUME NEW st \in Seq(Payload), NEW queue, NEW buf, NEW limit, NEW una, NEW k \in Nat,
         NEW nxt, NEW rbuf,
         Sender(st, queue, buf, limit, una), Kept(buf, limit, nxt, rbuf),
         k <= Len(queue), limit + k <= una + SndWnd
  PROVE  LET new == Started(limit, queue, k)
         IN  /\ Sender(st, SubSeq(queue, k + 1, Len(queue)), buf \union new, limit + k, una)
             /\ Kept(buf \union new, limit + k, nxt, rbuf)
             /\ new \subseteq Segment
             /\ \A s \in new : s.sn < limit + k /\ Holds(st, s)
  <1> DEFINE seg(i) == [sn |-> limit + i - 1, msg |-> queue[i].msg, frg |-> queue[i].frg]
             new == {seg(i) : i \in 1..k}
             r == SubSeq(queue, k + 1, Len(queue))
             l == Len(queue)
  <1>1. /\ limit \in Nat /\ una \in Nat /\ Start <= una /\ una <= limit /\ limit <= una + SndWnd
        /\ queue \in Seq(Payload) /\ Len(st) = limit - Start + l
        /\ \A i \in DOMAIN queue : queue[i] = st[limit - Start + i]
        /\ buf \subseteq Segment
        /\ \A s \in buf : una <= s.sn /\ s.sn < limit /\ Holds(st, s)
    BY DEF Sender
  <1>2. l \in Nat /\ DOMAIN queue = 1..l
    BY <1>1
  <1>3. /\ r \in Seq(Payload) /\ Len(r) = l - k /\ DOMAIN r = 1..(l - k)
        /\ \A i \in 1..(l - k) : r[i] = queue[k + i]
    BY <1>1, Rest
  <1>4. ASSUME NEW i \in 1..k
        PROVE  /\ seg(i) \in Segment /\ seg(i).sn = limit + i - 1
               /\ una <= seg(i).sn /\ seg(i).sn < limit + k /\ Holds(st, seg(i))
    <2>1. i \in DOMAIN queue /\ i \in Nat /\ 1 <= i /\ i <= k
      BY <1>2
    <2>2. queue[i] \in Payload /\ queue[i] = st[limit - Start + i]
      BY <1>1, <2>1
    <2>3. limit + i - 1 \in Nat /\ una <= limit + i - 1 /\ limit + i - 1 < limit + k
      BY <1>1, <2>1
    <2>4. seg(i) \in Segment
      BY <2>2, <2>3, PayloadFields
    <2>5. /\ (limit + i - 1) - Start + 1 = limit - Start + i
          /\ limit - Start + i \in 1..Len(st)
      BY <1>1, <1>2, <2>1, Constants
    <2>6. seg(i).sn - Start + 1 = limit - Start + i
      BY <2>5
    <2>7. Holds(st, seg(i))
      BY <2>2, <2>5, <2>6 DEF Holds
    <2>8. QED
      BY <2>3, <2>4, <2>7
  <1> HIDE DEF seg, r, l
  <1>5. new \subseteq Segment /\ \A s \in new : una <= s.sn /\ s.sn < limit + k /\ Holds(st, s)
    BY <1>4
  <1>6. \A s \in buf \union new : una <= s.sn /\ s.sn < limit + k /\ Holds(st, s)
    <2>1. ASSUME NEW s \in buf PROVE s.sn < limit + k
      BY <1>1, PayloadFields
    <2>2. QED
      BY <1>1, <1>5, <2>1
  <1>7. \A i \in DOMAIN r : r[i] = st[(limit + k) - Start + i]
    <2>1. SUFFICES ASSUME NEW i \in 1..(l - k) PROVE r[i] = st[(limit + k) - Start + i]
      BY <1>3
    <2>2. k + i \in 1..l /\ limit - Start + (k + i) = (limit + k) - Start + i
      BY <1>1, <1>2, Constants
    <2>3. QED
      BY <1>1, <1>2, <1>3, <2>2
  <1>8. Len(st) = (limit + k) - Start + Len(r)
    BY <1>1, <1>2, <1>3, Constants
  <1>9. Kept(buf \union new, limit + k, nxt, rbuf)
    <2>1. SUFFICES ASSUME NEW sn \in Start..((limit + k) - 1)
                   PROVE  (\E s \in buf \union new : s.sn = sn) \/ Has(sn, nxt, rbuf)
      BY DEF Kept
    <2>2. CASE sn < limit
      <3>1. sn \in Start..(limit - 1)
        BY <1>1, <2>2, Constants
      <3>2. QED
        BY <3>1 DEF Kept
    <2>3. CASE ~(sn < limit)
      <3> DEFINE i == sn - limit + 1
      <3>1. i \in 1..k /\ limit + i - 1 = sn
        BY <1>1, <2>3, Constants
      <3> HIDE DEF i
      <3>2. seg(i) \in new /\ seg(i).sn = sn
        BY <1>4, <3>1
      <3>3. QED
        BY <3>2
    <2>4. QED
      BY <2>2, <2>3
  <1> DEFINE all == buf \union new
             to == limit + k
  <1>10. Sender(st, r, all, to, una)
    <2>1. to \in Nat /\ una \in Nat /\ Start <= una /\ una <= to /\ to <= una + SndWnd
      BY <1>1
    <2>2. r \in Seq(Payload) /\ Len(st) = to - Start + Len(r)
      BY <1>3, <1>8
    <2>3. \A i \in DOMAIN r : r[i] = st[to - Start + i]
      BY <1>7
    <2>4. all \subseteq Segment
      BY <1>1, <1>5
    <2>5. \A s \in all : una <= s.sn /\ s.sn < to /\ Holds(st, s)
      BY <1>6
    <2> HIDE DEF to, all
    <2>6. QED
      BY <2>1, <2>2, <2>3, <2>4, <2>5 DEF Sender
  <1>11. QED
    BY <1>5, <1>9, <1>10 DEF seg, r, l, Started

-----------------------------------------------------------------------------
(***************************************************************************)
(* One more message: the stream grows at its end                           *)
(***************************************************************************)

\* The stream to is st with message m of c fragments at its end, the messages mt
\* are ms with it.
Grows(st, ms, m, c, to, mt) ==
  /\ st \in Seq(Payload) /\ ms \in Seq(Nat \ {0}) /\ c \in Nat \ {0} /\ m = Len(ms) + 1
  /\ to \in Seq(Payload) /\ DOMAIN to = 1..(Len(st) + c) /\ Len(to) = Len(st) + c
  /\ \A i \in 1..Len(st) : to[i] = st[i]
  /\ \A i \in 1..c : to[Len(st) + i] = [msg |-> m, frg |-> c - i]
  /\ mt \in Seq(Nat \ {0}) /\ Len(mt) = Len(ms) + 1 /\ DOMAIN mt = 1..(Len(ms) + 1)
  /\ mt[Len(ms) + 1] = c
  /\ \A i \in 1..Len(ms) : mt[i] = ms[i]

LEMMA PiecesType ==
  ASSUME NEW m \in Nat, NEW c \in Nat
  PROVE  /\ Pieces(m, c) \in Seq(Payload) /\ Len(Pieces(m, c)) = c /\ DOMAIN Pieces(m, c) = 1..c
         /\ \A i \in 1..c : Pieces(m, c)[i] = [msg |-> m, frg |-> c - i]
  <1> DEFINE p == [i \in 1..c |-> [msg |-> m, frg |-> c - i]]
  <1>1. \A i \in 1..c : c - i \in Nat
    OBVIOUS
  <1>2. \A i \in 1..c : p[i] \in Payload
    BY <1>1, PayloadFields
  <1>3. p \in Seq(Payload) /\ Len(p) = c /\ DOMAIN p = 1..c
    BY <1>2
  <1>4. QED
    BY <1>3 DEF Pieces

LEMMA GrowsIs ==
  ASSUME NEW st \in Seq(Payload), NEW ms \in Seq(Nat \ {0}), NEW c \in Nat \ {0}
  PROVE  Grows(st, ms, Len(ms) + 1, c, st \o Pieces(Len(ms) + 1, c), Append(ms, c))
  <1> DEFINE m == Len(ms) + 1
             p == Pieces(m, c)
             to == st \o p
             mt == Append(ms, c)
  <1>1. m \in Nat /\ c \in Nat /\ Len(st) \in Nat
    OBVIOUS
  <1>2. /\ p \in Seq(Payload) /\ Len(p) = c /\ DOMAIN p = 1..c
        /\ \A i \in 1..c : p[i] = [msg |-> m, frg |-> c - i]
    BY <1>1, PiecesType
  <1>3. /\ mt \in Seq(Nat \ {0}) /\ Len(mt) = Len(ms) + 1 /\ DOMAIN mt = 1..(Len(ms) + 1)
        /\ mt[Len(ms) + 1] = c
        /\ \A i \in 1..Len(ms) : mt[i] = ms[i]
    OBVIOUS
  <1> HIDE DEF p, mt
  <1>4. /\ to \in Seq(Payload) /\ Len(to) = Len(st) + c /\ DOMAIN to = 1..(Len(st) + c)
        /\ \A i \in 1..Len(st) : to[i] = st[i]
        /\ \A i \in (Len(st) + 1)..(Len(st) + c) : to[i] = p[i - Len(st)]
    <2>0. p \in Seq(Payload)
      BY <1>2
    <2>1. /\ to \in Seq(Payload) /\ Len(to) = Len(st) + Len(p) /\ DOMAIN to = 1..(Len(st) + Len(p))
          /\ \A i \in 1..Len(st) : to[i] = st[i]
          /\ \A i \in (Len(st) + 1)..(Len(st) + Len(p)) : to[i] = p[i - Len(st)]
      BY ONLY <2>0, st \in Seq(Payload), Joined
    <2> HIDE DEF to
    <2>2. QED
      BY <1>2, <2>1
  <1> HIDE DEF to
  <1>5. ASSUME NEW i \in 1..c PROVE to[Len(st) + i] = [msg |-> m, frg |-> c - i]
    <2>1. Len(st) + i \in (Len(st) + 1)..(Len(st) + c) /\ (Len(st) + i) - Len(st) = i
      BY <1>1
    <2>2. QED
      BY <1>2, <1>4, <2>1
  <1> HIDE DEF m
  <1>6. Grows(st, ms, m, c, to, mt)
    BY <1>3, <1>4, <1>5 DEF Grows, m
  <1>7. QED
    BY <1>6 DEF m, p, to, mt

LEMMA GrowBegins ==
  ASSUME NEW st, NEW ms, NEW m, NEW c, NEW to, NEW mt, NEW i \in Nat, NEW g \in Nat,
         Grows(st, ms, m, c, to, mt), Begins(st, ms, i, g)
  PROVE  Begins(to, mt, i, g)
  <1>1. Len(st) \in Nat /\ Len(ms) \in Nat /\ DOMAIN st = 1..Len(st) /\ DOMAIN ms = 1..Len(ms) /\ c \in Nat \ {0}
    BY DEF Grows
  <1>2. CASE i = Len(st) /\ g = Len(ms)
    <2>1. i + 1 \in DOMAIN to /\ g + 1 \in DOMAIN mt /\ 1 \in 1..c
      BY <1>1, <1>2 DEF Grows
    <2>2. to[i + 1] = [msg |-> g + 1, frg |-> mt[g + 1] - 1]
      BY <1>1, <1>2, <2>1 DEF Grows
    <2>3. QED
      BY <2>1, <2>2 DEF Begins
  <1>3. CASE /\ i + 1 \in DOMAIN st /\ g + 1 \in DOMAIN ms
             /\ st[i + 1] = [msg |-> g + 1, frg |-> ms[g + 1] - 1]
    <2>1. i + 1 \in DOMAIN to /\ g + 1 \in DOMAIN mt
      BY <1>1, <1>3 DEF Grows
    <2>2. to[i + 1] = st[i + 1] /\ mt[g + 1] = ms[g + 1]
      BY <1>1, <1>3 DEF Grows
    <2>3. QED
      BY <1>3, <2>1, <2>2 DEF Begins
  <1>4. QED
    BY <1>2, <1>3 DEF Begins

LEMMA GrowHolds ==
  ASSUME NEW st, NEW ms, NEW m, NEW c, NEW to, NEW mt, NEW s, 
         Grows(st, ms, m, c, to, mt), Holds(st, s)
  PROVE  Holds(to, s)
  <1> DEFINE i == s.sn - Start + 1
  <1>1. Len(st) \in Nat /\ DOMAIN st = 1..Len(st) /\ c \in Nat
    BY DEF Grows
  <1>2. i \in DOMAIN st /\ s.msg = st[i].msg /\ s.frg = st[i].frg
    BY DEF Holds
  <1> HIDE DEF i
  <1>3. i \in DOMAIN to /\ to[i] = st[i]
    BY <1>1, <1>2 DEF Grows
  <1>4. QED
    BY <1>2, <1>3 DEF Holds, i

LEMMA GrowChain ==
  ASSUME NEW st, NEW ms, NEW m, NEW c, NEW to, NEW mt,
         Grows(st, ms, m, c, to, mt), Chain(st, ms)
  PROVE  Chain(to, mt)
  <1> DEFINE l == Len(st)
  <1>1. /\ l \in Nat /\ DOMAIN st = 1..l /\ c \in Nat \ {0} /\ Len(ms) \in Nat /\ m = Len(ms) + 1
        /\ DOMAIN to = 1..(l + c) /\ Len(to) = l + c /\ Len(mt) = m
    BY DEF Grows
  <1>2. /\ \A i \in 1..l : to[i] = st[i] /\ st[i] \in Payload
        /\ \A i \in 1..c : to[l + i] = [msg |-> m, frg |-> c - i]
    <2>1. \A i \in 1..l : st[i] \in Payload
      BY DEF Grows
    <2>2. \A i \in 1..l : to[i] = st[i]
      BY DEF Grows
    <2>3. \A i \in 1..c : to[l + i] = [msg |-> m, frg |-> c - i]
      BY Zenon DEF Grows
    <2>4. QED
      BY <2>1, <2>2, <2>3
  <1>3. to \in Seq(Payload) /\ mt \in Seq(Nat \ {0})
    BY DEF Grows
  <1> HIDE DEF l
  <1>4. ASSUME NEW i \in DOMAIN to
        PROVE  /\ i + to[i].frg <= Len(to)
               /\ \A k \in 0..to[i].frg : to[i + k] = [msg |-> to[i].msg, frg |-> to[i].frg - k]
               /\ to[i].frg = 0 => Begins(to, mt, i, to[i].msg)
    <2>1. CASE i \in 1..l
      <3> DEFINE f == st[i].frg
                 g == st[i].msg
      <3>1. to[i] = st[i] /\ f \in Nat /\ g \in Nat
        BY <1>2, <2>1, PayloadFields
      <3>2. /\ i + f <= l
            /\ \A k \in 0..f : st[i + k] = [msg |-> g, frg |-> f - k]
            /\ f = 0 => Begins(st, ms, i, g)
        BY <1>1, <2>1 DEF Chain, l
      <3> HIDE DEF f, g
      <3>3. i + f <= Len(to)
        BY <1>1, <2>1, <3>1, <3>2
      <3>4. ASSUME NEW k \in 0..f PROVE to[i + k] = [msg |-> g, frg |-> f - k]
        <4>1. i + k \in 1..l
          BY <1>1, <2>1, <3>1, <3>2
        <4>2. QED
          BY <1>2, <3>2, <4>1
      <3>5. f = 0 => Begins(to, mt, i, g)
        BY <2>1, <3>1, <3>2, GrowBegins
      <3>6. QED
        BY <3>1, <3>3, <3>4, <3>5 DEF f, g
    <2>2. CASE i \in (l + 1)..(l + c)
      <3> DEFINE j == i - l
      <3>1. j \in 1..c /\ i = l + j /\ c - j \in Nat
        BY <1>1, <2>2
      <3>2. to[i] = [msg |-> m, frg |-> c - j]
        BY <1>2, <3>1
      <3> HIDE DEF j
      <3>3. to[i].msg = m /\ to[i].frg = c - j
        BY <3>2
      <3>4. i + (c - j) = Len(to)
        BY <1>1, <3>1
      <3>5. ASSUME NEW k \in 0..(c - j) PROVE to[i + k] = [msg |-> m, frg |-> (c - j) - k]
        <4>1. j + k \in 1..c /\ l + (j + k) = i + k /\ c - (j + k) = (c - j) - k
          BY <1>1, <3>1
        <4>2. to[l + (j + k)] = [msg |-> m, frg |-> c - (j + k)]
          BY <1>2, <4>1
        <4>3. QED
          BY <4>1, <4>2
      <3>6. c - j = 0 => Begins(to, mt, i, m)
        BY <1>1, <3>1, <3>4 DEF Begins
      <3>7. Len(to) <= Len(to)
        BY <1>1
      <3>8. QED
        BY <3>3, <3>4, <3>5, <3>6, <3>7
    <2>3. QED
      BY <1>1, <2>1, <2>2
  <1>5. QED
    BY <1>3, <1>4 DEF Chain

\* ikcp_send
LEMMA GrowSender ==
  ASSUME NEW st, NEW ms, NEW m, NEW c, NEW to, NEW mt, NEW queue, NEW buf, NEW nxt, NEW una,
         Grows(st, ms, m, c, to, mt), Sender(st, queue, buf, nxt, una)
  PROVE  Sender(to, queue \o Pieces(m, c), buf, nxt, una)
  <1> DEFINE l == Len(st)
             h == Len(queue)
             p == Pieces(m, c)
             more == queue \o p
  <1>1. /\ l \in Nat /\ c \in Nat /\ m \in Nat
        /\ Len(to) = l + c
        /\ \A i \in 1..l : to[i] = st[i]
        /\ \A i \in 1..c : to[l + i] = [msg |-> m, frg |-> c - i]
    <2>1. l \in Nat /\ c \in Nat /\ m \in Nat /\ Len(to) = l + c
      BY DEF Grows
    <2>2. \A i \in 1..l : to[i] = st[i]
      BY DEF Grows
    <2>3. \A i \in 1..c : to[l + i] = [msg |-> m, frg |-> c - i]
      BY Zenon DEF Grows
    <2>4. QED
      BY <2>1, <2>2, <2>3
  <1>2. /\ nxt \in Nat /\ una \in Nat /\ Start <= una /\ una <= nxt /\ nxt <= una + SndWnd
        /\ queue \in Seq(Payload) /\ l = nxt - Start + h
        /\ \A i \in DOMAIN queue : queue[i] = st[nxt - Start + i]
        /\ buf \subseteq Segment
        /\ \A s \in buf : una <= s.sn /\ s.sn < nxt /\ Holds(st, s)
    BY DEF Sender
  <1>3. h \in Nat /\ DOMAIN queue = 1..h
    BY <1>2
  <1>4. /\ p \in Seq(Payload) /\ Len(p) = c
        /\ \A i \in 1..c : p[i] = [msg |-> m, frg |-> c - i]
    BY <1>1, PiecesType
  <1> HIDE DEF p
  <1>5. /\ more \in Seq(Payload) /\ Len(more) = h + c /\ DOMAIN more = 1..(h + c)
        /\ \A i \in 1..h : more[i] = queue[i]
        /\ \A i \in (h + 1)..(h + c) : more[i] = p[i - h]
    <2>0. p \in Seq(Payload) /\ queue \in Seq(Payload)
      BY <1>2, <1>4
    <2>1. /\ more \in Seq(Payload) /\ Len(more) = h + Len(p) /\ DOMAIN more = 1..(h + Len(p))
          /\ \A i \in 1..h : more[i] = queue[i]
          /\ \A i \in (h + 1)..(h + Len(p)) : more[i] = p[i - h]
      BY ONLY <2>0, Joined
    <2> HIDE DEF more
    <2>2. QED
      BY <1>4, <2>1
  <1> HIDE DEF more, l, h
  <1>6. Len(to) = nxt - Start + Len(more)
    BY <1>1, <1>2, <1>3, <1>5, Constants
  <1>7. \A i \in DOMAIN more : more[i] = to[nxt - Start + i]
    <2>1. SUFFICES ASSUME NEW i \in 1..(h + c) PROVE more[i] = to[nxt - Start + i]
      BY <1>5
    <2>2. CASE i \in 1..h
      <3>1. nxt - Start \in Nat /\ l = nxt - Start + h
        BY <1>2, Constants
      <3>2. nxt - Start + i \in 1..l
        BY <1>3, <2>2, <3>1
      <3>3. QED
        BY <1>1, <1>2, <1>3, <1>5, <2>2, <3>2
    <2>3. CASE i \in (h + 1)..(h + c)
      <3>1. i - h \in 1..c /\ l + (i - h) = nxt - Start + i
        BY <1>1, <1>2, <1>3, <2>3, Constants
      <3>2. QED
        BY <1>1, <1>4, <1>5, <2>3, <3>1
    <2>4. QED
      BY <1>1, <1>3, <2>2, <2>3
  <1>8. \A s \in buf : una <= s.sn /\ s.sn < nxt /\ Holds(to, s)
    BY <1>2, GrowHolds
  <1>9. Sender(to, more, buf, nxt, una)
    BY <1>2, <1>5, <1>6, <1>7, <1>8 DEF Sender
  <1>10. QED
    BY <1>9 DEF more, p

LEMMA GrowReceiver ==
  ASSUME NEW st, NEW ms, NEW m, NEW c, NEW to, NEW mt,
         NEW limit \in Nat, NEW nxt, NEW queue, NEW buf, NEW msgs,
         Grows(st, ms, m, c, to, mt), Receiver(st, ms, limit, nxt, queue, buf, msgs),
         limit <= Start + Len(st)
  PROVE  Receiver(to, mt, limit, nxt, queue, buf, msgs)
  <1> DEFINE l == Len(queue)
  <1>1. /\ Len(st) \in Nat /\ Len(ms) \in Nat
        /\ \A i \in 1..Len(st) : to[i] = st[i]
        /\ Len(mt) = Len(ms) + 1 /\ \A i \in 1..Len(ms) : mt[i] = ms[i]
    BY DEF Grows
  <1>2. /\ nxt \in Nat /\ nxt <= limit /\ buf \subseteq Segment
        /\ queue \in Seq(Payload) /\ l <= RcvWnd /\ Start + l <= nxt
        /\ \A i \in DOMAIN queue : queue[i] = st[nxt - Start - l + i]
        /\ \A s \in buf : nxt <= s.sn /\ s.sn < nxt + RcvWnd /\ s.sn < limit /\ Holds(st, s)
        /\ msgs \in Seq(Seq(Payload)) /\ Len(msgs) <= Len(ms)
        /\ \A g \in DOMAIN msgs : msgs[g] = Pieces(g, ms[g])
        /\ Begins(st, ms, nxt - Start - l, Len(msgs))
    BY DEF Receiver
  <1>3. l \in Nat /\ DOMAIN queue = 1..l /\ Len(msgs) \in Nat /\ DOMAIN msgs = 1..Len(msgs)
    BY <1>2
  <1> HIDE DEF l
  <1>4. \A i \in DOMAIN queue : queue[i] = to[nxt - Start - l + i]
    <2>1. SUFFICES ASSUME NEW i \in 1..l PROVE queue[i] = to[nxt - Start - l + i]
      BY <1>3
    <2>2. nxt - Start - l + i \in 1..Len(st)
      BY <1>1, <1>2, <1>3, Constants
    <2>3. QED
      BY <1>1, <1>2, <1>3, <2>2
  <1>5. \A s \in buf : nxt <= s.sn /\ s.sn < nxt + RcvWnd /\ s.sn < limit /\ Holds(to, s)
    BY <1>2, GrowHolds
  <1>6. Len(msgs) <= Len(mt)
    BY <1>1, <1>2, <1>3
  <1>7. \A g \in DOMAIN msgs : msgs[g] = Pieces(g, mt[g])
    <2>1. \A g \in DOMAIN msgs : g \in 1..Len(ms)
      BY <1>1, <1>2, <1>3
    <2>2. QED
      BY <1>1, <1>2, <2>1
  <1>8. Begins(to, mt, nxt - Start - l, Len(msgs))
    <2> DEFINE i == nxt - Start - l
    <2>1. i \in Nat /\ Begins(st, ms, i, Len(msgs))
      BY <1>2, <1>3, Constants
    <2> HIDE DEF i
    <2>2. Begins(to, mt, i, Len(msgs))
      BY <1>3, <2>1, GrowBegins
    <2>3. QED
      BY <2>2 DEF i
  <1>9. QED
    BY <1>2, <1>4, <1>5, <1>6, <1>7, <1>8 DEF Receiver, l

-----------------------------------------------------------------------------
(***************************************************************************)
(* ikcp_recv and ikcp_parse_data                                           *)
(***************************************************************************)

\* The message that ikcp_recv takes from the queue is the next one, and whole.
LEMMA TakeReceiver ==
  ASSUME NEW st, NEW ms, NEW limit \in Nat, NEW nxt, NEW queue, NEW buf, NEW msgs,
         Chain(st, ms), Receiver(st, ms, limit, nxt, queue, buf, msgs),
         limit <= Start + Len(st), Complete(queue)
  PROVE  LET k == Size(queue)
         IN  Receiver(st, ms, limit, nxt, SubSeq(queue, k + 1, Len(queue)), buf,
                      Append(msgs, SubSeq(queue, 1, k)))
  <1> DEFINE l == Len(queue)
             b == nxt - Start - l
             g == Len(msgs)
             m == g + 1
             c == ms[m]
  <1>1. /\ nxt \in Nat /\ nxt <= limit /\ buf \subseteq Segment
        /\ queue \in Seq(Payload) /\ l <= RcvWnd /\ Start + l <= nxt
        /\ \A i \in DOMAIN queue : queue[i] = st[b + i]
        /\ \A s \in buf : nxt <= s.sn /\ s.sn < nxt + RcvWnd /\ s.sn < limit /\ Holds(st, s)
        /\ msgs \in Seq(Seq(Payload)) /\ g <= Len(ms)
        /\ \A i \in DOMAIN msgs : msgs[i] = Pieces(i, ms[i])
        /\ Begins(st, ms, b, g)
    BY DEF Receiver
  <1>2. /\ st \in Seq(Payload) /\ ms \in Seq(Nat \ {0})
        /\ \A i \in DOMAIN st :
             /\ \A k \in 0..st[i].frg : st[i + k] = [msg |-> st[i].msg, frg |-> st[i].frg - k]
             /\ st[i].frg = 0 => Begins(st, ms, i, st[i].msg)
    BY DEF Chain
  <1>3. l \in Nat /\ DOMAIN queue = 1..l /\ g \in Nat /\ Len(st) \in Nat /\ DOMAIN st = 1..Len(st)
    BY <1>1, <1>2
  <1>4. queue # <<>> /\ l >= queue[1].frg + 1
    BY DEF Complete
  <1>5. l >= 1
    BY <1>1, <1>4
  <1>6. b \in Nat /\ b + l <= Len(st) /\ b + 1 \in DOMAIN st
    BY <1>1, <1>3, <1>5, Constants
  <1>6a. b # Len(st)
    BY <1>1, <1>3, <1>5, Constants
  <1> HIDE DEF l, b, g
  <1>7. m \in DOMAIN ms /\ st[b + 1] = [msg |-> m, frg |-> c - 1]
    <2>1. Begins(st, ms, b, g)
      BY <1>1
    <2>2. QED
      BY <1>6a, <2>1 DEF Begins
  <1>8. c \in Nat /\ c >= 1 /\ m \in Nat
    BY <1>2, <1>3, <1>7
  <1> HIDE DEF c, m
  <1>9. st[b + 1].msg = m /\ st[b + 1].frg = c - 1
    BY <1>7
  <1>10. c <= l
    <2>0. 1 \in DOMAIN queue
      BY <1>3, <1>5
    <2>1. queue[1] = st[b + 1]
      BY <1>1, <2>0
    <2>2. l >= (c - 1) + 1
      BY <1>4, <1>9, <2>1
    <2>3. QED
      BY <1>3, <1>8, <2>2
  <1>11. ASSUME NEW i \in 1..c
         PROVE  /\ queue[i] = [msg |-> m, frg |-> c - i] /\ queue[i].frg = c - i
                /\ st[b + i] = [msg |-> m, frg |-> c - i]
    <2>1. i - 1 \in 0..(c - 1) /\ (b + 1) + (i - 1) = b + i /\ (c - 1) - (i - 1) = c - i /\ i \in 1..l
      BY <1>3, <1>6, <1>8, <1>10
    <2>2. \A k \in 0..(c - 1) : st[(b + 1) + k] = [msg |-> m, frg |-> (c - 1) - k]
      BY <1>2, <1>6, <1>9
    <2>3. st[b + i] = [msg |-> m, frg |-> c - i]
      BY <2>1, <2>2
    <2>4. QED
      BY <1>1, <1>3, <2>1, <2>3
  <1>12. Size(queue) = c
    <2> DEFINE P(k) == queue[k].frg = 0 /\ \A i \in 1..(k - 1) : queue[i].frg # 0
    <2>1. c \in DOMAIN queue /\ P(c)
      <3>1. c \in 1..c /\ c \in 1..l /\ c - c = 0
        BY <1>3, <1>8, <1>10
      <3>2. \A i \in 1..(c - 1) : i \in 1..c /\ c - i # 0
        BY <1>8
      <3>3. QED
        BY <1>3, <1>11, <3>1, <3>2
    <2>2. ASSUME NEW k \in DOMAIN queue, P(k) PROVE k = c
      <3>1. k \in Nat /\ k >= 1
        BY <1>3
      <3>2. CASE k < c
        <4>1. k \in 1..c /\ c - k # 0
          BY <1>8, <3>1, <3>2
        <4>2. QED
          BY <1>11, <2>2, <4>1
      <3>3. CASE k > c
        <4>1. c \in 1..(k - 1)
          BY <1>8, <3>1, <3>3
        <4>2. QED
          BY <2>1, <2>2, <4>1
      <3>4. QED
        BY <1>8, <3>1, <3>2, <3>3
    <2>3. Size(queue) = CHOOSE k \in DOMAIN queue : P(k)
      BY DEF Size
    <2> HIDE DEF P
    <2>4. QED
      BY <2>1, <2>2, <2>3
  <1> DEFINE r == SubSeq(queue, c + 1, Len(queue))
             h == SubSeq(queue, 1, c)
             mt == Append(msgs, h)
  <1>13. /\ r \in Seq(Payload) /\ Len(r) = l - c /\ DOMAIN r = 1..(l - c)
         /\ \A i \in 1..(l - c) : r[i] = queue[c + i]
    BY <1>1, <1>8, <1>10, Rest DEF l
  <1>14. h = Pieces(m, c) /\ h \in Seq(Payload)
    <2> DEFINE p == Pieces(m, c)
    <2>1. h \in Seq(Payload) /\ Len(h) = c /\ \A i \in 1..c : h[i] = queue[i]
      BY <1>1, <1>8, <1>10 DEF l
    <2>2. p \in Seq(Payload) /\ Len(p) = c /\ \A i \in 1..c : p[i] = [msg |-> m, frg |-> c - i]
      BY <1>8, PiecesType
    <2> HIDE DEF h, p
    <2>3. \A i \in 1..c : h[i] = p[i]
      BY <1>11, <2>1, <2>2
    <2>4. h = p
      BY <2>1, <2>2, <2>3
    <2>5. QED
      BY <2>1, <2>4 DEF p
  <1> HIDE DEF r, h
  <1>15. /\ mt \in Seq(Seq(Payload)) /\ Len(mt) = m /\ m <= Len(ms)
         /\ \A i \in DOMAIN mt : mt[i] = Pieces(i, ms[i])
    <2>1. /\ mt \in Seq(Seq(Payload)) /\ Len(mt) = g + 1 /\ DOMAIN mt = 1..(g + 1)
          /\ mt[g + 1] = h /\ \A i \in 1..g : mt[i] = msgs[i]
      BY <1>1, <1>3, <1>14 DEF g
    <2>2. DOMAIN msgs = 1..g
      BY <1>1 DEF g
    <2>3. m <= Len(ms)
      BY <1>2, <1>7
    <2> HIDE DEF mt
    <2>4. ASSUME NEW i \in 1..(g + 1) PROVE mt[i] = Pieces(i, ms[i])
      <3>1. CASE i = g + 1
        BY <1>14, <2>1, <3>1 DEF m, c
      <3>2. CASE i \in 1..g
        BY <1>1, <2>1, <2>2, <3>2
      <3>3. QED
        BY <1>3, <3>1, <3>2
    <2>5. QED
      BY <2>1, <2>3, <2>4 DEF m
  <1> HIDE DEF mt
  <1>16. b + c \in DOMAIN st /\ c \in 1..c
    BY <1>3, <1>6, <1>8, <1>10
  <1>17. Begins(st, ms, b + c, m)
    <2>0. st[b + c] = [msg |-> m, frg |-> c - c]
      BY <1>11, <1>16
    <2>1. st[b + c].frg = c - c /\ st[b + c].msg = m
      BY <2>0
    <2>2. QED
      BY <1>2, <1>8, <1>16, <2>1
  <1>18. nxt - Start - Len(r) = b + c
    BY <1>1, <1>3, <1>8, <1>10, <1>13, Constants DEF b
  <1>19. \A i \in DOMAIN r : r[i] = st[nxt - Start - Len(r) + i]
    <2>1. SUFFICES ASSUME NEW i \in 1..(l - c) PROVE r[i] = st[(b + c) + i]
      BY <1>13, <1>18
    <2>2. c + i \in 1..l /\ b + (c + i) = (b + c) + i
      BY <1>3, <1>6, <1>8, <1>10
    <2>3. QED
      BY <1>1, <1>3, <1>13, <2>2
  <1>20. Len(r) <= RcvWnd /\ Start + Len(r) <= nxt
    BY <1>1, <1>3, <1>8, <1>10, <1>13, Constants
  <1>21. Begins(st, ms, nxt - Start - Len(r), Len(mt))
    BY <1>15, <1>17, <1>18
  <1>22. Receiver(st, ms, limit, nxt, r, buf, mt)
    BY <1>1, <1>13, <1>15, <1>19, <1>20, <1>21 DEF Receiver
  <1>23. QED
    BY <1>12, <1>22 DEF r, h, mt

\* ikcp_parse_data puts a segment in rcv_buf.
LEMMA AddReceiver ==
  ASSUME NEW st, NEW ms, NEW limit \in Nat, NEW nxt, NEW queue, NEW buf, NEW msgs, NEW s,
         Receiver(st, ms, limit, nxt, queue, buf, msgs), s \in Segment, Holds(st, s),
         nxt <= s.sn, s.sn < nxt + RcvWnd, s.sn < limit
  PROVE  Receiver(st, ms, limit, nxt, queue, buf \union {s}, msgs)
  <1> DEFINE all == buf \union {s}
  <1>1. all \subseteq Segment
        /\ \A t \in all : nxt <= t.sn /\ t.sn < nxt + RcvWnd /\ t.sn < limit /\ Holds(st, t)
    BY DEF Receiver
  <1> HIDE DEF all
  <1>2. Receiver(st, ms, limit, nxt, queue, all, msgs)
    BY <1>1 DEF Receiver
  <1>3. QED
    BY <1>2 DEF all

\* What the receiver has does not depend on segments that are started later.
LEMMA LaterReceiver ==
  ASSUME NEW st, NEW ms, NEW limit \in Nat, NEW k \in Nat, NEW nxt, NEW queue, NEW buf, NEW msgs,
         Receiver(st, ms, limit, nxt, queue, buf, msgs)
  PROVE  Receiver(st, ms, limit + k, nxt, queue, buf, msgs)
  <1> DEFINE to == limit + k
  <1>1. nxt \in Nat /\ nxt <= to
    BY DEF Receiver
  <1>2. ASSUME NEW s \in buf PROVE s.sn < to
    <2>1. s \in Segment /\ s.sn \in Nat /\ s.sn < limit
      BY PayloadFields DEF Receiver
    <2>2. QED
      BY <2>1
  <1> HIDE DEF to
  <1>3. Receiver(st, ms, to, nxt, queue, buf, msgs)
    BY <1>1, <1>2 DEF Receiver
  <1>4. QED
    BY <1>3 DEF to

-----------------------------------------------------------------------------
(***************************************************************************)
(* The steps                                                               *)
(***************************************************************************)

\* A stream that may have grown, segments started, and segments received
Later(st, limit, nxt, buf, to, limit2, nxt2, buf2) ==
  /\ limit \in Nat /\ limit2 \in Nat /\ nxt \in Nat /\ nxt2 \in Nat
  /\ limit <= limit2 /\ nxt <= nxt2
  /\ \A sn \in Nat : Has(sn, nxt, buf) => Has(sn, nxt2, buf2)
  /\ \A x \in PacketSet : Holds(st, x) => Holds(to, x)

LEMMA LaterReceived ==
  ASSUME NEW st, NEW limit, NEW nxt, NEW buf, NEW to, NEW limit2, NEW nxt2, NEW buf2,
         Later(st, limit, nxt, buf, to, limit2, nxt2, buf2), NEW sn,
         Received(sn, limit, nxt, buf)
  PROVE  Received(sn, limit2, nxt2, buf2)
  <1>1. sn \in Nat /\ Start <= sn /\ sn < limit /\ Has(sn, nxt, buf)
    BY DEF Received
  <1>2. sn < limit2
    BY <1>1 DEF Later
  <1>3. Has(sn, nxt2, buf2)
    BY <1>1 DEF Later
  <1>4. QED
    BY <1>1, <1>2, <1>3 DEF Received

\* What was true of a packet remains true.
LEMMA LaterTruthful ==
  ASSUME NEW st, NEW limit, NEW nxt, NEW buf, NEW to, NEW limit2, NEW nxt2, NEW buf2,
         Later(st, limit, nxt, buf, to, limit2, nxt2, buf2),
         NEW x \in PacketSet, NEW n, NEW p, Truthful(x, n, p, st, limit, nxt, buf)
  PROVE  Truthful(x, n, p, to, limit2, nxt2, buf2)
  <1>1. x.sn \in Nat /\ x.una \in Nat
    BY DEF PacketSet
  <1>2. limit \in Nat /\ limit2 \in Nat /\ nxt \in Nat /\ nxt2 \in Nat /\ limit <= limit2 /\ nxt <= nxt2
    BY DEF Later
  <1>3. ASSUME x.to = p, x.cmd = "push" PROVE x.sn < limit2 /\ Holds(to, x)
    <2>1. x.sn < limit /\ Holds(st, x)
      BY <1>3 DEF Truthful
    <2>2. x.sn < limit2
      BY <1>1, <1>2, <2>1
    <2>3. QED
      BY <2>1, <2>2 DEF Later
  <1>4. ASSUME x.to = n PROVE Start <= x.una /\ x.una <= nxt2
    <2>1. Start <= x.una /\ x.una <= nxt
      BY <1>4 DEF Truthful
    <2>2. QED
      BY <1>1, <1>2, <2>1
  <1>5. ASSUME x.to = n, x.cmd = "ack" PROVE Received(x.sn, limit2, nxt2, buf2)
    <2>1. Received(x.sn, limit, nxt, buf)
      BY <1>5 DEF Truthful
    <2>2. QED
      BY <2>1, LaterReceived
  <1>6. QED
    BY <1>3, <1>4, <1>5 DEF Truthful

\* Each end is one of the two.
LEMMA BothDirections ==
  ASSUME NEW n \in Nodes, NEW st \in Seq(Payload), NEW su \in Seq(Payload),
         IkcpTypes', Direction(n, Peer(n), st)', Direction(Peer(n), n, su)'
  PROVE  IkcpInv'
  <1>1. \A m \in Nodes : \E sv \in Seq(Payload) : Direction(m, Peer(m), sv)'
    BY Peers
  <1>2. QED
    BY <1>1 DEF IkcpInv

LEMMA GetDirections ==
  ASSUME IkcpInv, NEW n \in Nodes
  PROVE  \E st, su \in Seq(Payload) : Direction(n, Peer(n), st) /\ Direction(Peer(n), n, su)
  BY Peers DEF IkcpInv

\* The numbers of one direction
LEMMA DirectionNumbers ==
  ASSUME NEW n, NEW p, NEW st, Direction(n, p, st)
  PROVE  /\ snd_nxt[n] \in Nat /\ rcv_nxt[p] \in Nat /\ snd_una[n] \in Nat
         /\ snd_nxt[n] <= Start + Len(st) /\ st \in Seq(Payload) /\ sent[n] \in Seq(Nat \ {0})
         /\ rcv_nxt[p] <= snd_nxt[n] /\ Start <= rcv_nxt[p]
  <1>1. /\ Sender(st, snd_queue[n], snd_buf[n], snd_nxt[n], snd_una[n])
        /\ Receiver(st, sent[n], snd_nxt[n], rcv_nxt[p], rcv_queue[p], rcv_buf[p], got[p])
        /\ Kept(snd_buf[n], snd_nxt[n], rcv_nxt[p], rcv_buf[p])
        /\ Chain(st, sent[n])
    BY DEF Direction
  <1>2. /\ snd_nxt[n] \in Nat /\ rcv_nxt[p] \in Nat /\ snd_una[n] \in Nat
        /\ rcv_nxt[p] <= snd_nxt[n] /\ Start <= rcv_nxt[p]
    BY <1>1, WindowsMeet
  <1>3. Len(snd_queue[n]) \in Nat /\ Len(st) = snd_nxt[n] - Start + Len(snd_queue[n])
    BY <1>1 DEF Sender
  <1>4. st \in Seq(Payload) /\ sent[n] \in Seq(Nat \ {0})
    BY <1>1 DEF Chain
  <1>5. snd_nxt[n] <= Start + Len(st)
    BY <1>2, <1>3, Constants
  <1>6. QED
    BY <1>2, <1>4, <1>5

\* A message is sent.
LEMMA IkcpSend ==
  ASSUME IkcpInv, NEW n \in Nodes, NEW c \in Nat \ {0}, Send(n, c)
  PROVE  IkcpInv'
  <1>1. PICK p \in Nodes : p = Peer(n) /\ p # n
    BY Peers
  <1>2. PICK st, su \in Seq(Payload) : Direction(n, p, st) /\ Direction(p, n, su)
    BY <1>1, GetDirections
  <1>3. /\ sent[n] \in Seq(Nat \ {0}) /\ snd_nxt[n] \in Nat /\ rcv_nxt[p] \in Nat
        /\ snd_nxt[n] <= Start + Len(st)
    BY <1>2, DirectionNumbers
  <1>4. PICK m, mt, to :
          m = Len(sent[n]) + 1 /\ to = st \o Pieces(m, c) /\ mt = Append(sent[n], c)
    OBVIOUS
  <1>5. Grows(st, sent[n], m, c, to, mt)
    BY <1>2, <1>3, <1>4, GrowsIs
  <1>6. IkcpTypes
    BY DEF IkcpInv
  <1>7. PICK more : more = snd_queue[n] \o Pieces(m, c)
    OBVIOUS
  <1>8. /\ sent' = [sent EXCEPT ![n] = mt]
        /\ snd_queue' = [snd_queue EXCEPT ![n] = more]
        /\ UNCHANGED <<snd_buf, snd_nxt, snd_una, rmt_wnd, probing, rcv_buf, rcv_queue, rcv_nxt>>
        /\ UNCHANGED <<acklist, tell, due, net, delayed, faults, got>>
    BY <1>4, <1>7 DEF Send, rcvVars, netVars
  <1>9. more \in Seq(Payload) /\ mt \in Seq(Nat) /\ to \in Seq(Payload)
    <2>1. m \in Nat /\ c \in Nat
      BY <1>3, <1>4
    <2>2. Pieces(m, c) \in Seq(Payload)
      BY <2>1, PiecesType
    <2>3. snd_queue[n] \in Seq(Payload)
      BY <1>6 DEF IkcpTypes
    <2>4. more \in Seq(Payload) /\ to \in Seq(Payload)
      BY <1>2, <1>4, <1>7, <2>2, <2>3
    <2>5. QED
      BY <1>3, <1>4, <2>4
  <1>10. Chain(to, mt)
    BY <1>2, <1>5, GrowChain DEF Direction
  <1>11. Sender(to, more, snd_buf[n], snd_nxt[n], snd_una[n])
    BY <1>2, <1>5, <1>7, GrowSender DEF Direction
  <1>12. Receiver(to, mt, snd_nxt[n], rcv_nxt[p], rcv_queue[p], rcv_buf[p], got[p])
    BY <1>2, <1>3, <1>5, GrowReceiver DEF Direction
  <1>13. Later(st, snd_nxt[n], rcv_nxt[p], rcv_buf[p], to, snd_nxt[n], rcv_nxt[p], rcv_buf[p])
    <2>1. \A x \in PacketSet : Holds(st, x) => Holds(to, x)
      BY <1>5, GrowHolds
    <2>2. QED
      BY <1>3, <2>1 DEF Later
  <1>14. \A x \in net \union delayed : Truthful(x, n, p, to, snd_nxt[n], rcv_nxt[p], rcv_buf[p])
    <2>1. net \union delayed \subseteq PacketSet
      BY <1>6 DEF IkcpTypes
    <2>2. \A x \in net \union delayed : Truthful(x, n, p, st, snd_nxt[n], rcv_nxt[p], rcv_buf[p])
      BY <1>2 DEF Direction
    <2>3. QED
      BY <1>13, <2>1, <2>2, LaterTruthful
  <1>15. IkcpTypes'
    <2>1. sent' \in [Nodes -> Seq(Nat)] /\ snd_queue' \in [Nodes -> Seq(Payload)]
      BY <1>6, <1>8, <1>9 DEF IkcpTypes
    <2>2. QED
      BY <1>6, <1>8, <2>1 DEF IkcpTypes
  <1>16. sent'[n] = mt /\ snd_queue'[n] = more /\ sent'[p] = sent[p] /\ snd_queue'[p] = snd_queue[p]
    BY <1>1, <1>6, <1>8 DEF IkcpTypes
  <1>17. Direction(n, p, to)'
    BY <1>2, <1>8, <1>10, <1>11, <1>12, <1>14, <1>16 DEF Direction
  <1>18. Direction(p, n, su)'
    BY <1>2, <1>8, <1>16 DEF Direction
  <1>19. QED
    BY <1>1, <1>2, <1>9, <1>15, <1>17, <1>18, BothDirections

LEMMA LaterKept ==
  ASSUME NEW st, NEW limit, NEW nxt, NEW buf, NEW to, NEW nxt2, NEW buf2, NEW sbuf,
         Later(st, limit, nxt, buf, to, limit, nxt2, buf2), Kept(sbuf, limit, nxt, buf)
  PROVE  Kept(sbuf, limit, nxt2, buf2)
  <1>1. ASSUME NEW sn \in Start..(limit - 1) PROVE sn \in Nat
    BY Constants DEF Later
  <1>2. QED
    BY <1>1 DEF Kept, Later

\* The receiver n after the loop at the end of ikcp_parse_data and of ikcp_recv
LEMMA Moves ==
  ASSUME IkcpTypes, NEW n \in Nodes, NEW buf, NEW queue, NEW st \in Seq(Payload), NEW ms,
         NEW limit \in Nat, NEW msgs,
         Receiver(st, ms, limit, rcv_nxt[n], queue, buf, msgs), Move(n, buf, queue),
         rcv_buf[n] \subseteq buf
  PROVE  /\ Receiver(st, ms, limit, rcv_nxt'[n], rcv_queue'[n], rcv_buf'[n], msgs)
         /\ Later(st, limit, rcv_nxt[n], rcv_buf[n], st, limit, rcv_nxt'[n], rcv_buf'[n])
         /\ \A sn \in Nat : Has(sn, rcv_nxt[n], buf) => Has(sn, rcv_nxt'[n], rcv_buf'[n])
         /\ rcv_buf' \in [Nodes -> SUBSET Segment] /\ rcv_queue' \in [Nodes -> Seq(Payload)]
         /\ rcv_nxt' \in [Nodes -> Nat]
         /\ \A m \in Nodes : m # n => /\ rcv_buf'[m] = rcv_buf[m] /\ rcv_queue'[m] = rcv_queue[m]
                                      /\ rcv_nxt'[m] = rcv_nxt[m]
  <1> DEFINE nxt == rcv_nxt[n]
             k == MovedCount(buf, queue, nxt)
             rest == MovedRest(buf, queue, nxt)
             more == MovedQueue(buf, queue, nxt)
  <1>1. /\ Receiver(st, ms, limit, nxt + k, more, rest, msgs)
        /\ \A sn \in Nat : Has(sn, nxt, buf) => Has(sn, nxt + k, rest)
    BY MoveReceiver
  <1>2. k \in Nat
    <2>1. /\ nxt \in Nat /\ buf \in SUBSET Segment /\ queue \in Seq(Payload) /\ Len(queue) <= RcvWnd
          /\ \A s \in buf : nxt <= s.sn /\ s.sn < nxt + RcvWnd
      BY DEF Receiver
    <2> HIDE DEF nxt
    <2>2. QED
      BY <2>1, RunIsReal DEF MovedCount
  <1>3. /\ rcv_buf' = [rcv_buf EXCEPT ![n] = rest]
        /\ rcv_queue' = [rcv_queue EXCEPT ![n] = more]
        /\ rcv_nxt' = [rcv_nxt EXCEPT ![n] = nxt + k]
    BY DEF Move, MovedCount, MovedRest, MovedQueue
  <1> HIDE DEF rest, more, k
  <1>4. /\ rcv_buf \in [Nodes -> SUBSET Segment] /\ rcv_queue \in [Nodes -> Seq(Payload)]
        /\ rcv_nxt \in [Nodes -> Nat]
    BY DEF IkcpTypes
  <1>5. rest \subseteq Segment /\ more \in Seq(Payload) /\ nxt + k \in Nat
    BY <1>1 DEF Receiver
  <1>6. rcv_buf'[n] = rest /\ rcv_queue'[n] = more /\ rcv_nxt'[n] = nxt + k
    BY <1>3, <1>4
  <1>7. /\ rcv_buf' \in [Nodes -> SUBSET Segment] /\ rcv_queue' \in [Nodes -> Seq(Payload)]
        /\ rcv_nxt' \in [Nodes -> Nat]
    <2> HIDE DEF nxt
    <2>1. QED
      BY <1>3, <1>4, <1>5
  <1>8. \A m \in Nodes : m # n => /\ rcv_buf'[m] = rcv_buf[m] /\ rcv_queue'[m] = rcv_queue[m]
                                  /\ rcv_nxt'[m] = rcv_nxt[m]
    BY <1>3, <1>4
  <1>9. \A sn \in Nat : Has(sn, nxt, rcv_buf[n]) => Has(sn, nxt, buf)
    BY DEF Has
  <1>10. nxt \in Nat /\ nxt <= nxt + k
    BY <1>2, <1>4
  <1>11. Later(st, limit, nxt, rcv_buf[n], st, limit, nxt + k, rest)
    <2> DEFINE to == nxt + k
    <2>1. /\ nxt \in Nat /\ to \in Nat /\ nxt <= to
          /\ \A sn \in Nat : Has(sn, nxt, rcv_buf[n]) => Has(sn, to, rest)
      BY <1>1, <1>5, <1>9, <1>10
    <2> HIDE DEF to, nxt
    <2>2. Later(st, limit, nxt, rcv_buf[n], st, limit, to, rest)
      BY <2>1 DEF Later
    <2>3. QED
      BY <2>2 DEF to
  <1>12. QED
    BY <1>1, <1>6, <1>7, <1>8, <1>11

\* The program takes a message.
LEMMA IkcpRecv ==
  ASSUME IkcpInv, NEW n \in Nodes, Recv(n)
  PROVE  IkcpInv'
  <1>1. PICK p \in Nodes : p = Peer(n) /\ p # n
    BY Peers
  <1>2. PICK st, su \in Seq(Payload) : Direction(n, p, st) /\ Direction(p, n, su)
    BY <1>1, GetDirections
  <1>3. IkcpTypes
    BY DEF IkcpInv
  <1>4. snd_nxt[p] \in Nat /\ snd_nxt[p] <= Start + Len(su)
    BY <1>2, DirectionNumbers
  <1>5. /\ Chain(su, sent[p])
        /\ Sender(su, snd_queue[p], snd_buf[p], snd_nxt[p], snd_una[p])
        /\ Receiver(su, sent[p], snd_nxt[p], rcv_nxt[n], rcv_queue[n], rcv_buf[n], got[n])
        /\ Kept(snd_buf[p], snd_nxt[p], rcv_nxt[n], rcv_buf[n])
        /\ \A sn \in acklist[n] : Received(sn, snd_nxt[p], rcv_nxt[n], rcv_buf[n])
        /\ \A x \in net \union delayed : Truthful(x, p, n, su, snd_nxt[p], rcv_nxt[n], rcv_buf[n])
    BY <1>2 DEF Direction
  <1>6. PICK k, left, mt : /\ k = Size(rcv_queue[n])
                           /\ left = SubSeq(rcv_queue[n], k + 1, Len(rcv_queue[n]))
                           /\ mt = Append(got[n], SubSeq(rcv_queue[n], 1, k))
    OBVIOUS
  <1>7. Receiver(su, sent[p], snd_nxt[p], rcv_nxt[n], left, rcv_buf[n], mt)
    BY <1>4, <1>5, <1>6, TakeReceiver DEF Recv
  <1>8. /\ got' = [got EXCEPT ![n] = mt]
        /\ Move(n, rcv_buf[n], left)
        /\ tell' = [tell EXCEPT ![n] = @ \/ Recovers(rcv_queue[n], rcv_queue'[n])]
        /\ UNCHANGED <<snd_queue, snd_buf, snd_nxt, snd_una, rmt_wnd, probing>>
        /\ due' = [due EXCEPT ![n] = FALSE]
        /\ UNCHANGED <<acklist, net, delayed, faults, sent>>
    BY <1>6 DEF Recv, sndVars, netVars
  <1>9. /\ Receiver(su, sent[p], snd_nxt[p], rcv_nxt'[n], rcv_queue'[n], rcv_buf'[n], mt)
        /\ Later(su, snd_nxt[p], rcv_nxt[n], rcv_buf[n], su, snd_nxt[p], rcv_nxt'[n], rcv_buf'[n])
        /\ rcv_buf' \in [Nodes -> SUBSET Segment] /\ rcv_queue' \in [Nodes -> Seq(Payload)]
        /\ rcv_nxt' \in [Nodes -> Nat]
        /\ \A m \in Nodes : m # n => /\ rcv_buf'[m] = rcv_buf[m] /\ rcv_queue'[m] = rcv_queue[m]
                                     /\ rcv_nxt'[m] = rcv_nxt[m]
    BY <1>3, <1>4, <1>7, <1>8, Moves
  <1>10. Kept(snd_buf[p], snd_nxt[p], rcv_nxt'[n], rcv_buf'[n])
    BY <1>5, <1>9, LaterKept
  <1>11. \A sn \in acklist[n] : Received(sn, snd_nxt[p], rcv_nxt'[n], rcv_buf'[n])
    BY <1>5, <1>9, LaterReceived
  <1>12. \A x \in net \union delayed : Truthful(x, p, n, su, snd_nxt[p], rcv_nxt'[n], rcv_buf'[n])
    <2>1. net \union delayed \subseteq PacketSet
      BY <1>3 DEF IkcpTypes
    <2>2. QED
      BY <1>5, <1>9, <2>1, LaterTruthful
  <1>13. mt \in Seq(Seq(Payload))
    BY <1>7 DEF Receiver
  <1>14. got' \in [Nodes -> Seq(Seq(Payload))] /\ got'[n] = mt /\ got'[p] = got[p]
    BY <1>1, <1>3, <1>8, <1>13 DEF IkcpTypes
  <1>15. tell' \in [Nodes -> BOOLEAN]
    <2> DEFINE r == Recovers(rcv_queue[n], rcv_queue'[n])
    <2>1. r \in BOOLEAN
      BY DEF Recovers
    <2>2. tell' = [tell EXCEPT ![n] = @ \/ r] /\ tell \in [Nodes -> BOOLEAN]
      BY <1>3, <1>8 DEF IkcpTypes
    <2> HIDE DEF r
    <2>3. QED
      BY <2>1, <2>2, Zenon
  <1>16. IkcpTypes'
    <2>1. due' \in [Nodes -> BOOLEAN]
      BY <1>3, <1>8, Zenon DEF IkcpTypes
    <2>2. QED
      BY <1>3, <1>8, <1>9, <1>14, <1>15, <2>1 DEF IkcpTypes
  <1>17. Direction(p, n, su)'
    BY <1>5, <1>8, <1>9, <1>10, <1>11, <1>12, <1>14 DEF Direction
  <1>18. Direction(n, p, st)'
    <2>1. rcv_buf'[p] = rcv_buf[p] /\ rcv_queue'[p] = rcv_queue[p] /\ rcv_nxt'[p] = rcv_nxt[p]
      BY <1>1, <1>9
    <2>2. QED
      BY <1>2, <1>8, <1>14, <2>1 DEF Direction
  <1>19. QED
    BY <1>1, <1>2, <1>16, <1>17, <1>18, BothDirections

LEMMA PacketFields ==
  ASSUME IkcpTypes, NEW n \in Nodes, NEW cmd \in {"push", "ack", "wask", "wins"}, NEW s,
         s.sn \in Nat, s.msg \in Nat, s.frg \in Nat
  PROVE  /\ Packet(n, cmd, s) \in PacketSet
         /\ Packet(n, cmd, s).to = Peer(n) /\ Packet(n, cmd, s).cmd = cmd
         /\ Packet(n, cmd, s).sn = s.sn /\ Packet(n, cmd, s).msg = s.msg
         /\ Packet(n, cmd, s).frg = s.frg /\ Packet(n, cmd, s).una = rcv_nxt[n]
  <1>1. Peer(n) \in Nodes
    BY Peers
  <1>2. rcv_nxt[n] \in Nat /\ Len(rcv_queue[n]) \in Nat
    BY DEF IkcpTypes
  <1>3. Unused(n) \in 0..RcvWnd
    BY <1>2, Constants DEF Unused
  <1>4. QED
    BY <1>1, <1>2, <1>3 DEF Packet, PacketSet

\* An end sends what it has to send, and starts segments.
LEMMA IkcpFlush ==
  ASSUME IkcpInv, NEW n \in Nodes, NEW cwnd \in 0..SndWnd, NEW late \in SUBSET snd_buf[n],
         NEW expired \in BOOLEAN, Flush(n, cwnd, late, expired)
  PROVE  IkcpInv'
  <1>1. PICK p \in Nodes : p = Peer(n) /\ p # n
    BY Peers
  <1>2. PICK st, su \in Seq(Payload) : Direction(n, p, st) /\ Direction(p, n, su)
    BY <1>1, GetDirections
  <1>3. IkcpTypes
    BY DEF IkcpInv
  <1>4. PICK w : w = Least(cwnd, Least(SndWnd, rmt_wnd[n]))
    OBVIOUS
  <1>5. PICK k : k = Cardinality(Window(n, w))
    OBVIOUS
  <1>6. PICK new : new = Started(snd_nxt[n], snd_queue[n], k)
    OBVIOUS
  <1>7. PICK out : out = {Control(n, "ack", sn) : sn \in acklist[n]}
               \union (IF Asks(n, expired) THEN {Control(n, "wask", 0)} ELSE {})
               \union (IF tell[n] THEN {Control(n, "wins", 0)} ELSE {})
               \union {Packet(n, "push", s) : s \in new \union late}
    OBVIOUS
  <1>8. PICK left : left = SubSeq(snd_queue[n], k + 1, Len(snd_queue[n]))
    OBVIOUS
  <1>9. /\ net' = net \union out
        /\ acklist' = [acklist EXCEPT ![n] = {}]
        /\ tell' = [tell EXCEPT ![n] = FALSE]
        /\ probing' = [probing EXCEPT ![n] = rmt_wnd[n] = 0]
        /\ snd_queue' = [snd_queue EXCEPT ![n] = left]
        /\ snd_buf' = [snd_buf EXCEPT ![n] = @ \union new]
        /\ snd_nxt' = [snd_nxt EXCEPT ![n] = @ + k]
        /\ UNCHANGED <<snd_una, rmt_wnd, rcv_buf, rcv_queue, rcv_nxt, due, delayed, faults, sent, got>>
    BY <1>4, <1>5, <1>6, <1>7, <1>8 DEF Flush, Started
  <1>10. /\ Chain(st, sent[n])
         /\ Sender(st, snd_queue[n], snd_buf[n], snd_nxt[n], snd_una[n])
         /\ Receiver(st, sent[n], snd_nxt[n], rcv_nxt[p], rcv_queue[p], rcv_buf[p], got[p])
         /\ Kept(snd_buf[n], snd_nxt[n], rcv_nxt[p], rcv_buf[p])
         /\ \A sn \in acklist[p] : Received(sn, snd_nxt[n], rcv_nxt[p], rcv_buf[p])
         /\ \A x \in net \union delayed : Truthful(x, n, p, st, snd_nxt[n], rcv_nxt[p], rcv_buf[p])
    BY <1>2 DEF Direction
  <1>11. snd_nxt[n] \in Nat /\ rcv_nxt[p] \in Nat /\ rcv_nxt[n] \in Nat /\ Start <= rcv_nxt[n]
    BY <1>2, DirectionNumbers
  <1>12. w \in 0..SndWnd
    <2>1. rmt_wnd[n] \in Nat
      BY <1>3, Constants DEF IkcpTypes
    <2>2. QED
      BY <1>4, <2>1, Constants DEF Least
  <1>13. k \in Nat /\ k <= Len(snd_queue[n]) /\ snd_nxt[n] + k <= snd_una[n] + SndWnd
    BY <1>5, <1>10, <1>12, WindowIsReal
  <1>14. /\ Sender(st, left, snd_buf[n] \union new, snd_nxt[n] + k, snd_una[n])
         /\ Kept(snd_buf[n] \union new, snd_nxt[n] + k, rcv_nxt[p], rcv_buf[p])
         /\ new \subseteq Segment
         /\ \A s \in new : s.sn < snd_nxt[n] + k /\ Holds(st, s)
    BY <1>2, <1>6, <1>8, <1>10, <1>13, StartSender
  <1>15. PICK limit \in Nat : limit = snd_nxt[n] + k /\ snd_nxt[n] <= limit
    <2>1. snd_nxt[n] + k \in Nat /\ snd_nxt[n] <= snd_nxt[n] + k
      BY <1>11, <1>13
    <2>2. QED
      BY <2>1
  <1>16. Receiver(st, sent[n], limit, rcv_nxt[p], rcv_queue[p], rcv_buf[p], got[p])
    BY <1>10, <1>11, <1>13, <1>15, LaterReceiver
  <1>17. Later(st, snd_nxt[n], rcv_nxt[p], rcv_buf[p], st, limit, rcv_nxt[p], rcv_buf[p])
    BY <1>11, <1>15 DEF Later
  <1>18. \A sn \in acklist[p] : Received(sn, limit, rcv_nxt[p], rcv_buf[p])
    BY <1>10, <1>17, LaterReceived
  <1>19. \A x \in net \union delayed : Truthful(x, n, p, st, limit, rcv_nxt[p], rcv_buf[p])
    <2>1. net \union delayed \subseteq PacketSet
      BY <1>3 DEF IkcpTypes
    <2>2. QED
      BY <1>10, <1>17, <2>1, LaterTruthful
  <1>20. \A s \in new \union late : s \in Segment /\ s.sn < limit /\ Holds(st, s)
    <2>1. \A s \in snd_buf[n] : s \in Segment /\ s.sn < snd_nxt[n] /\ Holds(st, s)
      BY <1>10 DEF Sender
    <2>2. ASSUME NEW s \in late PROVE s \in Segment /\ s.sn < limit /\ Holds(st, s)
      <3>1. s.sn \in Nat /\ s.sn < snd_nxt[n]
        BY <2>1, PayloadFields
      <3>2. QED
        BY <1>11, <1>15, <2>1, <3>1
    <2>3. QED
      BY <1>14, <1>15, <2>2
  <1>21. ASSUME NEW x \in out
         PROVE  /\ x \in PacketSet /\ x.to = p /\ x.una = rcv_nxt[n]
                /\ x.cmd = "push" => x.sn < limit /\ Holds(st, x)
                /\ x.cmd = "ack" => Received(x.sn, snd_nxt[p], rcv_nxt[n], rcv_buf[n])
    <2>1. CASE \E s \in new \union late : x = Packet(n, "push", s)
      <3>1. PICK s \in new \union late : x = Packet(n, "push", s)
        BY <2>1
      <3>2. s.sn \in Nat /\ s.msg \in Nat /\ s.frg \in Nat /\ s.sn < limit /\ Holds(st, s)
        BY <1>20, PayloadFields
      <3>3. /\ x \in PacketSet /\ x.to = p /\ x.cmd = "push" /\ x.una = rcv_nxt[n]
            /\ x.sn = s.sn /\ x.msg = s.msg /\ x.frg = s.frg
        BY <1>1, <1>3, <3>1, <3>2, PacketFields
      <3>4. Holds(st, x)
        BY <3>2, <3>3 DEF Holds
      <3>5. QED
        BY <3>2, <3>3, <3>4
    <2>2. ASSUME NEW cmd \in {"ack", "wask", "wins"}, NEW sn \in Nat, x = Control(n, cmd, sn)
          PROVE  x \in PacketSet /\ x.to = p /\ x.una = rcv_nxt[n] /\ x.cmd = cmd /\ x.sn = sn
      <3> DEFINE s == [sn |-> sn, msg |-> 0, frg |-> 0]
      <3>1. s.sn \in Nat /\ s.msg \in Nat /\ s.frg \in Nat /\ s.sn = sn
        OBVIOUS
      <3>2. x = Packet(n, cmd, s)
        BY <2>2 DEF Control
      <3> HIDE DEF s
      <3>3. QED
        BY <1>1, <1>3, <3>1, <3>2, PacketFields
    <2>3. CASE \E sn \in acklist[n] : x = Control(n, "ack", sn)
      <3>1. PICK sn \in acklist[n] : x = Control(n, "ack", sn)
        BY <2>3
      <3>2. sn \in Nat
        BY <1>3 DEF IkcpTypes
      <3>3. Received(sn, snd_nxt[p], rcv_nxt[n], rcv_buf[n])
        BY <1>2 DEF Direction
      <3>4. x \in PacketSet /\ x.to = p /\ x.una = rcv_nxt[n] /\ x.cmd = "ack" /\ x.sn = sn
        BY <2>2, <3>1, <3>2
      <3>5. QED
        BY <3>3, <3>4
    <2>4. CASE x = Control(n, "wask", 0)
      BY <2>2, <2>4
    <2>5. CASE x = Control(n, "wins", 0)
      BY <2>2, <2>5
    <2>6. QED
      BY <1>7, <2>1, <2>3, <2>4, <2>5
  <1>22. \A x \in out : Truthful(x, n, p, st, limit, rcv_nxt[p], rcv_buf[p])
    BY <1>1, <1>21 DEF Truthful
  <1>23. \A x \in out : Truthful(x, p, n, su, snd_nxt[p], rcv_nxt[n], rcv_buf[n])
    BY <1>1, <1>11, <1>21 DEF Truthful
  <1>24. /\ snd_nxt'[n] = limit /\ snd_buf'[n] = snd_buf[n] \union new /\ snd_queue'[n] = left
         /\ snd_nxt'[p] = snd_nxt[p] /\ snd_buf'[p] = snd_buf[p] /\ snd_queue'[p] = snd_queue[p]
         /\ acklist'[n] = {} /\ acklist'[p] = acklist[p]
    BY <1>1, <1>3, <1>9, <1>15 DEF IkcpTypes
  <1>25. IkcpTypes'
    <2>1. left \in Seq(Payload) /\ snd_buf[n] \union new \subseteq Segment /\ snd_nxt[n] + k \in Nat
      BY <1>14 DEF Sender
    <2>2. /\ snd_queue' \in [Nodes -> Seq(Payload)] /\ snd_buf' \in [Nodes -> SUBSET Segment]
          /\ snd_nxt' \in [Nodes -> Nat] /\ acklist' \in [Nodes -> SUBSET Nat]
      BY <1>3, <1>9, <2>1 DEF IkcpTypes
    <2>3. probing' \in [Nodes -> BOOLEAN] /\ tell' \in [Nodes -> BOOLEAN]
      <3> DEFINE b == rmt_wnd[n] = 0
      <3>1. b \in BOOLEAN /\ probing' = [probing EXCEPT ![n] = b]
        BY <1>9
      <3> HIDE DEF b
      <3>2. QED
        BY <1>3, <1>9, <3>1, Zenon DEF IkcpTypes
    <2>4. net' \subseteq PacketSet
      BY <1>3, <1>9, <1>21 DEF IkcpTypes
    <2>5. QED
      BY <1>3, <1>9, <2>2, <2>3, <2>4 DEF IkcpTypes
  <1>26. Direction(n, p, st)'
    <2>1. \A x \in net' \union delayed' : Truthful(x, n, p, st, limit, rcv_nxt[p], rcv_buf[p])
      BY <1>9, <1>19, <1>22
    <2>2. /\ Sender(st, left, snd_buf[n] \union new, limit, snd_una[n])
          /\ Kept(snd_buf[n] \union new, limit, rcv_nxt[p], rcv_buf[p])
      BY <1>14, <1>15
    <2>3. QED
      BY <1>9, <1>10, <1>16, <1>18, <1>24, <2>1, <2>2 DEF Direction
  <1>27. Direction(p, n, su)'
    <2>1. \A x \in net \union delayed : Truthful(x, p, n, su, snd_nxt[p], rcv_nxt[n], rcv_buf[n])
      BY <1>2 DEF Direction
    <2>2. \A x \in net' \union delayed' : Truthful(x, p, n, su, snd_nxt[p], rcv_nxt[n], rcv_buf[n])
      BY <1>9, <1>23, <2>1
    <2>3. \A sn \in acklist'[n] : Received(sn, snd_nxt[p], rcv_nxt[n], rcv_buf[n])
      BY <1>24
    <2>4. QED
      BY <1>2, <1>9, <1>24, <2>2, <2>3 DEF Direction
  <1>28. QED
    BY <1>1, <1>2, <1>25, <1>26, <1>27, BothDirections

\* ikcp_parse_data compares the numbers of a packet that is not too old.
LEMMA DataIsReal ==
  ASSUME NEW st, NEW ms, NEW squeue, NEW sbuf, NEW limit, NEW una,
         NEW nxt, NEW queue, NEW buf, NEW msgs, NEW sn \in Nat,
         Sender(st, squeue, sbuf, limit, una), Receiver(st, ms, limit, nxt, queue, buf, msgs),
         Kept(sbuf, limit, nxt, buf), sn < limit, 2 * (nxt + RcvWnd - sn) < Modulus
  PROVE  /\ Diff(sn, nxt + RcvWnd) < 0 <=> sn < nxt + RcvWnd
         /\ Diff(sn, nxt) >= 0 <=> sn >= nxt
         /\ nxt <= sn /\ sn < nxt + RcvWnd => \A s \in buf : Diff(s.sn, sn) = 0 <=> s.sn = sn
  <1>1. /\ una \in Nat /\ nxt \in Nat /\ limit \in Nat
        /\ una <= nxt + RcvWnd /\ nxt <= limit /\ limit <= una + SndWnd
    BY WindowsMeet
  <1>2. Diff(sn, nxt + RcvWnd) < 0 <=> sn < nxt + RcvWnd
    <2> DEFINE b == nxt + RcvWnd
    <2>1. sn \in Int /\ b \in Int /\ 2 * (sn - b) < Modulus /\ 2 * (b - sn) < Modulus
      BY <1>1, Constants
    <2> HIDE DEF b
    <2>2. Diff(sn, b) = sn - b
      BY <2>1, DiffIsReal
    <2>3. Diff(sn, b) < 0 <=> sn < b
      BY <2>1, <2>2
    <2>4. QED
      BY <2>3 DEF b
  <1>3. Diff(sn, nxt) >= 0 <=> sn >= nxt
    <2>1. sn \in Int /\ nxt \in Int /\ 2 * (sn - nxt) < Modulus /\ 2 * (nxt - sn) < Modulus
      BY <1>1, Constants
    <2>2. Diff(sn, nxt) = sn - nxt
      BY <2>1, DiffIsReal
    <2>3. QED
      BY <2>1, <2>2
  <1>4. ASSUME nxt <= sn, sn < nxt + RcvWnd, NEW s \in buf PROVE Diff(s.sn, sn) = 0 <=> s.sn = sn
    <2>1. buf \in SUBSET Segment /\ \A t \in buf : nxt <= t.sn /\ t.sn < nxt + RcvWnd
      BY DEF Receiver
    <2>2. Turn(buf, sn) = {t \in buf : t.sn = sn}
      BY <1>1, <1>4, <2>1, TurnIsReal
    <2>3. QED
      BY <2>2 DEF Turn
  <1>5. QED
    BY <1>2, <1>3, <1>4

\* A segment arrives: the receiver n and what it acknowledges.
LEMMA ArrivesReceiver ==
  ASSUME IkcpTypes, NEW y \in PacketSet, NEW n \in Nodes, y.to = n, NEW p \in Nodes, NEW su \in Seq(Payload),
         Direction(p, n, su), Truthful(y, p, n, su, snd_nxt[p], rcv_nxt[n], rcv_buf[n]),
         Fresh(y), ParseData(y)
  PROVE  /\ Receiver(su, sent[p], snd_nxt[p], rcv_nxt'[n], rcv_queue'[n], rcv_buf'[n], got[n])
         /\ Later(su, snd_nxt[p], rcv_nxt[n], rcv_buf[n], su, snd_nxt[p], rcv_nxt'[n], rcv_buf'[n])
         /\ y.cmd = "push" /\ Ackable(n, y.sn)
              => Received(y.sn, snd_nxt[p], rcv_nxt'[n], rcv_buf'[n])
         /\ rcv_buf' \in [Nodes -> SUBSET Segment] /\ rcv_queue' \in [Nodes -> Seq(Payload)]
         /\ rcv_nxt' \in [Nodes -> Nat]
         /\ \A m \in Nodes : m # n => /\ rcv_buf'[m] = rcv_buf[m] /\ rcv_queue'[m] = rcv_queue[m]
                                      /\ rcv_nxt'[m] = rcv_nxt[m]
  <1> DEFINE sn == y.sn
             nxt == rcv_nxt[n]
             buf == rcv_buf[n]
             limit == snd_nxt[p]
             s == [sn |-> y.sn, msg |-> y.msg, frg |-> y.frg]
             known == \E t \in buf : Diff(t.sn, sn) = 0
             all == IF known THEN buf ELSE buf \union {s}
  <1>1. /\ Sender(su, snd_queue[p], snd_buf[p], limit, snd_una[p])
        /\ Receiver(su, sent[p], limit, nxt, rcv_queue[n], buf, got[n])
        /\ Kept(snd_buf[p], limit, nxt, buf)
    BY DEF Direction
  <1>2. sn \in Nat /\ s \in Segment /\ s.sn = sn /\ limit \in Nat /\ nxt \in Nat
    <2>1. y.sn \in Nat /\ y.msg \in Nat /\ y.frg \in Nat
      BY DEF PacketSet
    <2>2. QED
      BY <2>1, PayloadFields, DirectionNumbers
  <1>3. /\ rcv_buf \in [Nodes -> SUBSET Segment] /\ rcv_queue \in [Nodes -> Seq(Payload)]
        /\ rcv_nxt \in [Nodes -> Nat]
    BY DEF IkcpTypes
  <1>4. ASSUME y.cmd = "push"
        PROVE  /\ sn < limit /\ Holds(su, s) /\ Start <= sn
               /\ Diff(sn, nxt + RcvWnd) < 0 <=> sn < nxt + RcvWnd
               /\ Diff(sn, nxt) >= 0 <=> sn >= nxt
               /\ nxt <= sn /\ sn < nxt + RcvWnd => \A t \in buf : Diff(t.sn, sn) = 0 <=> t.sn = sn
    <2>1. y.to = n /\ sn < limit /\ Holds(su, y) /\ 2 * (nxt + RcvWnd - sn) < Modulus
      BY <1>4 DEF Truthful, Fresh
    <2>2. Holds(su, s) /\ sn - Start + 1 \in DOMAIN su
      BY <2>1 DEF Holds
    <2>3. Start <= sn
      BY <1>2, <2>2, Constants
    <2> HIDE DEF sn, nxt, limit, buf
    <2>4. QED
      BY <1>1, <1>2, <2>1, <2>2, <2>3, DataIsReal
  <1>5. CASE y.cmd = "push" /\ IsNew(n, sn)
    <2>1. Move(n, all, rcv_queue[n])
      BY <1>5 DEF ParseData
    <2>2. nxt <= sn /\ sn < nxt + RcvWnd
      BY <1>2, <1>4, <1>5 DEF IsNew, Ackable
    <2>3. Receiver(su, sent[p], limit, nxt, rcv_queue[n], buf \union {s}, got[n])
      <3> HIDE DEF s, sn, nxt, limit, buf
      <3>1. QED
        BY <1>1, <1>2, <1>4, <1>5, <2>2, AddReceiver
    <2>4. Receiver(su, sent[p], limit, nxt, rcv_queue[n], all, got[n]) /\ buf \subseteq all
      BY <1>1, <2>3
    <2>5. Has(sn, nxt, all)
      <3>1. \E t \in all : t.sn = sn
        BY <1>2, <1>4, <1>5, <2>2
      <3> HIDE DEF all
      <3>2. QED
        BY <3>1 DEF Has
    <2> HIDE DEF all, s
    <2>6. /\ Receiver(su, sent[p], limit, rcv_nxt'[n], rcv_queue'[n], rcv_buf'[n], got[n])
          /\ Later(su, limit, nxt, buf, su, limit, rcv_nxt'[n], rcv_buf'[n])
          /\ \A i \in Nat : Has(i, nxt, all) => Has(i, rcv_nxt'[n], rcv_buf'[n])
          /\ rcv_buf' \in [Nodes -> SUBSET Segment] /\ rcv_queue' \in [Nodes -> Seq(Payload)]
          /\ rcv_nxt' \in [Nodes -> Nat]
          /\ \A m \in Nodes : m # n => /\ rcv_buf'[m] = rcv_buf[m] /\ rcv_queue'[m] = rcv_queue[m]
                                       /\ rcv_nxt'[m] = rcv_nxt[m]
      BY <1>2, <2>1, <2>4, Moves
    <2>7. Has(sn, rcv_nxt'[n], rcv_buf'[n])
      BY <1>2, <2>5, <2>6
    <2>8. Received(sn, limit, rcv_nxt'[n], rcv_buf'[n])
      BY <1>2, <1>4, <1>5, <2>7 DEF Received
    <2>9. QED
      BY <2>6, <2>8
  <1>6. CASE ~(y.cmd = "push" /\ IsNew(n, sn))
    <2>1. rcv_buf' = rcv_buf /\ rcv_queue' = rcv_queue /\ rcv_nxt' = rcv_nxt
      BY <1>6 DEF ParseData
    <2>2. Later(su, limit, nxt, buf, su, limit, nxt, buf)
      BY <1>2 DEF Later
    <2>3. ASSUME y.cmd = "push", Ackable(n, sn) PROVE Received(sn, limit, nxt, buf)
      <3>1. ~(Diff(sn, nxt) >= 0)
        BY <1>6, <2>3 DEF IsNew
      <3>2. sn < nxt
        BY <1>2, <1>4, <2>3, <3>1
      <3>3. QED
        BY <1>2, <1>4, <2>3, <3>2 DEF Received, Has
    <2>4. QED
      BY <1>1, <1>3, <2>1, <2>2, <2>3
  <1>7. QED
    BY <1>5, <1>6

\* A packet arrives.
LEMMA IkcpInput ==
  ASSUME IkcpInv, NEW y \in net \union delayed, Input(y)
  PROVE  IkcpInv'
  <1>1. IkcpTypes
    BY DEF IkcpInv
  <1>2. y \in PacketSet
    BY <1>1 DEF IkcpTypes
  <1>3. /\ y.to \in Nodes /\ y.una \in Nat /\ y.sn \in Nat /\ y.wnd \in 0..RcvWnd
    BY <1>2 DEF PacketSet
  <1>4. PICK n \in Nodes : n = y.to
    BY <1>3
  <1>5. PICK p \in Nodes : p = Peer(n) /\ p # n
    BY Peers
  <1>6. PICK st, su \in Seq(Payload) : Direction(n, p, st) /\ Direction(p, n, su)
    BY <1>5, GetDirections
  <1>7. PICK buf : buf = ParseUna(snd_buf[n], y.una)
    OBVIOUS
  <1>8. PICK left :
          left = IF y.cmd = "ack" THEN ParseAck(buf, Oldest(buf, snd_nxt[n]), snd_nxt[n], y.sn) ELSE buf
    OBVIOUS
  <1>9. PICK una : una = Oldest(left, snd_nxt[n])
    OBVIOUS
  <1>10. /\ Fresh(y) /\ net' = net \ {y} /\ delayed' = delayed \ {y}
         /\ ParseData(y)
         /\ acklist' = [acklist EXCEPT ![n] =
                          IF y.cmd = "push" /\ Ackable(n, y.sn) THEN @ \union {y.sn} ELSE @]
         /\ tell' = [tell EXCEPT ![n] = @ \/ Answers(y)]
         /\ due' = [due EXCEPT ![n] = TRUE]
         /\ UNCHANGED <<snd_queue, snd_nxt, probing, sent, got, faults>>
    BY <1>4 DEF Input
  <1>11. /\ snd_buf' = [snd_buf EXCEPT ![n] = left]
         /\ snd_una' = [snd_una EXCEPT ![n] = una]
         /\ rmt_wnd' = [rmt_wnd EXCEPT ![n] = y.wnd]
    BY <1>4, <1>7, <1>8, <1>9 DEF Input, Acknowledge
  <1>12. /\ Chain(st, sent[n])
         /\ Sender(st, snd_queue[n], snd_buf[n], snd_nxt[n], snd_una[n])
         /\ Receiver(st, sent[n], snd_nxt[n], rcv_nxt[p], rcv_queue[p], rcv_buf[p], got[p])
         /\ Kept(snd_buf[n], snd_nxt[n], rcv_nxt[p], rcv_buf[p])
         /\ \A sn \in acklist[p] : Received(sn, snd_nxt[n], rcv_nxt[p], rcv_buf[p])
         /\ \A x \in net \union delayed : Truthful(x, n, p, st, snd_nxt[n], rcv_nxt[p], rcv_buf[p])
    BY <1>6 DEF Direction
  <1>13. /\ Chain(su, sent[p])
         /\ Sender(su, snd_queue[p], snd_buf[p], snd_nxt[p], snd_una[p])
         /\ Kept(snd_buf[p], snd_nxt[p], rcv_nxt[n], rcv_buf[n])
         /\ \A sn \in acklist[n] : Received(sn, snd_nxt[p], rcv_nxt[n], rcv_buf[n])
         /\ \A x \in net \union delayed : Truthful(x, p, n, su, snd_nxt[p], rcv_nxt[n], rcv_buf[n])
    BY <1>6 DEF Direction
  <1>14. Sender(st, snd_queue[n], left, snd_nxt[n], una) /\ Kept(left, snd_nxt[n], rcv_nxt[p], rcv_buf[p])
    <2>1. PICK isack : isack = (y.cmd = "ack")
      OBVIOUS
    <2>2. /\ Start <= y.una /\ y.una <= rcv_nxt[p]
          /\ isack => Received(y.sn, snd_nxt[n], rcv_nxt[p], rcv_buf[p])
      BY <1>4, <1>12, <2>1 DEF Truthful
    <2>3. /\ 2 * (snd_nxt[n] - y.una) < Modulus
          /\ isack => 2 * (snd_nxt[n] - y.sn) < Modulus
      BY <1>4, <1>10, <2>1 DEF Fresh
    <2>4. left = IF isack THEN ParseAck(buf, Oldest(buf, snd_nxt[n]), snd_nxt[n], y.sn) ELSE buf
      BY <1>8, <2>1
    <2>5. QED
      BY <1>3, <1>7, <1>9, <1>12, <2>2, <2>3, <2>4, AckSender
  <1>15. Truthful(y, p, n, su, snd_nxt[p], rcv_nxt[n], rcv_buf[n])
    BY <1>13
  <1>16. /\ Receiver(su, sent[p], snd_nxt[p], rcv_nxt'[n], rcv_queue'[n], rcv_buf'[n], got[n])
         /\ Later(su, snd_nxt[p], rcv_nxt[n], rcv_buf[n], su, snd_nxt[p], rcv_nxt'[n], rcv_buf'[n])
         /\ y.cmd = "push" /\ Ackable(n, y.sn)
              => Received(y.sn, snd_nxt[p], rcv_nxt'[n], rcv_buf'[n])
         /\ rcv_buf' \in [Nodes -> SUBSET Segment] /\ rcv_queue' \in [Nodes -> Seq(Payload)]
         /\ rcv_nxt' \in [Nodes -> Nat]
         /\ \A m \in Nodes : m # n => /\ rcv_buf'[m] = rcv_buf[m] /\ rcv_queue'[m] = rcv_queue[m]
                                      /\ rcv_nxt'[m] = rcv_nxt[m]
    BY <1>1, <1>2, <1>4, <1>6, <1>10, <1>15, ArrivesReceiver
  <1>17. Kept(snd_buf[p], snd_nxt[p], rcv_nxt'[n], rcv_buf'[n])
    BY <1>13, <1>16, LaterKept
  <1>18. \A x \in net' \union delayed' :
           Truthful(x, p, n, su, snd_nxt[p], rcv_nxt'[n], rcv_buf'[n])
    <2>1. net \union delayed \subseteq PacketSet
      BY <1>1 DEF IkcpTypes
    <2>2. \A x \in net \union delayed : Truthful(x, p, n, su, snd_nxt[p], rcv_nxt'[n], rcv_buf'[n])
      BY <1>13, <1>16, <2>1, LaterTruthful
    <2>3. QED
      BY <1>10, <2>2
  <1>19. acklist \in [Nodes -> SUBSET Nat]
    BY <1>1 DEF IkcpTypes
  <1>20. \A sn \in acklist'[n] : Received(sn, snd_nxt[p], rcv_nxt'[n], rcv_buf'[n])
    <2>1. \A sn \in acklist[n] : Received(sn, snd_nxt[p], rcv_nxt'[n], rcv_buf'[n])
      BY <1>13, <1>16, LaterReceived
    <2>2. acklist'[n] = IF y.cmd = "push" /\ Ackable(n, y.sn) THEN acklist[n] \union {y.sn} ELSE acklist[n]
      BY <1>10, <1>19
    <2>3. QED
      BY <1>16, <2>1, <2>2
  <1>21. /\ acklist'[p] = acklist[p]
         /\ snd_buf'[n] = left /\ snd_una'[n] = una /\ snd_buf'[p] = snd_buf[p] /\ snd_una'[p] = snd_una[p]
    BY <1>1, <1>5, <1>10, <1>11 DEF IkcpTypes
  <1>22. rcv_buf'[p] = rcv_buf[p] /\ rcv_queue'[p] = rcv_queue[p] /\ rcv_nxt'[p] = rcv_nxt[p]
    BY <1>5, <1>16
  <1>23. IkcpTypes'
    <2>1. left \subseteq Segment /\ una \in Nat
      BY <1>14 DEF Sender
    <2>2. /\ snd_buf' \in [Nodes -> SUBSET Segment] /\ snd_una' \in [Nodes -> Nat]
          /\ rmt_wnd' \in [Nodes -> 0..RcvWnd]
      BY <1>1, <1>3, <1>11, <2>1 DEF IkcpTypes
    <2>3. acklist' \in [Nodes -> SUBSET Nat]
      BY <1>3, <1>10, <1>19
    <2>4. tell' \in [Nodes -> BOOLEAN]
      <3> DEFINE a == Answers(y)
      <3>1. a \in BOOLEAN
        BY DEF Answers
      <3>2. tell' = [tell EXCEPT ![n] = @ \/ a] /\ tell \in [Nodes -> BOOLEAN]
        BY <1>1, <1>10 DEF IkcpTypes
      <3> HIDE DEF a
      <3>3. QED
        BY <3>1, <3>2, Zenon
    <2>5. net' \subseteq PacketSet /\ delayed' \subseteq PacketSet
      BY <1>1, <1>10 DEF IkcpTypes
    <2>6. due' \in [Nodes -> BOOLEAN]
      BY <1>1, <1>10, Zenon DEF IkcpTypes
    <2>7. QED
      BY <1>1, <1>10, <1>16, <2>2, <2>3, <2>4, <2>5, <2>6 DEF IkcpTypes
  <1>24. Direction(n, p, st)'
    <2>1. \A x \in net' \union delayed' : Truthful(x, n, p, st, snd_nxt[n], rcv_nxt[p], rcv_buf[p])
      BY <1>10, <1>12
    <2>2. QED
      BY <1>10, <1>12, <1>14, <1>21, <1>22, <2>1 DEF Direction
  <1>25. Direction(p, n, su)'
    BY <1>10, <1>13, <1>16, <1>17, <1>18, <1>20, <1>21 DEF Direction
  <1>26. QED
    BY <1>5, <1>6, <1>23, <1>24, <1>25, BothDirections

\* The network holds packets back, repeats and loses them.
LEMMA IkcpNetwork ==
  ASSUME IkcpInv,
         UNCHANGED <<sndVars, rcvVars, sent, got>>, net' \subseteq net \union delayed,
         delayed' \subseteq net \union delayed, faults' \in 0..MaxFaults
  PROVE  IkcpInv'
  <1>1. IkcpTypes'
    BY DEF IkcpInv, IkcpTypes, sndVars, rcvVars
  <1>2. ASSUME NEW n \in Nodes PROVE \E st \in Seq(Payload) : Direction(n, Peer(n), st)'
    <2>1. PICK p \in Nodes : p = Peer(n)
      BY Peers
    <2>2. PICK st \in Seq(Payload) : Direction(n, p, st)
      BY <2>1 DEF IkcpInv
    <2>3. Direction(n, p, st)'
      BY <2>2 DEF Direction, sndVars, rcvVars
    <2>4. QED
      BY <2>1, <2>3
  <1>3. QED
    BY <1>1, <1>2 DEF IkcpInv

LEMMA IkcpInit ==
  ASSUME Init
  PROVE  IkcpInv
  <1>1. IkcpTypes
    <2>1. RcvWnd \in 0..RcvWnd /\ 0 \in 0..MaxFaults /\ Start \in Nat
      BY Constants
    <2>2. QED
      BY <2>1 DEF Init, IkcpTypes
  <1>2. ASSUME NEW n \in Nodes PROVE Direction(n, Peer(n), <<>>)
    <2>1. PICK p \in Nodes : p = Peer(n)
      BY Peers
    <2>2. /\ sent[n] = <<>> /\ snd_queue[n] = <<>> /\ snd_buf[n] = {} /\ snd_nxt[n] = Start
          /\ snd_una[n] = Start /\ rcv_nxt[p] = Start /\ rcv_queue[p] = <<>> /\ rcv_buf[p] = {}
          /\ got[p] = <<>> /\ acklist[p] = {} /\ net = {} /\ delayed = {}
      BY DEF Init
    <2> DEFINE e == <<>>
    <2>3. /\ e \in Seq(Payload) /\ e \in Seq(Nat \ {0}) /\ e \in Seq(Seq(Payload))
          /\ Len(e) = 0 /\ \A i \in DOMAIN e : FALSE
      OBVIOUS
    <2> DEFINE none == {}
    <2>4. none \subseteq Segment /\ \A x \in none : FALSE
      OBVIOUS
    <2> HIDE DEF e, none
    <2>5. Chain(e, e)
      BY <2>3 DEF Chain
    <2>6. Sender(e, e, none, Start, Start)
      BY <2>3, <2>4, Constants DEF Sender
    <2>7. Begins(e, e, Start - Start - Len(e), Len(e))
      BY <2>3, Constants DEF Begins
    <2>8. Receiver(e, e, Start, Start, e, none, e)
      BY <2>3, <2>4, <2>7, Constants DEF Receiver
    <2>9. Kept(none, Start, Start, none)
      BY Constants DEF Kept
    <2>10. Direction(n, p, e)
      BY <2>2, <2>5, <2>6, <2>8, <2>9 DEF Direction, e, none
    <2>11. QED
      BY <2>1, <2>10 DEF e
  <1>3. <<>> \in Seq(Payload)
    OBVIOUS
  <1>4. \A n \in Nodes : \E st \in Seq(Payload) : Direction(n, Peer(n), st)
    <2> DEFINE e == <<>>
    <2>1. e \in Seq(Payload) /\ \A n \in Nodes : Direction(n, Peer(n), e)
      BY <1>2, <1>3
    <2> HIDE DEF e
    <2>2. QED
      BY <2>1
  <1>5. QED
    BY <1>1, <1>4 DEF IkcpInv

LEMMA IkcpNext ==
  ASSUME IkcpInv, [Next]_vars
  PROVE  IkcpInv'
  <1>1. CASE UNCHANGED vars
    <2>1. /\ UNCHANGED <<sndVars, rcvVars, sent, got>> /\ net' = net /\ delayed' = delayed /\ faults' = faults
      BY <1>1 DEF vars, netVars
    <2>2. faults \in 0..MaxFaults
      BY DEF IkcpInv, IkcpTypes
    <2>3. QED
      BY <2>1, <2>2, IkcpNetwork
  <1>2. ASSUME NEW n \in Nodes, NEW c \in UNION {{plan[n][i] : i \in DOMAIN plan[n]} : plan \in Plans},
               Send(n, c)
        PROVE  IkcpInv'
    <2>1. PICK plan \in Plans : c \in {plan[n][i] : i \in DOMAIN plan[n]}
      BY <1>2
    <2>2. plan[n] \in Seq(Nat \ {0})
      BY <2>1, IkcpAssumption
    <2>3. c \in Nat \ {0}
      BY <2>1, <2>2
    <2>4. QED
      BY <1>2, <2>3, IkcpSend
  <1>3. ASSUME NEW n \in Nodes, Recv(n) PROVE IkcpInv'
    BY <1>3, IkcpRecv
  <1>4. ASSUME NEW n \in Nodes, NEW cwnd \in 0..SndWnd, NEW late \in SUBSET snd_buf[n],
               NEW expired \in BOOLEAN, Flush(n, cwnd, late, expired)
        PROVE  IkcpInv'
    BY <1>4, IkcpFlush
  <1>5. ASSUME NEW y \in net \union delayed, Input(y) PROVE IkcpInv'
    BY <1>5, IkcpInput
  <1>6. ASSUME NEW y \in net \union delayed, Lose(y) PROVE IkcpInv'
    <2>1. faults \in 0..MaxFaults
      BY DEF IkcpInv, IkcpTypes
    <2>2. /\ UNCHANGED <<sndVars, rcvVars, sent, got>>
          /\ net' \subseteq net \union delayed /\ delayed' \subseteq net \union delayed
      BY <1>6 DEF Lose
    <2>3. faults' = (IF Fresh(y) THEN faults + 1 ELSE faults) /\ faults' <= MaxFaults
      BY <1>6 DEF Lose
    <2>4. faults' \in 0..MaxFaults
      <3> HIDE DEF Fresh
      <3>1. QED
        BY <2>1, <2>3, Constants
    <2>5. QED
      BY <2>2, <2>4, IkcpNetwork
  <1>7. ASSUME NEW y \in net \union delayed, NEW copy \in BOOLEAN, Delay(y, copy) PROVE IkcpInv'
    <2>1. faults \in 0..MaxFaults
      BY DEF IkcpInv, IkcpTypes
    <2>2. /\ UNCHANGED <<sndVars, rcvVars, sent, got>>
          /\ net' \subseteq net \union delayed /\ delayed' \subseteq net \union delayed
      BY <1>7 DEF Delay
    <2>3. faults' \in 0..MaxFaults
      BY <1>7, <2>1, Constants DEF Delay
    <2>4. QED
      BY <2>2, <2>3, IkcpNetwork
  <1>8. QED
    BY <1>1, <1>2, <1>3, <1>4, <1>5, <1>6, <1>7 DEF Next

-----------------------------------------------------------------------------
(***************************************************************************)
(* The theorems                                                            *)
(***************************************************************************)

\* Each end holds the part of one stream that its numbers say, and every packet
\* under way, however old, tells the truth about it.
THEOREM IkcpInvariance == Spec => []IkcpInv
  <1>1. Init => IkcpInv
    BY IkcpInit
  <1>2. IkcpInv /\ [Next]_vars => IkcpInv'
    BY IkcpNext
  <1>3. QED
    BY <1>1, <1>2, PTL DEF Spec

\* What lies between two numbers is not more than there are numbers.
LEMMA NotMoreThanNumbers ==
  ASSUME NEW st, NEW nxt \in Nat, NEW buf \in SUBSET Segment,
         \A s \in buf : nxt <= s.sn /\ s.sn < nxt + RcvWnd /\ Holds(st, s)
  PROVE  Cardinality(buf) <= RcvWnd
  <1> DEFINE T == nxt..(nxt + RcvWnd - 1)
             f == [s \in buf |-> s.sn]
  <1>1. IsFiniteSet(T) /\ Cardinality(T) = RcvWnd
    <2>1. nxt \in Int /\ nxt + RcvWnd - 1 \in Int /\ ~(nxt > nxt + RcvWnd - 1)
          /\ (nxt + RcvWnd - 1) - nxt + 1 = RcvWnd
      BY Constants
    <2>2. QED
      BY <2>1, FS_Interval
  <1>2. \A s \in buf : s.sn \in T
    <2>1. ASSUME NEW s \in buf PROVE s.sn \in T
      <3>1. s.sn \in Nat /\ nxt <= s.sn /\ s.sn < nxt + RcvWnd
        BY PayloadFields
      <3>2. QED
        BY <3>1, Constants
    <2>2. QED
      BY <2>1
  <1>3. f \in Injection(buf, T)
    <2>1. f \in [buf -> T]
      BY <1>2
    <2>2. \A s, t \in buf : s.sn = t.sn => s = t
      BY SameSegment
    <2>3. IsInjective(f)
      BY <2>2 DEF IsInjective
    <2>4. QED
      BY <2>1, <2>3 DEF Injection
  <1> HIDE DEF T, f
  <1>4. QED
    BY <1>1, <1>3, FS_Injection

\* Types, and the windows: neither end stores more segments than its window.
THEOREM IkcpSafety == Spec => []Inv
  <1>1. IkcpInv => Inv
    <2>1. SUFFICES ASSUME IkcpInv PROVE Inv
      OBVIOUS
    <2>2. IkcpTypes
      BY <2>1 DEF IkcpInv
    <2>3. TypeOK
      BY <2>2 DEF IkcpTypes, TypeOK, PacketSet
    <2>4. ASSUME NEW n \in Nodes
          PROVE  /\ Len(rcv_queue[n]) <= RcvWnd /\ Cardinality(rcv_buf[n]) <= RcvWnd
                 /\ snd_nxt[n] - snd_una[n] <= SndWnd
      <3>1. PICK st, su \in Seq(Payload) : Direction(n, Peer(n), st) /\ Direction(Peer(n), n, su)
        BY <2>1, GetDirections
      <3>2. Sender(st, snd_queue[n], snd_buf[n], snd_nxt[n], snd_una[n])
        BY <3>1 DEF Direction
      <3>3. \E ms, limit, msgs : Receiver(su, ms, limit, rcv_nxt[n], rcv_queue[n], rcv_buf[n], msgs)
        BY <3>1 DEF Direction
      <3>4. snd_nxt[n] - snd_una[n] <= SndWnd
        BY <3>2, Constants DEF Sender
      <3>5. /\ rcv_nxt[n] \in Nat /\ rcv_buf[n] \in SUBSET Segment /\ Len(rcv_queue[n]) <= RcvWnd
            /\ \A s \in rcv_buf[n] : rcv_nxt[n] <= s.sn /\ s.sn < rcv_nxt[n] + RcvWnd /\ Holds(su, s)
        BY <3>3 DEF Receiver
      <3>6. Cardinality(rcv_buf[n]) <= RcvWnd
        BY <3>5, NotMoreThanNumbers
      <3>7. QED
        BY <3>4, <3>5, <3>6
    <2>5. QED
      BY <2>3, <2>4 DEF Inv, WindowKept
  <1>2. QED
    BY <1>1, IkcpInvariance, PTL

\* The messages that ikcp_recv returns are those that ikcp_send was given: whole,
\* once each, in order, whatever the network loses, repeats and reorders.
THEOREM IkcpDelivered == Spec => []DeliveredInOrder
  <1>1. IkcpInv => DeliveredInOrder
    <2>1. SUFFICES ASSUME IkcpInv, NEW n \in Nodes
                   PROVE  /\ Len(got[n]) <= Len(sent[Peer(n)])
                          /\ \A m \in DOMAIN got[n] : got[n][m] = Pieces(m, sent[Peer(n)][m])
      BY DEF DeliveredInOrder
    <2>2. PICK su \in Seq(Payload) : Direction(Peer(n), n, su)
      BY <2>1, GetDirections
    <2>3. QED
      BY <2>2 DEF Direction, Receiver
  <1>2. QED
    BY <1>1, IkcpInvariance, PTL

\* The sender forgets a segment only when the receiver has it.
THEOREM IkcpAcked == Spec => []AckedIsReceived
  <1>1. IkcpInv => AckedIsReceived
    <2>1. SUFFICES ASSUME IkcpInv, NEW n \in Nodes, NEW sn \in Start..(snd_nxt[n] - 1)
                   PROVE  \/ \E s \in snd_buf[n] : s.sn = sn
                          \/ sn < rcv_nxt[Peer(n)]
                          \/ \E s \in rcv_buf[Peer(n)] : s.sn = sn
      BY DEF AckedIsReceived
    <2>2. PICK st \in Seq(Payload) : Direction(n, Peer(n), st)
      BY <2>1, GetDirections
    <2>3. QED
      BY <2>2 DEF Direction, Kept, Has
  <1>2. QED
    BY <1>1, IkcpInvariance, PTL
=============================================================================
