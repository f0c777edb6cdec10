----------------------------- MODULE FilesProofs -----------------------------
(***************************************************************************)
(* Proofs about Files: its invariants hold for any number of threads,      *)
(* descriptors, directory entries and calls.                               *)
(***************************************************************************)
EXTENDS Files, FiniteSetTheorems, WellFoundedInduction, TLAPS

-----------------------------------------------------------------------------
(***************************************************************************)
(* Queues of requests                                                      *)
(***************************************************************************)

\* The values that occur in s
Values(s) == {s[i] : i \in DOMAIN s}

\* The empty queue is of any type.
LEMMA EmptyIsSeq ==
  ASSUME NEW S
  PROVE  <<>> \in Seq(S)
  OBVIOUS

\* The elements of a sequence over S are in S.
LEMMA Elements ==
  ASSUME NEW S, NEW q \in Seq(S)
  PROVE  \A i \in DOMAIN q : q[i] \in S
  OBVIOUS

\* Append adds one value.
LEMMA AppendValues ==
  ASSUME NEW S, NEW q \in Seq(S), NEW e \in S
  PROVE  Append(q, e) \in Seq(S) /\ Values(Append(q, e)) = Values(q) \cup {e}
  <1> DEFINE a == Append(q, e)
  <1>1. /\ a \in Seq(S)
        /\ DOMAIN a = 1..(Len(q) + 1)
        /\ DOMAIN q = 1..Len(q)
        /\ Len(q) \in Nat
        /\ \A i \in 1..Len(q) : a[i] = q[i]
        /\ a[Len(q) + 1] = e
    OBVIOUS
  <1> HIDE DEF a
  <1>2. DOMAIN q \subseteq DOMAIN a /\ Len(q) + 1 \in DOMAIN a
    BY <1>1
  <1>3. \A i \in DOMAIN a : i \in DOMAIN q \/ i = Len(q) + 1
    BY <1>1
  <1>4. \A i \in DOMAIN q : a[i] = q[i]
    BY <1>1
  <1>5. QED
    BY <1>1, <1>2, <1>3, <1>4 DEF Values, a

-----------------------------------------------------------------------------
(***************************************************************************)
(* The inductive invariant                                                 *)
(***************************************************************************)

Distinct(q) == \A i, j \in DOMAIN q : q[i] = q[j] => i = j

\* A request is in one place.
PlaceInv ==
  /\ Distinct(wq) /\ Distinct(doneq)
  /\ Values(wq) \cap running = {}
  /\ worked \cap Values(doneq) = {}
  /\ InPool \cap InLoop = {}

\* The requests in flight are those of the pending promises. A request for an
\* object keeps it, and an object is made by a call that was answered.
RequestInv ==
  /\ \A p \in Ops : prom[p] = "pending" <=> p \in InFlight
  /\ \A p \in Ops : p \notin InFlight => req[p] = NoReq
  /\ \A p \in Ops : p > ops => prom[p] = "none"
  /\ \A p \in Ops : prom[p] # "settled" => obj[p].kind = None
  /\ \A p \in InFlight :
       \/ req[p].type \in Makers \cup Plain /\ req[p].on = None
       \/ req[p].type \in OfFile /\ req[p].on \in Ops /\ obj[req[p].on].kind = "file"
       \/ req[p].type \in OfDir /\ req[p].on \in Ops /\ obj[req[p].on].kind = "dir"
  /\ \A p \in InPool : ~req[p].ok /\ req[p].got = None

\* The requests that are to close an object
Closes(p) == req[p].type \in {"close", "closedir"}

\* A close() of o has returned and is not yet called back.
Closed(o) == \E p \in InLoop : req[p].on = o /\ Closes(p)

\* Requests share an object only when it is a file and none is to close it.
ShareInv ==
  \A p, q \in InFlight :
    p # q /\ req[p].on = req[q].on /\ req[p].on # None =>
      obj[req[p].on].kind = "file" /\ ~Closes(p)

\* A request uses the descriptor of its object; an object has its descriptor
\* until a close() has returned, a file that was opened until it has an object,
\* and every descriptor in use belongs to one of them.
FdInv ==
  /\ \A p \in InFlight : req[p].on # None => req[p].fd = obj[req[p].on].fd
  /\ \A p \in InFlight : req[p].type = "closedir" => req[p].fd # None
  /\ \A o \in Objects : obj[o].fd = None \/ tab[obj[o].fd] = o \/ Closed(o)
  /\ \A p \in InLoop : Closes(p) => \A d \in Fds : tab[d] # req[p].on
  /\ \A p \in InLoop :
       req[p].type \in Makers /\ req[p].ok => req[p].fd # None /\ tab[req[p].fd] = p
  /\ \A d \in Fds : tab[d] \in Ops =>
       \/ obj[tab[d]].kind # None /\ obj[tab[d]].fd = d
       \/ tab[d] \in InLoop /\ req[tab[d]].type \in Makers /\ req[tab[d]].ok /\ req[tab[d]].fd = d

\* An entry was read for p and is not yet reported.
HasRead(p) == req[p].type = "next" /\ req[p].ok /\ req[p].got = 1

\* The uv_dir_t exists as long as it is used; the position in a directory is
\* that of the last entry reported, or one further.
DirInv ==
  /\ \A p \in InFlight : req[p].type = "next" => obj[req[p].on].live
  /\ \A p \in InPool : req[p].type = "closedir" => obj[req[p].on].live
  /\ \A o \in Objects : obj[o].kind = "dir" /\ obj[o].fd # None /\ ~obj[o].live => Closed(o)
  /\ \A p \in InLoop : req[p].type = "next" /\ req[p].ok => req[p].got \in {0, 1}
  /\ \A p \in InLoop : HasRead(p) =>
       obj[req[p].on].dirent = obj[req[p].on].pos
         /\ obj[req[p].on].pos = Len(obj[req[p].on].seen) + 1
  /\ \A p \in InLoop :
       req[p].type = "next" /\ req[p].ok /\ req[p].got = 0 => obj[req[p].on].pos = Entries
  /\ \A o \in Objects :
       /\ \A i \in DOMAIN obj[o].seen : obj[o].seen[i] = i
       /\ obj[o].done => Len(obj[o].seen) = Entries
       /\ obj[o].pos = Len(obj[o].seen) \/ \E p \in InLoop : req[p].on = o /\ HasRead(p)

\* What holds as long as the program uses no object that is being closed, and no
\* close() failed
CleanInv == ShareInv /\ FdInv /\ DirInv /\ OwnDescriptor

FilesInv ==
  /\ TypeOK
  /\ FaultIsMisuse
  /\ fault = "none" => PlaceInv /\ RequestInv
  /\ stale = {} => CleanInv

-----------------------------------------------------------------------------
(***************************************************************************)
(* Types and descriptors                                                   *)
(***************************************************************************)

Reqs == [type : Types \cup {None}, on : Ops \cup {None}, fd : Fds \cup {None},
         ok : BOOLEAN, got : 0..MaxOps \cup {None, Loaded}]

Objs == [kind : Kinds \cup {None}, fd : Fds \cup {None}, pos : 0..Entries,
         dirent : 1..Entries \cup {None}, done : BOOLEAN, live : BOOLEAN,
         seen : Seq(1..Entries)]

\* The parts of TypeOK
PoolTypes ==
  /\ wq \in Seq(Ops)
  /\ running \subseteq Ops
  /\ worked \subseteq Ops
  /\ doneq \in Seq(Ops)

RequestTypes ==
  /\ ops \in 0..MaxOps
  /\ req \in [Ops -> Reqs]
  /\ prom \in [Ops -> {"none", "pending", "settled"}]

ObjectTypes ==
  /\ obj \in [Ops -> Objs]
  /\ held \subseteq Objects
  /\ tab \in [Fds -> Ops \cup {None, Loaded}]
  /\ stale \subseteq Ops
  /\ fault \in {"none", "nullDir", "freedDir", "nullName"}

LEMMA TypeParts ==
  /\ TypeOK <=> PoolTypes /\ RequestTypes /\ ObjectTypes
  /\ TypeOK' <=> PoolTypes' /\ RequestTypes' /\ ObjectTypes'
  BY DEF TypeOK, PoolTypes, RequestTypes, ObjectTypes, Reqs, Objs

\* The names of the constants do not clash.
LEMMA Names ==
  /\ MaxOps \in Nat /\ Entries \in Nat /\ MaxFds \in Nat
  /\ None \notin Nat /\ None \notin Ops /\ None \notin Fds /\ None \notin Types
  /\ None # "file" /\ None # "dir"
  /\ Loaded \notin Ops /\ Loaded # None
  /\ None # 0 /\ None # 1
  BY FilesAssumption DEF Ops, Fds, Kinds

LEMMA NoReqType == NoReq \in Reqs /\ NoReq.type = None /\ NoReq.on = None
  BY DEF NoReq, Reqs

LEMMA NoObjType == NoObj \in Objs /\ NoObj.kind = None /\ NoObj.fd = None
  <1>1. 0 \in 0..Entries
    BY Names
  <1>2. <<>> \in Seq(1..Entries)
    BY EmptyIsSeq
  <1>3. QED
    BY <1>1, <1>2 DEF NoObj, Objs

\* There is a lowest free descriptor.
LEMMA LowestFree ==
  ASSUME FreeFds # {}
  PROVE  Lowest \in FreeFds /\ Lowest \in Fds /\ tab[Lowest] = None
  <1>1. FreeFds \subseteq Nat
    BY Names DEF FreeFds, Fds
  <1> DEFINE R == OpToRel(<, Nat)
  <1>2. PICK d \in FreeFds : \A e \in FreeFds : ~(<<e, d>> \in R)
    BY <1>1, NatLessThanWellFounded, WFMin
  <1>r. R = {ss \in Nat \X Nat : ss[1] < ss[2]}
    BY Zenon DEF OpToRel
  <1>l. ASSUME NEW a \in Nat, NEW b \in Nat, a < b PROVE <<a, b>> \in R
    BY <1>r, <1>l, Zenon
  <1> HIDE DEF R
  <1>3. \A e \in FreeFds : d <= e
    <2>1. \A e \in FreeFds : ~(e < d)
      BY <1>1, <1>2, <1>l
    <2>2. QED
      BY <1>1, <2>1
  <1>4. Lowest \in FreeFds
    BY <1>3 DEF Lowest
  <1>5. QED
    BY <1>4 DEF FreeFds

-----------------------------------------------------------------------------
(***************************************************************************)
(* Where a request is                                                      *)
(***************************************************************************)

LEMMA PlacesOf ==
  /\ InPool = Values(wq) \cup running /\ InLoop = worked \cup Values(doneq)
  /\ InPool' = Values(wq') \cup running' /\ InLoop' = worked' \cup Values(doneq')
  BY DEF InPool, InLoop, Values

LEMMA PlacesType ==
  ASSUME PoolTypes
  PROVE  InPool \subseteq Ops /\ InLoop \subseteq Ops /\ InFlight \subseteq Ops
  <1>1. Values(wq) \subseteq Ops /\ Values(doneq) \subseteq Ops
    BY Elements DEF PoolTypes, Values
  <1>2. QED
    BY <1>1, PlacesOf DEF PoolTypes, InFlight

\* A new last element keeps a queue without duplicates.
LEMMA AppendDistinct ==
  ASSUME NEW S, NEW q \in Seq(S), NEW p \in S, Distinct(q), p \notin Values(q)
  PROVE  /\ Append(q, p) \in Seq(S)
         /\ Distinct(Append(q, p))
         /\ Values(Append(q, p)) = Values(q) \cup {p}
  <1> DEFINE a == Append(q, p)
  <1>1. /\ a \in Seq(S)
        /\ DOMAIN a = 1..(Len(q) + 1)
        /\ DOMAIN q = 1..Len(q)
        /\ Len(q) \in Nat
        /\ \A i \in 1..Len(q) : a[i] = q[i]
        /\ a[Len(q) + 1] = p
    OBVIOUS
  <1>2. Values(a) = Values(q) \cup {p}
    BY AppendValues
  <1> HIDE DEF a
  <1>3. \A i \in DOMAIN q : q[i] # p
    BY DEF Values
  <1>4. Distinct(a)
    BY <1>1, <1>3 DEF Distinct
  <1>5. QED
    BY <1>1, <1>2, <1>4 DEF a

\* The tail of a queue without duplicates is the queue without its head.
LEMMA TailDistinct ==
  ASSUME NEW S, NEW q \in Seq(S), Distinct(q), q # <<>>
  PROVE  /\ Head(q) \in S /\ Head(q) \in Values(q)
         /\ Tail(q) \in Seq(S)
         /\ Distinct(Tail(q))
         /\ Values(Tail(q)) = Values(q) \ {Head(q)}
  <1> DEFINE t == Tail(q)
  <1>1. /\ Len(q) \in Nat \ {0}
        /\ DOMAIN q = 1..Len(q)
        /\ t \in Seq(S)
        /\ DOMAIN t = 1..(Len(q) - 1)
        /\ \A i \in DOMAIN t : t[i] = q[i + 1]
        /\ Head(q) = q[1]
        /\ Head(q) \in S
    OBVIOUS
  <1> HIDE DEF t
  <1>2. Distinct(t)
    <2>1. SUFFICES ASSUME NEW i \in DOMAIN t, NEW j \in DOMAIN t, t[i] = t[j] PROVE i = j
      BY DEF Distinct
    <2>2. i + 1 \in DOMAIN q /\ j + 1 \in DOMAIN q /\ q[i + 1] = q[j + 1]
      BY <1>1, <2>1
    <2>3. i + 1 = j + 1
      BY <2>2 DEF Distinct
    <2>4. QED
      BY <1>1, <2>3
  <1>3. ASSUME NEW v \in Values(t) PROVE v \in Values(q) /\ v # Head(q)
    <2>1. PICK i \in DOMAIN t : v = t[i]
      BY <1>3 DEF Values
    <2>2. i + 1 \in DOMAIN q /\ v = q[i + 1] /\ 1 \in DOMAIN q /\ i + 1 # 1
      BY <1>1, <2>1
    <2>3. QED
      BY <1>1, <2>2 DEF Values, Distinct
  <1>4. ASSUME NEW v \in Values(q), v # Head(q) PROVE v \in Values(t)
    <2>1. PICK i \in DOMAIN q : v = q[i]
      BY <1>4 DEF Values
    <2>2. i # 1
      BY <1>1, <1>4, <2>1
    <2>3. i - 1 \in DOMAIN t /\ t[i - 1] = v
      BY <1>1, <2>1, <2>2
    <2>4. QED
      BY <2>3 DEF Values
  <1>5. 1 \in DOMAIN q
    BY <1>1
  <1>6. Head(q) \in Values(q)
    BY <1>1, <1>5 DEF Values
  <1>7. QED
    BY <1>1, <1>2, <1>3, <1>4, <1>6 DEF t

\* uv__work_submit
LEMMA SubmitPlaces ==
  ASSUME PoolTypes, PlaceInv, NEW p \in Ops, p \notin InFlight,
         wq' = Append(wq, p), UNCHANGED <<running, worked, doneq>>
  PROVE  PoolTypes' /\ PlaceInv' /\ InPool' = InPool \cup {p} /\ InLoop' = InLoop
  <1>1. p \notin Values(wq) /\ p \notin running /\ p \notin InLoop
    BY PlacesOf DEF InFlight
  <1>2. /\ Append(wq, p) \in Seq(Ops) /\ Distinct(Append(wq, p))
        /\ Values(Append(wq, p)) = Values(wq) \cup {p}
    BY <1>1, AppendDistinct DEF PoolTypes, PlaceInv
  <1>3. InPool' = InPool \cup {p} /\ InLoop' = InLoop
    BY <1>2, PlacesOf
  <1>4. PoolTypes'
    BY <1>2 DEF PoolTypes
  <1>5. PlaceInv'
    BY <1>1, <1>2, <1>3 DEF PlaceInv
  <1>6. QED
    BY <1>3, <1>4, <1>5

\* worker
LEMMA TakePlaces ==
  ASSUME PoolTypes, PlaceInv, wq # <<>>, running' = running \cup {Head(wq)},
         wq' = Tail(wq), UNCHANGED <<worked, doneq>>
  PROVE  PoolTypes' /\ PlaceInv' /\ InPool' = InPool /\ InLoop' = InLoop
  <1>1. /\ Head(wq) \in Ops /\ Head(wq) \in Values(wq)
        /\ Tail(wq) \in Seq(Ops) /\ Distinct(Tail(wq))
        /\ Values(Tail(wq)) = Values(wq) \ {Head(wq)}
    BY TailDistinct DEF PoolTypes, PlaceInv
  <1>2. InPool' = InPool /\ InLoop' = InLoop
    BY <1>1, PlacesOf
  <1>3. PoolTypes'
    BY <1>1 DEF PoolTypes
  <1>4. PlaceInv'
    BY <1>1, <1>2 DEF PlaceInv
  <1>5. QED
    BY <1>2, <1>3, <1>4

\* The system call of p returns.
LEMMA ReturnsPlaces ==
  ASSUME PoolTypes, PlaceInv, NEW p \in Ops, Returns(p)
  PROVE  /\ PoolTypes' /\ PlaceInv'
         /\ p \in InPool /\ p \notin InLoop
         /\ InPool' = InPool \ {p} /\ InLoop' = InLoop \cup {p}
  <1>1. /\ p \in running /\ running' = running \ {p} /\ worked' = worked \cup {p}
        /\ UNCHANGED <<wq, doneq>>
    BY DEF Returns
  <1>2. p \in InPool /\ p \notin InLoop /\ p \notin Values(wq) /\ p \notin Values(doneq)
    BY <1>1, PlacesOf DEF PlaceInv
  <1>3. InPool' = InPool \ {p} /\ InLoop' = InLoop \cup {p}
    BY <1>1, <1>2, PlacesOf
  <1>4. PoolTypes' /\ PlaceInv'
    BY <1>1, <1>2, <1>3 DEF PoolTypes, PlaceInv
  <1>5. QED
    BY <1>2, <1>3, <1>4

LEMMA PostPlaces ==
  ASSUME PoolTypes, PlaceInv, NEW p \in Ops, Post(p)
  PROVE  PoolTypes' /\ PlaceInv' /\ InPool' = InPool /\ InLoop' = InLoop
  <1>1. /\ p \in worked /\ worked' = worked \ {p} /\ doneq' = Append(doneq, p)
        /\ UNCHANGED <<wq, running>>
    BY DEF Post
  <1>2. p \notin Values(doneq)
    BY <1>1 DEF PlaceInv
  <1>3. /\ Append(doneq, p) \in Seq(Ops) /\ Distinct(Append(doneq, p))
        /\ Values(Append(doneq, p)) = Values(doneq) \cup {p}
    BY <1>2, AppendDistinct DEF PoolTypes, PlaceInv
  <1>4. InPool' = InPool /\ InLoop' = InLoop
    BY <1>1, <1>3, PlacesOf
  <1>5. PoolTypes' /\ PlaceInv'
    BY <1>1, <1>3, <1>4 DEF PoolTypes, PlaceInv
  <1>6. QED
    BY <1>4, <1>5

LEMMA CalledPlaces ==
  ASSUME PoolTypes, PlaceInv, NEW p \in Ops, Called(p)
  PROVE  /\ PoolTypes' /\ PlaceInv'
         /\ p \in InLoop /\ p \notin InPool
         /\ InPool' = InPool /\ InLoop' = InLoop \ {p}
  <1>1. /\ doneq # <<>> /\ p = Head(doneq) /\ doneq' = Tail(doneq)
        /\ UNCHANGED <<wq, running, worked>>
    BY DEF Called
  <1>2. /\ Head(doneq) \in Values(doneq)
        /\ Tail(doneq) \in Seq(Ops) /\ Distinct(Tail(doneq))
        /\ Values(Tail(doneq)) = Values(doneq) \ {Head(doneq)}
    BY <1>1, TailDistinct DEF PoolTypes, PlaceInv
  <1>3. p \in InLoop /\ p \notin InPool /\ p \notin worked
    BY <1>1, <1>2, PlacesOf DEF PlaceInv
  <1>4. InPool' = InPool /\ InLoop' = InLoop \ {p}
    BY <1>1, <1>2, <1>3, PlacesOf
  <1>5. PoolTypes' /\ PlaceInv'
    BY <1>1, <1>2, <1>4 DEF PoolTypes, PlaceInv
  <1>6. QED
    BY <1>3, <1>4, <1>5

-----------------------------------------------------------------------------
(***************************************************************************)
(* Calls                                                                   *)
(***************************************************************************)

\* What a call may ask for
Proper(type, o, fd) ==
  \/ type \in Makers \cup Plain /\ o = None /\ fd = None
  \/ type \in OfFile /\ o \in Ops /\ obj[o].kind = "file" /\ fd = obj[o].fd
  \/ type \in OfDir /\ o \in Ops /\ obj[o].kind = "dir" /\ fd = obj[o].fd /\ fd # None

\* A call that overlaps with no other on its object keeps the invariant.
LEMMA SubmitStep ==
  ASSUME FilesInv, NEW type, NEW o, NEW fd, Submit(type, o, fd), Proper(type, o, fd),
         stale' \subseteq Ops, stale \subseteq stale',
         stale' = {} => o = None \/ ~Overlaps(o, type),
         type = "next" => obj[o].live
  PROVE  FilesInv'
  <1> DEFINE p == ops + 1
             r == [NoReq EXCEPT !.type = type, !.on = o, !.fd = fd]
  <1>1. /\ fault = "none" /\ ops < MaxOps /\ ops' = p
        /\ req' = [req EXCEPT ![p] = r]
        /\ wq' = Append(wq, p)
        /\ prom' = [prom EXCEPT ![p] = "pending"]
        /\ UNCHANGED <<running, worked, doneq, obj, held, tab, fault>>
    BY DEF Submit
  <1>2. PoolTypes /\ RequestTypes /\ ObjectTypes /\ PlaceInv /\ RequestInv
    BY <1>1, TypeParts DEF FilesInv
  <1>3. p \in Ops /\ p > ops /\ p \in 0..MaxOps /\ \A q \in Ops : q > p => q > ops /\ q # p
    BY <1>1, <1>2, Names DEF RequestTypes, Ops
  <1>4. obj[o].fd \in Fds \cup {None} \/ o \notin Ops
    BY <1>2 DEF ObjectTypes, Objs
  <1>5. /\ type \in Types /\ o \in Ops \cup {None} /\ fd \in Fds \cup {None}
    BY <1>4 DEF Proper, Types
  <1>6. /\ r \in Reqs /\ r.type = type /\ r.on = o /\ r.fd = fd /\ r.ok = FALSE /\ r.got = None
    BY <1>5 DEF NoReq, Reqs
  <1> HIDE DEF p, r
  <1>7. p \notin InFlight /\ obj[p].kind = None
    BY <1>2, <1>3 DEF RequestInv
  <1>8. PoolTypes' /\ PlaceInv' /\ InPool' = InPool \cup {p} /\ InLoop' = InLoop
    BY <1>1, <1>2, <1>3, <1>7, SubmitPlaces
  <1>9. InFlight' = InFlight \cup {p} /\ InFlight \subseteq Ops /\ InLoop \subseteq InFlight /\ InPool \subseteq InFlight
    BY <1>2, <1>8, PlacesType DEF InFlight
  <1>10. req'[p] = r /\ \A q \in Ops : q # p => req'[q] = req[q]
    BY <1>1, <1>2, <1>3 DEF RequestTypes
  <1>11. RequestTypes'
    BY <1>1, <1>2, <1>3, <1>6 DEF RequestTypes
  <1>12. ObjectTypes'
    BY <1>1, <1>2 DEF ObjectTypes, Objects
  <1>13. RequestInv'
    <2>1. \A q \in Ops : prom'[q] = "pending" <=> q \in InFlight'
      BY <1>1, <1>2, <1>3, <1>9 DEF RequestInv, RequestTypes
    <2>2. \A q \in Ops : q \notin InFlight' => req'[q] = NoReq
      BY <1>2, <1>9, <1>10 DEF RequestInv
    <2>3. \A q \in Ops : q > ops' => prom'[q] = "none"
      BY <1>1, <1>2, <1>3 DEF RequestInv, RequestTypes
    <2>4. \A q \in Ops : prom'[q] # "settled" => obj'[q].kind = None
      BY <1>1, <1>2, <1>3, <1>7 DEF RequestInv, RequestTypes
    <2>5. ASSUME NEW q \in InFlight'
          PROVE  \/ req'[q].type \in Makers \cup Plain /\ req'[q].on = None
                 \/ req'[q].type \in OfFile /\ req'[q].on \in Ops /\ obj'[req'[q].on].kind = "file"
                 \/ req'[q].type \in OfDir /\ req'[q].on \in Ops /\ obj'[req'[q].on].kind = "dir"
      <3>1. CASE q = p
        BY <1>1, <1>6, <1>10, <3>1 DEF Proper
      <3>2. CASE q # p
        <4>1. q \in InFlight /\ req'[q] = req[q]
          BY <1>9, <1>10, <2>5, <3>2
        <4>2. QED
          BY <1>1, <1>2, <4>1 DEF RequestInv
      <3>3. QED
        BY <3>1, <3>2
    <2>6. \A q \in InPool' : ~req'[q].ok /\ req'[q].got = None
      BY <1>2, <1>6, <1>8, <1>9, <1>10 DEF RequestInv
    <2>7. QED
      BY <2>1, <2>2, <2>3, <2>4, <2>5, <2>6 DEF RequestInv
  <1>14. ASSUME stale' = {} PROVE CleanInv'
    <2>1. stale = {} /\ ShareInv /\ FdInv /\ DirInv /\ OwnDescriptor
      BY <1>14 DEF FilesInv, CleanInv
    <2>2. \A q \in InFlight : req'[q] = req[q]
      BY <1>7, <1>9, <1>10
    <2>3. \A q \in InLoop : req'[q] = req[q]
      BY <1>9, <2>2
    <2>4. ASSUME NEW q \in InFlight, req[q].on = o, o # None
          PROVE  obj[o].kind = "file" /\ type # "close" /\ req[q].type # "close"
      <3>1. obj[o].kind # "dir" /\ type # "close" /\ req[q].type # "close"
        BY <1>14, <2>4 DEF Overlaps
      <3>2. obj[o].kind = "file"
        BY <2>4, <3>1 DEF Proper
      <3>3. QED
        BY <3>1, <3>2
    <2>5. \A x : Closed(x)' <=> Closed(x)
      BY <1>8, <2>3 DEF Closed, Closes
    <2>6. ShareInv'
      <3>1. SUFFICES ASSUME NEW q1 \in InFlight', NEW q2 \in InFlight', q1 # q2,
                            req'[q1].on = req'[q2].on, req'[q1].on # None
                     PROVE  obj'[req'[q1].on].kind = "file" /\ ~Closes(q1)'
        BY DEF ShareInv
      <3>2. CASE q1 # p /\ q2 # p
        BY <1>1, <1>9, <2>1, <2>2, <3>1, <3>2 DEF ShareInv, Closes
      <3>3. CASE q1 = p
        <4>1. q2 \in InFlight /\ req[q2].on = o /\ o # None /\ req'[q1] = r
          BY <1>6, <1>9, <1>10, <2>2, <3>1, <3>3
        <4>2. obj[o].kind = "file" /\ type # "close"
          BY <2>4, <4>1
        <4>3. type # "closedir"
          BY <4>1, <4>2, Names DEF Proper, OfFile, Makers, Plain
        <4>4. QED
          BY <1>1, <1>6, <4>1, <4>2, <4>3 DEF Closes
      <3>4. CASE q2 = p
        <4>1. q1 \in InFlight /\ req[q1].on = o /\ o # None /\ req'[q1] = req[q1]
          BY <1>6, <1>9, <1>10, <2>2, <3>1, <3>4
        <4>2. obj[o].kind = "file" /\ req[q1].type # "close"
          BY <2>4, <4>1
        <4>3. req[q1].type # "closedir"
          BY <1>2, <4>1, <4>2 DEF RequestInv, Makers, Plain, OfFile
        <4>4. QED
          BY <1>1, <4>1, <4>2, <4>3 DEF Closes
      <3>5. QED
        BY <3>2, <3>3, <3>4
    <2>7. FdInv'
      <3>1. \A q \in InFlight' : req'[q].on # None => req'[q].fd = obj'[req'[q].on].fd
        BY <1>1, <1>6, <1>9, <1>10, <2>1, <2>2 DEF FdInv, Proper
      <3>2. \A q \in InFlight' : req'[q].type = "closedir" => req'[q].fd # None
        BY <1>6, <1>9, <1>10, <2>1, <2>2 DEF FdInv, Proper, Makers, Plain, OfFile
      <3>3. \A x \in Objects' : obj'[x].fd = None \/ tab'[obj'[x].fd] = x \/ Closed(x)'
        BY <1>1, <2>1, <2>5 DEF FdInv, Objects
      <3>4. \A q \in InLoop' : Closes(q)' => \A d \in Fds : tab'[d] # req'[q].on
        BY <1>1, <1>8, <2>1, <2>3 DEF FdInv, Closes
      <3>5. \A q \in InLoop' :
              req'[q].type \in Makers /\ req'[q].ok => req'[q].fd # None /\ tab'[req'[q].fd] = q
        BY <1>1, <1>8, <2>1, <2>3 DEF FdInv
      <3>6. \A d \in Fds : tab'[d] \in Ops =>
              \/ obj'[tab'[d]].kind # None /\ obj'[tab'[d]].fd = d
              \/ /\ tab'[d] \in InLoop' /\ req'[tab'[d]].type \in Makers
                 /\ req'[tab'[d]].ok /\ req'[tab'[d]].fd = d
        BY <1>1, <1>8, <2>1, <2>3 DEF FdInv
      <3>7. QED
        BY <3>1, <3>2, <3>3, <3>4, <3>5, <3>6 DEF FdInv
    <2>8. DirInv'
      <3>1. type = "closedir" => obj[o].live
        <4>1. SUFFICES ASSUME type = "closedir", ~obj[o].live PROVE FALSE
          BY <1>2, <1>5 DEF ObjectTypes, Objs
        <4>2. o \in Ops /\ obj[o].kind = "dir" /\ obj[o].fd # None
          BY <4>1 DEF Proper, Makers, Plain, OfFile
        <4>3. Closed(o)
          BY <2>1, <4>1, <4>2, Names DEF DirInv, Objects
        <4>4. QED
          BY <1>9, <2>4, <4>2, <4>3, Names DEF Closed
      <3>2. \A q \in InFlight' : req'[q].type = "next" => obj'[req'[q].on].live
        BY <1>1, <1>6, <1>9, <1>10, <2>1, <2>2 DEF DirInv
      <3>3. \A q \in InPool' : req'[q].type = "closedir" => obj'[req'[q].on].live
        BY <1>1, <1>6, <1>8, <1>9, <1>10, <2>1, <2>2, <3>1 DEF DirInv
      <3>4. \A x \in Objects' : obj'[x].kind = "dir" /\ obj'[x].fd # None /\ ~obj'[x].live => Closed(x)'
        BY <1>1, <2>1, <2>5 DEF DirInv, Objects
      <3>5. \A q \in InLoop' : HasRead(q)' <=> HasRead(q)
        BY <1>8, <2>3 DEF HasRead
      <3>6. Objects' = Objects
        BY <1>1 DEF Objects
      <3>7. \A x \in Objects' :
              /\ \A i \in DOMAIN obj'[x].seen : obj'[x].seen[i] = i
              /\ obj'[x].done => Len(obj'[x].seen) = Entries
              /\ obj'[x].pos = Len(obj'[x].seen) \/ \E q \in InLoop' : req'[q].on = x /\ HasRead(q)'
        BY <1>1, <1>8, <2>1, <2>3, <3>5, <3>6 DEF DirInv
      <3>8. QED
        BY <1>1, <1>8, <2>1, <2>3, <3>2, <3>3, <3>4, <3>5, <3>7 DEF DirInv
    <2>9. OwnDescriptor'
      BY <1>3, <1>6, <1>10, <2>1 DEF OwnDescriptor
    <2>10. QED
      BY <2>6, <2>7, <2>8, <2>9 DEF CleanInv
  <1>15. QED
    BY <1>1, <1>8, <1>11, <1>12, <1>13, <1>14, TypeParts DEF FilesInv, FaultIsMisuse

\* A step that changes only where requests are, within the pool or within the
\* loop, or lets objects go
LEMMA FrameStep ==
  ASSUME FilesInv, fault = "none", PoolTypes', PlaceInv', InPool' = InPool, InLoop' = InLoop,
         UNCHANGED <<ops, req, prom, obj, tab, stale, fault>>, held' \subseteq held
  PROVE  FilesInv'
  <1>1. PoolTypes /\ RequestTypes /\ ObjectTypes /\ PlaceInv /\ RequestInv
    BY TypeParts DEF FilesInv
  <1>2. InFlight' = InFlight /\ Objects' = Objects
    BY DEF InFlight, Objects
  <1>3. RequestTypes' /\ ObjectTypes'
    BY <1>1, <1>2 DEF RequestTypes, ObjectTypes
  <1>4. RequestInv'
    BY <1>1, <1>2 DEF RequestInv
  <1>5. ASSUME stale' = {} PROVE CleanInv'
    <2>1. ShareInv /\ FdInv /\ DirInv /\ OwnDescriptor
      BY <1>5 DEF FilesInv, CleanInv
    <2>2. ShareInv' /\ FdInv'
      BY <1>2, <2>1 DEF ShareInv, FdInv, Closes, Closed
    <2>3. DirInv'
      BY <1>2, <2>1 DEF DirInv, HasRead, Closes, Closed
    <2>4. QED
      BY <2>1, <2>2, <2>3 DEF CleanInv, OwnDescriptor
  <1>6. QED
    BY <1>3, <1>4, <1>5, TypeParts DEF FilesInv, FaultIsMisuse

\* The calls of the program
LEMMA ProgramStep ==
  ASSUME FilesInv, Program
  PROVE  FilesInv'
  <1>t. RequestTypes /\ ObjectTypes /\ PoolTypes
    BY TypeParts DEF FilesInv
  <1>1. ASSUME NEW type \in Types, Call(type) PROVE FilesInv'
    <2>1. Proper(type, None, None) /\ Submit(type, None, None) /\ type # "next" /\ stale' = stale
      BY <1>1 DEF Call, Proper, Makers, Plain
    <2>2. stale' \subseteq Ops
      BY <1>t, <2>1 DEF ObjectTypes
    <2>3. QED
      BY <2>1, <2>2, SubmitStep
  <1>2. ASSUME NEW type \in Types, NEW o \in Ops, CallOn(o, type) PROVE FilesInv'
    <2>1. /\ Submit(type, o, obj[o].fd) /\ o \in held
          /\ type \in IF obj[o].kind = "file" THEN OfFile ELSE {"closedir"}
          /\ type = "closedir" => obj[o].fd # None
          /\ stale' = IF Overlaps(o, type) THEN stale \cup {o} ELSE stale
      BY <1>2 DEF CallOn
    <2>2. obj[o].kind \in {"file", "dir"}
      BY <1>t, <2>1 DEF ObjectTypes, Objects, Objs, Kinds
    <2>3. Proper(type, o, obj[o].fd) /\ type # "next"
      BY <2>1, <2>2 DEF Proper, OfFile, OfDir
    <2>4. stale' \subseteq Ops /\ stale \subseteq stale' /\ (stale' = {} => ~Overlaps(o, type))
      BY <1>t, <2>1 DEF ObjectTypes
    <2>5. QED
      BY <2>1, <2>3, <2>4, SubmitStep
  <1>3. ASSUME NEW o \in Ops, DirNext(o) PROVE FilesInv'
    <2>1. /\ Submit("next", o, obj[o].fd) /\ o \in held
          /\ obj[o].kind = "dir" /\ obj[o].fd # None /\ obj[o].live
          /\ stale' = IF Overlaps(o, "next") THEN stale \cup {o} ELSE stale
      BY <1>3 DEF DirNext
    <2>2. Proper("next", o, obj[o].fd)
      BY <2>1 DEF Proper, OfDir
    <2>3. stale' \subseteq Ops /\ stale \subseteq stale' /\ (stale' = {} => ~Overlaps(o, "next"))
      BY <1>t, <2>1 DEF ObjectTypes
    <2>4. QED
      BY <2>1, <2>2, <2>3, SubmitStep
  <1>4. ASSUME NEW o \in Ops, NextOfClosed(o) PROVE FilesInv'
    <2>1. /\ stale' = stale \cup {o} /\ fault' \in {"nullDir", "freedDir"}
          /\ UNCHANGED <<ops, req, wq, running, worked, doneq, prom, obj, held, tab>>
      BY <1>4 DEF NextOfClosed, poolVars
    <2>2. PoolTypes' /\ RequestTypes' /\ ObjectTypes'
      BY <1>t, <2>1 DEF PoolTypes, RequestTypes, ObjectTypes, Objects
    <2>3. QED
      BY <2>1, <2>2, TypeParts DEF FilesInv, FaultIsMisuse
  <1>5. ASSUME NEW o \in Ops, Drop(o) PROVE FilesInv'
    <2>1. /\ fault = "none" /\ held' \subseteq held
          /\ UNCHANGED <<ops, req, wq, running, worked, doneq, prom, obj, tab, stale, fault>>
      BY <1>5 DEF Drop, poolVars
    <2>2. PlaceInv /\ PoolTypes
      BY <1>t, <2>1 DEF FilesInv
    <2>3. InPool' = InPool /\ InLoop' = InLoop
      BY <2>1 DEF InPool, InLoop
    <2>4. PoolTypes' /\ PlaceInv'
      BY <2>1, <2>2, <2>3 DEF PoolTypes, PlaceInv
    <2>5. QED
      BY <2>1, <2>3, <2>4, FrameStep
  <1>6. QED
    BY <1>1, <1>2, <1>3, <1>4, <1>5 DEF Program

\* The end of an object
LEMMA FinalizeStep ==
  ASSUME FilesInv, NEW o \in Ops, Finalize(o)
  PROVE  FilesInv'
  <1>1. /\ fault = "none" /\ o \in Objects /\ o \notin held
        /\ \A p \in InFlight : req[p].on # o
        /\ tab' = IF obj[o].fd # None THEN [tab EXCEPT ![obj[o].fd] = None] ELSE tab
        /\ obj' = [obj EXCEPT ![o] = NoObj]
        /\ UNCHANGED <<ops, req, wq, running, worked, doneq, prom, held, stale, fault>>
    BY DEF Finalize, Referenced, poolVars
  <1>2. PoolTypes /\ RequestTypes /\ ObjectTypes /\ PlaceInv /\ RequestInv
    BY <1>1, TypeParts DEF FilesInv
  <1>3. InPool' = InPool /\ InLoop' = InLoop /\ InFlight' = InFlight
    BY <1>1 DEF InPool, InLoop, InFlight
  <1>4. InFlight \subseteq Ops /\ InLoop \subseteq InFlight
    BY <1>2, PlacesType DEF InFlight
  <1>5. PoolTypes' /\ PlaceInv' /\ RequestTypes'
    BY <1>1, <1>2, <1>3 DEF PoolTypes, PlaceInv, RequestTypes
  <1>6. obj'[o] = NoObj /\ (\A x \in Ops : x # o => obj'[x] = obj[x]) /\ obj' \in [Ops -> Objs]
    BY <1>1, <1>2, NoObjType DEF ObjectTypes
  <1>7. Objects' = Objects \ {o}
    BY <1>6, NoObjType DEF Objects
  <1>8. ObjectTypes'
    BY <1>1, <1>2, <1>6, <1>7 DEF ObjectTypes
  <1>9. RequestInv'
    <2>1. \A p \in Ops : prom'[p] # "settled" => obj'[p].kind = None
      BY <1>1, <1>2, <1>6, NoObjType DEF RequestInv
    <2>2. \A p \in InFlight : req[p].on \in Ops => obj'[req[p].on] = obj[req[p].on]
      BY <1>1, <1>6
    <2>3. QED
      BY <1>1, <1>2, <1>3, <2>1, <2>2 DEF RequestInv
  <1>10. ASSUME stale' = {} PROVE CleanInv'
    <2>1. ShareInv /\ FdInv /\ DirInv /\ OwnDescriptor
      BY <1>1, <1>10 DEF FilesInv, CleanInv
    <2>2. \A p \in InFlight : req[p].on # None => req[p].on \in Ops /\ obj'[req[p].on] = obj[req[p].on]
      BY <1>1, <1>2, <1>6 DEF RequestInv
    <2>3. ~Closed(o)
      BY <1>1, <1>4 DEF Closed
    <2>4. obj[o].fd = None \/ tab[obj[o].fd] = o
      BY <1>1, <2>1, <2>3 DEF FdInv
    <2>5. \A d \in Fds : tab[d] # o => tab'[d] = tab[d]
      BY <1>1, <1>2, <2>4 DEF ObjectTypes
    <2>6. \A d \in Fds : tab'[d] = tab[d] \/ tab'[d] = None
      BY <1>1, <1>2 DEF ObjectTypes
    <2>7. \A d \in Fds : tab'[d] # o
      <3>1. SUFFICES ASSUME NEW d \in Fds, tab[d] = o PROVE tab'[d] # o
        BY <2>5
      <3>2. obj[o].fd = d
        BY <1>1, <1>2, <1>4, <2>1, <3>1, NoObjType DEF FdInv, RequestInv, Objects
      <3>3. tab'[d] = None
        BY <1>1, <1>2, <3>1, <3>2, Names DEF ObjectTypes
      <3>4. QED
        BY <3>3, Names
    <2>8. \A x : Closed(x)' <=> Closed(x)
      BY <1>1, <1>3 DEF Closed, Closes
    <2>9. ShareInv'
      BY <1>1, <1>3, <2>1, <2>2 DEF ShareInv, Closes
    <2>10. FdInv'
      <3>1. \A p \in InFlight' : req'[p].on # None => req'[p].fd = obj'[req'[p].on].fd
        BY <1>1, <1>3, <2>1, <2>2 DEF FdInv
      <3>2. \A x \in Objects' : obj'[x].fd = None \/ tab'[obj'[x].fd] = x \/ Closed(x)'
        <4>1. SUFFICES ASSUME NEW x \in Objects, x # o, obj[x].fd # None, ~Closed(x)
                       PROVE  tab'[obj[x].fd] = x
          BY <1>6, <1>7, <2>8 DEF Objects
        <4>2. tab[obj[x].fd] = x /\ obj[x].fd \in Fds
          BY <1>2, <2>1, <4>1 DEF FdInv, ObjectTypes, Objects, Objs
        <4>3. QED
          BY <2>5, <4>1, <4>2
      <3>3. \A q \in InLoop' : Closes(q)' => \A d \in Fds : tab'[d] # req'[q].on
        <4>1. ASSUME NEW q \in InLoop, Closes(q), NEW d \in Fds PROVE tab'[d] # req[q].on
          <5>1. tab[d] # req[q].on
            BY <2>1, <4>1 DEF FdInv
          <5>2. req[q].on # None
            BY <1>2, <1>4, <4>1, Names DEF RequestInv, Closes, Makers, Plain
          <5>3. QED
            BY <2>6, <5>1, <5>2
        <4>2. QED
          BY <1>1, <1>3, <4>1 DEF Closes
      <3>4. ASSUME NEW q \in InLoop, req[q].type \in Makers, req[q].ok
            PROVE  req[q].fd # None /\ tab'[req[q].fd] = q
        <4>1. req[q].fd # None /\ tab[req[q].fd] = q /\ req[q].fd \in Fds
          BY <1>2, <1>4, <2>1, <3>4 DEF FdInv, RequestTypes, Reqs
        <4>2. q # o
          BY <1>1, <1>2, <1>4 DEF RequestInv, Objects
        <4>3. QED
          BY <2>5, <4>1, <4>2
      <3>5. ASSUME NEW d \in Fds, tab'[d] \in Ops
            PROVE \/ obj'[tab'[d]].kind # None /\ obj'[tab'[d]].fd = d
                  \/ /\ tab'[d] \in InLoop /\ req[tab'[d]].type \in Makers
                     /\ req[tab'[d]].ok /\ req[tab'[d]].fd = d
        <4>1. tab'[d] = tab[d] /\ tab'[d] # o
          BY <2>6, <2>7, <3>5, Names
        <4>2. obj'[tab'[d]] = obj[tab'[d]]
          BY <1>6, <3>5, <4>1
        <4>3. QED
          BY <2>1, <3>5, <4>1, <4>2 DEF FdInv
      <3>6. QED
        BY <1>1, <1>3, <2>1, <3>1, <3>2, <3>3, <3>4, <3>5 DEF FdInv
    <2>11. DirInv'
      <3>1. \A x \in Objects' : x \in Objects /\ obj'[x] = obj[x]
        BY <1>6, <1>7 DEF Objects
      <3>2. \A q \in InFlight : req[q].type \in OfDir => obj'[req[q].on] = obj[req[q].on]
        BY <1>2, <2>2, Names DEF RequestInv, OfDir, Makers, Plain
      <3>3. \A q : HasRead(q)' <=> HasRead(q)
        BY <1>1 DEF HasRead
      <3>4. \A x \in Objects' :
              /\ obj'[x].kind = "dir" /\ obj'[x].fd # None /\ ~obj'[x].live => Closed(x)'
              /\ \A i \in DOMAIN obj'[x].seen : obj'[x].seen[i] = i
              /\ obj'[x].done => Len(obj'[x].seen) = Entries
              /\ obj'[x].pos = Len(obj'[x].seen) \/ \E q \in InLoop' : req'[q].on = x /\ HasRead(q)'
        BY <1>1, <1>3, <2>1, <2>8, <3>1, <3>3 DEF DirInv
      <3>5. /\ \A q \in InFlight' : req'[q].type = "next" => obj'[req'[q].on].live
            /\ \A q \in InPool' : req'[q].type = "closedir" => obj'[req'[q].on].live
        BY <1>1, <1>3, <2>1, <3>2 DEF DirInv, OfDir, InFlight
      <3>6. \A q \in InLoop' : HasRead(q)' =>
              obj'[req'[q].on].dirent = obj'[req'[q].on].pos
                /\ obj'[req'[q].on].pos = Len(obj'[req'[q].on].seen) + 1
        BY <1>1, <1>3, <1>4, <2>1, <3>2, <3>3 DEF DirInv, OfDir, HasRead
      <3>7. \A q \in InLoop' :
              req'[q].type = "next" /\ req'[q].ok /\ req'[q].got = 0 => obj'[req'[q].on].pos = Entries
        BY <1>1, <1>3, <1>4, <2>1, <3>2 DEF DirInv, OfDir
      <3>8. QED
        BY <1>1, <1>3, <2>1, <3>4, <3>5, <3>6, <3>7 DEF DirInv
    <2>12. OwnDescriptor'
      BY <1>1, <2>1 DEF OwnDescriptor
    <2>13. QED
      BY <2>9, <2>10, <2>11, <2>12 DEF CleanInv
  <1>11. QED
    BY <1>1, <1>5, <1>8, <1>9, <1>10, TypeParts DEF FilesInv, FaultIsMisuse

-----------------------------------------------------------------------------
(***************************************************************************)
(* System calls                                                            *)
(***************************************************************************)

\* Request p has returned: its fields that say what is asked, the other requests
\* and the kinds of the objects are as before.
Answered(p) ==
  /\ Returns(p)
  /\ req' \in [Ops -> Reqs]
  /\ \A q \in Ops : q # p => req'[q] = req[q]
  /\ req'[p].type = req[p].type /\ req'[p].on = req[p].on
  /\ \A x \in Ops : obj'[x].kind = obj[x].kind

LEMMA AnsweredRequests ==
  ASSUME PoolTypes, RequestTypes, PlaceInv, RequestInv, NEW p \in Ops, Answered(p)
  PROVE  /\ PoolTypes' /\ PlaceInv' /\ RequestTypes' /\ RequestInv'
         /\ p \in InPool /\ p \notin InLoop
         /\ InPool' = InPool \ {p} /\ InLoop' = InLoop \cup {p} /\ InFlight' = InFlight
         /\ InPool \subseteq InFlight /\ InLoop \subseteq InFlight /\ InFlight \subseteq Ops
         /\ Objects' = Objects
         /\ ShareInv => ShareInv'
         /\ \A q \in Ops : Closes(q)' <=> Closes(q)
  <1>1. /\ PoolTypes' /\ PlaceInv' /\ p \in InPool /\ p \notin InLoop
        /\ InPool' = InPool \ {p} /\ InLoop' = InLoop \cup {p}
    BY ReturnsPlaces DEF Answered
  <1>2. InFlight' = InFlight /\ InPool \subseteq InFlight /\ InLoop \subseteq InFlight /\ InFlight \subseteq Ops
    BY <1>1, PlacesType DEF InFlight
  <1>3. UNCHANGED <<ops, prom>>
    BY DEF Answered, Returns
  <1>4. \A q \in Ops : req'[q].type = req[q].type /\ req'[q].on = req[q].on
    BY DEF Answered
  <1>5. RequestTypes'
    BY <1>3 DEF RequestTypes, Answered
  <1>6. RequestInv'
    <2>1. \A q \in Ops : q \notin InFlight' => req'[q] = NoReq
      BY <1>1, <1>2 DEF RequestInv, Answered
    <2>2. \A q \in Ops : prom'[q] # "settled" => obj'[q].kind = None
      BY <1>3 DEF RequestInv, Answered
    <2>3. \A q \in InFlight :
            \/ req'[q].type \in Makers \cup Plain /\ req'[q].on = None
            \/ req'[q].type \in OfFile /\ req'[q].on \in Ops /\ obj'[req'[q].on].kind = "file"
            \/ req'[q].type \in OfDir /\ req'[q].on \in Ops /\ obj'[req'[q].on].kind = "dir"
      BY <1>2, <1>4 DEF RequestInv, Answered
    <2>4. \A q \in InPool' : ~req'[q].ok /\ req'[q].got = None
      BY <1>1, <1>2 DEF RequestInv, Answered
    <2>5. QED
      BY <1>2, <1>3, <2>1, <2>2, <2>3, <2>4 DEF RequestInv
  <1>7. Objects' = Objects
    BY DEF Objects, Answered
  <1>8. \A q \in Ops : Closes(q)' <=> Closes(q)
    BY <1>4 DEF Closes
  <1>9. ASSUME ShareInv PROVE ShareInv'
    <2>1. SUFFICES ASSUME NEW q1 \in InFlight, NEW q2 \in InFlight, q1 # q2,
                          req'[q1].on = req'[q2].on, req'[q1].on # None
                   PROVE  obj'[req'[q1].on].kind = "file" /\ ~Closes(q1)'
      BY <1>2 DEF ShareInv
    <2>2. req[q1].on = req[q2].on /\ req[q1].on # None /\ req'[q1].on = req[q1].on
      BY <1>2, <1>4, <2>1
    <2>3. obj[req[q1].on].kind = "file" /\ ~Closes(q1)
      BY <1>9, <2>1, <2>2 DEF ShareInv
    <2>4. req[q1].on \in Ops
      BY <2>1, <2>2 DEF RequestInv
    <2>5. QED
      BY <1>2, <1>8, <2>1, <2>2, <2>3, <2>4 DEF Answered
  <1>10. QED
    BY <1>1, <1>2, <1>5, <1>6, <1>7, <1>8, <1>9

\* A call that neither opens nor closes a descriptor
LEMMA AnsweredFds ==
  ASSUME PoolTypes, RequestTypes, PlaceInv, RequestInv, NEW p \in Ops, Answered(p), FdInv,
         req'[p].fd = req[p].fd, ~Closes(p), ~(req[p].type \in Makers /\ req'[p].ok),
         UNCHANGED tab, \A x \in Ops : obj'[x].fd = obj[x].fd
  PROVE  FdInv'
  <1>1. /\ p \in InPool /\ p \notin InLoop /\ InLoop' = InLoop \cup {p} /\ InFlight' = InFlight
        /\ InPool \subseteq InFlight /\ InLoop \subseteq InFlight /\ InFlight \subseteq Ops
        /\ Objects' = Objects /\ \A q \in Ops : Closes(q)' <=> Closes(q)
    BY AnsweredRequests
  <1>2. \A q \in Ops : req'[q].type = req[q].type /\ req'[q].on = req[q].on /\ req'[q].fd = req[q].fd
    BY DEF Answered
  <1>3. \A q \in InLoop : req'[q] = req[q]
    BY <1>1 DEF Answered
  <1>4. \A x : Closed(x) => Closed(x)'
    BY <1>1, <1>3 DEF Closed
  <1>5. \A q \in InFlight' : req'[q].on # None => req'[q].fd = obj'[req'[q].on].fd
    <2>1. \A q \in InFlight : req[q].on # None => req[q].on \in Ops
      BY DEF RequestInv
    <2>2. QED
      BY <1>1, <1>2, <2>1 DEF FdInv
  <1>6. \A q \in InFlight' : req'[q].type = "closedir" => req'[q].fd # None
    BY <1>1, <1>2 DEF FdInv
  <1>7. \A x \in Objects' : obj'[x].fd = None \/ tab'[obj'[x].fd] = x \/ Closed(x)'
    BY <1>1, <1>4 DEF FdInv, Objects
  <1>8. \A q \in InLoop' : Closes(q)' => \A d \in Fds : tab'[d] # req'[q].on
    BY <1>1, <1>2 DEF FdInv
  <1>9. \A q \in InLoop' :
          req'[q].type \in Makers /\ req'[q].ok => req'[q].fd # None /\ tab'[req'[q].fd] = q
    BY <1>1, <1>2, <1>3 DEF FdInv
  <1>10. \A d \in Fds : tab'[d] \in Ops =>
          \/ obj'[tab'[d]].kind # None /\ obj'[tab'[d]].fd = d
          \/ /\ tab'[d] \in InLoop' /\ req'[tab'[d]].type \in Makers
             /\ req'[tab'[d]].ok /\ req'[tab'[d]].fd = d
    BY <1>1, <1>3 DEF FdInv, Answered
  <1>11. QED
    BY <1>5, <1>6, <1>7, <1>8, <1>9, <1>10 DEF FdInv

\* A call that is not about a directory
LEMMA AnsweredDirs ==
  ASSUME PoolTypes, RequestTypes, PlaceInv, RequestInv, NEW p \in Ops, Answered(p), DirInv,
         req[p].type \notin OfDir, UNCHANGED obj
  PROVE  DirInv'
  <1>1. /\ p \in InPool /\ p \notin InLoop /\ InLoop' = InLoop \cup {p} /\ InFlight' = InFlight
        /\ InPool' = InPool \ {p}
        /\ InPool \subseteq InFlight /\ InLoop \subseteq InFlight /\ InFlight \subseteq Ops
        /\ Objects' = Objects /\ \A q \in Ops : Closes(q)' <=> Closes(q)
    BY AnsweredRequests
  <1>2. \A q \in Ops : req'[q].type = req[q].type /\ req'[q].on = req[q].on
    BY DEF Answered
  <1>3. \A q \in InLoop : req'[q] = req[q]
    BY <1>1 DEF Answered
  <1>4. \A x : Closed(x) => Closed(x)'
    BY <1>1, <1>3 DEF Closed
  <1>5. req'[p].type \notin {"next", "closedir"}
    BY <1>2 DEF OfDir
  <1>6. \A q \in InLoop : HasRead(q)' <=> HasRead(q)
    BY <1>3 DEF HasRead
  <1>7. ~HasRead(p)'
    BY <1>5 DEF HasRead
  <1>8. /\ \A q \in InFlight' : req'[q].type = "next" => obj'[req'[q].on].live
        /\ \A q \in InPool' : req'[q].type = "closedir" => obj'[req'[q].on].live
    BY <1>1, <1>2 DEF DirInv
  <1>9. \A o \in Objects' : obj'[o].kind = "dir" /\ obj'[o].fd # None /\ ~obj'[o].live => Closed(o)'
    BY <1>1, <1>4 DEF DirInv
  <1>10. \A q \in InLoop' : req'[q].type = "next" => q \in InLoop /\ req'[q] = req[q]
    BY <1>1, <1>3, <1>5
  <1>11. /\ \A q \in InLoop' : req'[q].type = "next" /\ req'[q].ok => req'[q].got \in {0, 1}
         /\ \A q \in InLoop' : HasRead(q)' =>
              obj'[req'[q].on].dirent = obj'[req'[q].on].pos
                /\ obj'[req'[q].on].pos = Len(obj'[req'[q].on].seen) + 1
         /\ \A q \in InLoop' :
              req'[q].type = "next" /\ req'[q].ok /\ req'[q].got = 0 => obj'[req'[q].on].pos = Entries
    BY <1>10 DEF DirInv, HasRead
  <1>12. \A o \in Objects' :
       /\ \A i \in DOMAIN obj'[o].seen : obj'[o].seen[i] = i
       /\ obj'[o].done => Len(obj'[o].seen) = Entries
       /\ obj'[o].pos = Len(obj'[o].seen) \/ \E q \in InLoop' : req'[q].on = o /\ HasRead(q)'
    BY <1>1, <1>3, <1>6 DEF DirInv
  <1>13. QED
    BY <1>8, <1>9, <1>11, <1>12 DEF DirInv

\* The facts every system call starts from
LEMMA WorkFacts ==
  ASSUME FilesInv, NEW p \in Ops, Returns(p)
  PROVE  /\ fault = "none"
         /\ PoolTypes /\ RequestTypes /\ ObjectTypes /\ PlaceInv /\ RequestInv
         /\ UNCHANGED <<ops, prom, held, stale>>
         /\ p \in InPool /\ p \in InFlight /\ ~req[p].ok /\ req[p].got = None
         /\ req[p] \in Reqs
         /\ stale = {} => ShareInv /\ FdInv /\ DirInv /\ OwnDescriptor
  <1>1. fault = "none" /\ UNCHANGED <<ops, prom, held, stale>>
    BY DEF Returns
  <1>2. PoolTypes /\ RequestTypes /\ ObjectTypes /\ PlaceInv /\ RequestInv
    BY <1>1, TypeParts DEF FilesInv
  <1>3. p \in InPool
    BY <1>2, ReturnsPlaces
  <1>4. p \in InFlight /\ ~req[p].ok /\ req[p].got = None
    BY <1>2, <1>3 DEF InFlight, RequestInv
  <1>5. QED
    BY <1>1, <1>2, <1>3, <1>4 DEF FilesInv, CleanInv, RequestTypes

\* The invariant, put together after a system call
LEMMA WorkDone ==
  ASSUME FilesInv, NEW p \in Ops, Answered(p), ObjectTypes', fault' # "none" => stale # {},
         stale = {} => FdInv' /\ DirInv' /\ OwnDescriptor'
  PROVE  FilesInv'
  <1>1. /\ PoolTypes /\ RequestTypes /\ PlaceInv /\ RequestInv /\ stale' = stale
        /\ stale = {} => ShareInv
    BY WorkFacts DEF Answered
  <1>2. /\ PoolTypes' /\ PlaceInv' /\ RequestTypes' /\ RequestInv'
        /\ ShareInv => ShareInv'
    BY <1>1, AnsweredRequests
  <1>3. QED
    BY <1>1, <1>2, TypeParts DEF FilesInv, FaultIsMisuse, CleanInv

LEMMA WorkOpenStep ==
  ASSUME FilesInv, NEW p \in Ops, WorkOpen(p)
  PROVE  FilesInv'
  <1>1. Returns(p) /\ req[p].type \in Makers \cup {"readFile"} /\ UNCHANGED <<obj, fault>>
    BY DEF WorkOpen
  <1>2. /\ fault = "none"
        /\ PoolTypes /\ RequestTypes /\ ObjectTypes /\ PlaceInv /\ RequestInv
        /\ UNCHANGED <<ops, prom, held, stale>>
        /\ p \in InPool /\ p \in InFlight /\ ~req[p].ok /\ req[p].got = None
        /\ req[p] \in Reqs
        /\ stale = {} => ShareInv /\ FdInv /\ DirInv /\ OwnDescriptor
    BY <1>1, WorkFacts
  <1>3. ~Closes(p) /\ req[p].type \notin OfDir /\ req[p].type \notin {"io", "close"}
    BY <1>1 DEF Closes, OfDir, Makers
  <1>4. CASE UNCHANGED <<tab, req>>
    <2>1. Answered(p)
      BY <1>1, <1>2, <1>4 DEF Answered, RequestTypes
    <2>2. ObjectTypes'
      BY <1>1, <1>2, <1>4 DEF ObjectTypes, Objects
    <2>3. ASSUME stale = {} PROVE FdInv' /\ DirInv' /\ OwnDescriptor'
      <3>1. FdInv'
        BY <1>1, <1>2, <1>3, <1>4, <2>1, <2>3, AnsweredFds
      <3>2. DirInv'
        BY <1>1, <1>2, <1>3, <2>1, <2>3, AnsweredDirs
      <3>3. OwnDescriptor'
        BY <1>2, <1>4, <2>3 DEF OwnDescriptor
      <3>4. QED
        BY <3>1, <3>2, <3>3
    <2>4. QED
      BY <1>1, <1>2, <2>1, <2>2, <2>3, WorkDone
  <1>5. CASE /\ FreeFds # {}
             /\ tab' = [tab EXCEPT ![Lowest] = IF req[p].type = "readFile" THEN Loaded ELSE p]
             /\ req' = [req EXCEPT ![p].ok = TRUE, ![p].fd = Lowest]
    <2> DEFINE d0 == Lowest
    <2>1. d0 \in Fds /\ tab[d0] = None
      BY <1>5, LowestFree
    <2> HIDE DEF d0
    <2>2. /\ tab' = [tab EXCEPT ![d0] = IF req[p].type = "readFile" THEN Loaded ELSE p]
          /\ req' = [req EXCEPT ![p].ok = TRUE, ![p].fd = d0]
      BY <1>5 DEF d0
    <2>3. /\ req'[p].type = req[p].type /\ req'[p].on = req[p].on /\ req'[p].ok
          /\ req'[p].fd = d0 /\ req'[p] \in Reqs
      BY <1>2, <2>1, <2>2 DEF RequestTypes, Reqs
    <2>4. /\ \A q \in Ops : q # p => req'[q] = req[q]
          /\ req' \in [Ops -> Reqs]
      BY <1>2, <2>2, <2>3 DEF RequestTypes
    <2>5. Answered(p)
      BY <1>1, <2>3, <2>4 DEF Answered
    <2>6. /\ tab'[d0] \in {p, Loaded} /\ \A d \in Fds : d # d0 => tab'[d] = tab[d]
          /\ req[p].type \in Makers => tab'[d0] = p
          /\ tab' \in [Fds -> Ops \cup {None, Loaded}]
      BY <1>2, <2>1, <2>2 DEF ObjectTypes, Makers
    <2>7. ObjectTypes'
      BY <1>1, <1>2, <2>6 DEF ObjectTypes, Objects
    <2>8. ASSUME stale = {} PROVE FdInv' /\ DirInv' /\ OwnDescriptor'
      <3>1. /\ p \in InPool /\ p \notin InLoop /\ InLoop' = InLoop \cup {p} /\ InFlight' = InFlight
            /\ InPool \subseteq InFlight /\ InLoop \subseteq InFlight /\ InFlight \subseteq Ops
            /\ Objects' = Objects /\ \A q \in Ops : Closes(q)' <=> Closes(q)
        BY <1>2, <2>5, AnsweredRequests
      <3>2. \A q \in InLoop : req'[q] = req[q] /\ q \in Ops
        BY <2>4, <3>1
      <3>3. FdInv
        BY <1>2, <2>8
      <3>4. req[p].on = None
        BY <1>1, <1>2, Names DEF RequestInv, OfFile, OfDir, Makers
      <3>5. \A q \in InFlight' : req'[q].on # None => req'[q].fd = obj'[req'[q].on].fd
        BY <1>1, <2>3, <2>4, <3>1, <3>3, <3>4 DEF FdInv
      <3>6. \A q \in InFlight' : req'[q].type = "closedir" => req'[q].fd # None
        BY <1>3, <2>3, <2>4, <3>1, <3>3 DEF FdInv, OfDir
      <3>7. \A x \in Objects' : obj'[x].fd = None \/ tab'[obj'[x].fd] = x \/ Closed(x)'
        <4>1. SUFFICES ASSUME NEW x \in Objects, obj[x].fd # None, ~Closed(x)'
                       PROVE  tab'[obj[x].fd] = x
          BY <1>1, <3>1
        <4>2. ~Closed(x)
          BY <3>1, <3>2, <4>1 DEF Closed
        <4>3. tab[obj[x].fd] = x /\ x \in Ops /\ obj[x].fd \in Fds
          BY <1>2, <3>3, <4>1, <4>2 DEF FdInv, Objects, ObjectTypes, Objs
        <4>4. obj[x].fd # d0
          BY <2>1, <4>3, Names
        <4>5. QED
          BY <2>6, <4>3, <4>4
      <3>8. \A q \in InLoop' : Closes(q)' => \A d \in Fds : tab'[d] # req'[q].on
        <4>1. SUFFICES ASSUME NEW q \in InLoop, Closes(q), NEW d \in Fds PROVE tab'[d] # req[q].on
          BY <1>3, <3>1, <3>2
        <4>2. req[q].on \in Ops /\ obj[req[q].on].kind # None
          BY <1>2, <3>1, <4>1, Names DEF RequestInv, Closes, Makers, Plain
        <4>3. req[q].on # p
          BY <1>2, <4>2 DEF RequestInv
        <4>4. req[q].on # Loaded
          BY <4>2, Names
        <4>5. tab[d] # req[q].on
          BY <3>3, <4>1 DEF FdInv
        <4>6. QED
          BY <2>6, <4>3, <4>4, <4>5
      <3>9. \A q \in InLoop' :
              req'[q].type \in Makers /\ req'[q].ok => req'[q].fd # None /\ tab'[req'[q].fd] = q
        <4>1. SUFFICES ASSUME NEW q \in InLoop, req[q].type \in Makers, req[q].ok
                       PROVE  req[q].fd # None /\ tab'[req[q].fd] = q
          BY <2>1, <2>3, <2>6, <3>1, <3>2, Names
        <4>2. req[q].fd # None /\ tab[req[q].fd] = q /\ req[q].fd \in Fds /\ q \in Ops
          BY <1>2, <3>2, <3>3, <4>1 DEF FdInv, RequestTypes, Reqs
        <4>3. req[q].fd # d0
          BY <2>1, <4>2, Names
        <4>4. QED
          BY <2>6, <4>2, <4>3
      <3>10. \A d \in Fds : tab'[d] \in Ops =>
              \/ obj'[tab'[d]].kind # None /\ obj'[tab'[d]].fd = d
              \/ /\ tab'[d] \in InLoop' /\ req'[tab'[d]].type \in Makers
                 /\ req'[tab'[d]].ok /\ req'[tab'[d]].fd = d
        <4>1. SUFFICES ASSUME NEW d \in Fds, tab'[d] \in Ops
                       PROVE  \/ obj[tab'[d]].kind # None /\ obj[tab'[d]].fd = d
                              \/ /\ tab'[d] \in InLoop' /\ req'[tab'[d]].type \in Makers
                                 /\ req'[tab'[d]].ok /\ req'[tab'[d]].fd = d
          BY <1>1
        <4>2. CASE d = d0
          <5>1. tab'[d] = p /\ req[p].type # "readFile"
            BY <1>2, <2>1, <2>2, <4>1, <4>2, Names DEF ObjectTypes
          <5>2. QED
            BY <1>1, <2>3, <3>1, <4>2, <5>1
        <4>3. CASE d # d0
          BY <2>6, <3>1, <3>2, <3>3, <4>1, <4>3 DEF FdInv
        <4>4. QED
          BY <4>2, <4>3
      <3>11. FdInv'
        BY <3>5, <3>6, <3>7, <3>8, <3>9, <3>10 DEF FdInv
      <3>12. DirInv'
        BY <1>1, <1>2, <1>3, <2>5, <2>8, AnsweredDirs
      <3>13. OwnDescriptor'
        BY <1>2, <1>3, <2>3, <2>4, <2>8 DEF OwnDescriptor
      <3>14. QED
        BY <3>11, <3>12, <3>13
    <2>9. QED
      BY <1>1, <1>2, <2>5, <2>7, <2>8, WorkDone
  <1>6. QED
    BY <1>4, <1>5 DEF WorkOpen

LEMMA WorkPathStep ==
  ASSUME FilesInv, NEW p \in Ops, WorkPath(p)
  PROVE  FilesInv'
  <1>1. Returns(p) /\ req[p].type = "path" /\ UNCHANGED <<req, obj, tab, fault>>
    BY DEF WorkPath
  <1>2. /\ fault = "none"
        /\ PoolTypes /\ RequestTypes /\ ObjectTypes /\ PlaceInv /\ RequestInv
        /\ UNCHANGED <<ops, prom, held, stale>>
        /\ stale = {} => ShareInv /\ FdInv /\ DirInv /\ OwnDescriptor
    BY <1>1, WorkFacts
  <1>3. ~Closes(p) /\ req[p].type \notin OfDir /\ req[p].type \notin Makers
    BY <1>1 DEF Closes, OfDir, Makers
  <1>4. Answered(p)
    BY <1>1, <1>2 DEF Answered, RequestTypes
  <1>5. ObjectTypes'
    BY <1>1, <1>2 DEF ObjectTypes, Objects
  <1>6. ASSUME stale = {} PROVE FdInv' /\ DirInv' /\ OwnDescriptor'
    <2>1. FdInv'
      BY <1>1, <1>2, <1>3, <1>4, <1>6, AnsweredFds
    <2>2. DirInv'
      BY <1>1, <1>2, <1>3, <1>4, <1>6, AnsweredDirs
    <2>3. OwnDescriptor'
      BY <1>1, <1>2, <1>6 DEF OwnDescriptor
    <2>4. QED
      BY <2>1, <2>2, <2>3
  <1>7. QED
    BY <1>1, <1>2, <1>4, <1>5, <1>6, WorkDone

\* What a system call that is alone on its object finds there: its own file
LEMMA OwnFile ==
  ASSUME PoolTypes, RequestTypes, ObjectTypes, PlaceInv, RequestInv, ShareInv, FdInv,
         NEW p \in InPool, req[p].type \in {"io", "close", "closedir"}
  PROVE  /\ req[p].on \in Ops /\ obj[req[p].on].kind # None
         /\ req[p].fd = obj[req[p].on].fd
         /\ FileAt(req[p].fd) = None \/ FileAt(req[p].fd) = req[p].on
         /\ req[p].fd # None => tab[req[p].fd] = req[p].on /\ req[p].fd \in Fds
  <1> DEFINE o == req[p].on
  <1>1. p \in InFlight /\ p \in Ops /\ InLoop \subseteq InFlight /\ p \notin InLoop
    BY PlacesType DEF InFlight, PlaceInv
  <1>2. o \in Ops /\ obj[o].kind # None
    BY <1>1, Names DEF RequestInv, Makers, Plain
  <1> HIDE DEF o
  <1>3. req[p].fd = obj[o].fd
    BY <1>1, <1>2, Names DEF FdInv, o
  <1>4. ~Closed(o)
    <2>1. SUFFICES ASSUME NEW q \in InLoop, req[q].on = o, Closes(q) PROVE FALSE
      BY DEF Closed
    <2>2. q \in InFlight /\ q # p /\ req[q].on = req[p].on /\ req[q].on # None
      BY <1>1, <1>2, <2>1, Names DEF o
    <2>3. QED
      BY <1>1, <2>1, <2>2 DEF ShareInv
  <1>5. obj[o].fd = None \/ tab[obj[o].fd] = o
    BY <1>2, <1>4 DEF FdInv, Objects
  <1>6. req[p].fd \in Fds \cup {None}
    BY <1>1 DEF RequestTypes, Reqs
  <1>7. QED
    BY <1>2, <1>3, <1>5, <1>6 DEF o, FileAt

LEMMA WorkIoStep ==
  ASSUME FilesInv, NEW p \in Ops, WorkIo(p)
  PROVE  FilesInv'
  <1> DEFINE g == FileAt(req[p].fd)
  <1>1. /\ Returns(p) /\ req[p].type = "io" /\ req' = [req EXCEPT ![p].got = g]
        /\ UNCHANGED <<obj, tab, fault>>
    BY DEF WorkIo
  <1>2. /\ fault = "none"
        /\ PoolTypes /\ RequestTypes /\ ObjectTypes /\ PlaceInv /\ RequestInv
        /\ UNCHANGED <<ops, prom, held, stale>>
        /\ p \in InPool /\ req[p] \in Reqs
        /\ stale = {} => ShareInv /\ FdInv /\ DirInv /\ OwnDescriptor
    BY <1>1, WorkFacts
  <1>3. ~Closes(p) /\ req[p].type \notin OfDir /\ req[p].type \notin Makers
    BY <1>1 DEF Closes, OfDir, Makers
  <1>4. g \in 0..MaxOps \cup {None, Loaded}
    <2>1. req[p].fd \in Fds \cup {None}
      BY <1>2 DEF Reqs
    <2>2. \A d \in Fds : tab[d] \in Ops \cup {None, Loaded}
      BY <1>2 DEF ObjectTypes
    <2>3. QED
      BY <2>1, <2>2, Names DEF FileAt, Ops
  <1>g. stale = {} => g = None \/ g = req[p].on
    BY <1>1, <1>2, OwnFile
  <1> HIDE DEF g
  <1>5. /\ req'[p].type = req[p].type /\ req'[p].on = req[p].on /\ req'[p].fd = req[p].fd
        /\ req'[p].got = g /\ req'[p] \in Reqs
    BY <1>1, <1>2, <1>4 DEF RequestTypes, Reqs
  <1>6. req' \in [Ops -> Reqs] /\ \A q \in Ops : q # p => req'[q] = req[q]
    BY <1>1, <1>2, <1>5 DEF RequestTypes
  <1>7. Answered(p)
    BY <1>1, <1>5, <1>6 DEF Answered
  <1>8. ObjectTypes'
    BY <1>1, <1>2 DEF ObjectTypes, Objects
  <1>9. ASSUME stale = {} PROVE FdInv' /\ DirInv' /\ OwnDescriptor'
    <2>1. FdInv'
      BY <1>1, <1>2, <1>3, <1>5, <1>7, <1>9, AnsweredFds
    <2>2. DirInv'
      BY <1>1, <1>2, <1>3, <1>7, <1>9, AnsweredDirs
    <2>3. OwnDescriptor'
      BY <1>2, <1>5, <1>6, <1>9, <1>g DEF OwnDescriptor
    <2>4. QED
      BY <2>1, <2>2, <2>3
  <1>10. QED
    BY <1>1, <1>2, <1>7, <1>8, <1>9, WorkDone

\* A call that closes the descriptor of its object
LEMMA ClosedFds ==
  ASSUME PoolTypes, RequestTypes, ObjectTypes, PlaceInv, RequestInv, ShareInv, FdInv,
         NEW p \in Ops, Answered(p), Closes(p), req'[p].fd = req[p].fd,
         tab' = IF req[p].fd = None THEN tab ELSE [tab EXCEPT ![req[p].fd] = None],
         \A x \in Ops : obj'[x].fd = obj[x].fd
  PROVE  FdInv'
  <1> DEFINE o == req[p].on
             fd == req[p].fd
  <1>1. /\ p \in InPool /\ p \notin InLoop /\ InLoop' = InLoop \cup {p} /\ InFlight' = InFlight
        /\ InPool \subseteq InFlight /\ InLoop \subseteq InFlight /\ InFlight \subseteq Ops
        /\ Objects' = Objects /\ \A q \in Ops : Closes(q)' <=> Closes(q)
    BY AnsweredRequests
  <1>2. \A q \in Ops : req'[q].type = req[q].type /\ req'[q].on = req[q].on /\ req'[q].fd = req[q].fd
    BY DEF Answered
  <1>3. \A q \in InLoop : req'[q] = req[q] /\ q \in Ops
    BY <1>1 DEF Answered
  <1>4. /\ o \in Ops /\ obj[o].kind # None /\ fd = obj[o].fd
        /\ fd # None => tab[fd] = o /\ fd \in Fds
    BY <1>1, OwnFile DEF Closes
  <1>5. o \notin InFlight
    BY <1>4 DEF RequestInv
  <1>6. req[p].type \notin Makers
    BY DEF Closes, Makers
  <1> HIDE DEF o, fd
  <1>7. \A d \in Fds : tab'[d] = IF d = fd THEN None ELSE tab[d]
    BY <1>4, Names DEF ObjectTypes, fd
  <1>8. \A x : Closed(x) \/ x = o => Closed(x)'
    BY <1>1, <1>2, <1>3 DEF Closed, o
  <1>9. \A d \in Fds : tab[d] = o => d = fd
    BY <1>1, <1>4, <1>5 DEF FdInv
  <1>10. \A q \in InFlight' : req'[q].on # None => req'[q].fd = obj'[req'[q].on].fd
    <2>1. \A q \in InFlight : req[q].on # None => req[q].on \in Ops
      BY DEF RequestInv
    <2>2. QED
      BY <1>1, <1>2, <2>1 DEF FdInv
  <1>11. \A q \in InFlight' : req'[q].type = "closedir" => req'[q].fd # None
    BY <1>1, <1>2 DEF FdInv
  <1>12. \A x \in Objects' : obj'[x].fd = None \/ tab'[obj'[x].fd] = x \/ Closed(x)'
    <2>1. SUFFICES ASSUME NEW x \in Objects, obj[x].fd # None, ~Closed(x)'
                   PROVE  tab'[obj[x].fd] = x
      BY <1>1 DEF Objects
    <2>2. ~Closed(x) /\ x # o
      BY <1>8, <2>1
    <2>3. tab[obj[x].fd] = x /\ obj[x].fd \in Fds
      BY <2>1, <2>2 DEF FdInv, Objects, ObjectTypes, Objs
    <2>4. obj[x].fd # fd
      BY <1>4, <2>2, <2>3, Names
    <2>5. QED
      BY <1>7, <2>3, <2>4
  <1>13. \A q \in InLoop' : Closes(q)' => \A d \in Fds : tab'[d] # req'[q].on
    <2>1. ASSUME NEW q \in InLoop, Closes(q), NEW d \in Fds PROVE tab'[d] # req[q].on
      <3>1. tab[d] # req[q].on
        BY <2>1 DEF FdInv
      <3>2. req[q].on # None
        BY <1>1, <2>1, Names DEF RequestInv, Closes, Makers, Plain
      <3>3. QED
        BY <1>7, <2>1, <3>1, <3>2
    <2>2. \A d \in Fds : tab'[d] # o
      BY <1>4, <1>7, <1>9, Names
    <2>3. QED
      BY <1>1, <1>2, <2>1, <2>2 DEF o
  <1>14. \A q \in InLoop' :
          req'[q].type \in Makers /\ req'[q].ok => req'[q].fd # None /\ tab'[req'[q].fd] = q
    <2>1. SUFFICES ASSUME NEW q \in InLoop, req[q].type \in Makers, req[q].ok
                   PROVE  req[q].fd # None /\ tab'[req[q].fd] = q
      BY <1>1, <1>2, <1>3, <1>6
    <2>2. req[q].fd # None /\ tab[req[q].fd] = q /\ req[q].fd \in Fds
      BY <1>3, <2>1 DEF FdInv, RequestTypes, Reqs
    <2>3. q # o
      BY <1>1, <1>5
    <2>4. req[q].fd # fd
      BY <1>4, <2>2, <2>3
    <2>5. QED
      BY <1>7, <2>2, <2>4
  <1>15. \A d \in Fds : tab'[d] \in Ops =>
          \/ obj'[tab'[d]].kind # None /\ obj'[tab'[d]].fd = d
          \/ /\ tab'[d] \in InLoop' /\ req'[tab'[d]].type \in Makers
             /\ req'[tab'[d]].ok /\ req'[tab'[d]].fd = d
    <2>1. SUFFICES ASSUME NEW d \in Fds, tab[d] \in Ops, tab'[d] = tab[d]
                   PROVE \/ obj'[tab[d]].kind # None /\ obj'[tab[d]].fd = d
                         \/ /\ tab[d] \in InLoop' /\ req'[tab[d]].type \in Makers
                            /\ req'[tab[d]].ok /\ req'[tab[d]].fd = d
      BY <1>7, Names
    <2>2. QED
      BY <1>1, <1>3, <2>1 DEF FdInv, Answered
  <1>16. QED
    BY <1>10, <1>11, <1>12, <1>13, <1>14, <1>15 DEF FdInv

LEMMA WorkCloseStep ==
  ASSUME FilesInv, NEW p \in Ops, WorkClose(p)
  PROVE  FilesInv'
  <1> DEFINE g == FileAt(req[p].fd)
  <1>1. /\ Returns(p) /\ req[p].type = "close"
        /\ tab' = IF req[p].fd = None THEN tab ELSE [tab EXCEPT ![req[p].fd] = None]
        /\ UNCHANGED <<obj, fault>>
    BY DEF WorkClose
  <1>o. PICK ok \in BOOLEAN : req' = [req EXCEPT ![p].ok = ok, ![p].got = g]
    BY DEF WorkClose
  <1>2. /\ fault = "none"
        /\ PoolTypes /\ RequestTypes /\ ObjectTypes /\ PlaceInv /\ RequestInv
        /\ UNCHANGED <<ops, prom, held, stale>>
        /\ p \in InPool /\ req[p] \in Reqs
        /\ stale = {} => ShareInv /\ FdInv /\ DirInv /\ OwnDescriptor
    BY <1>1, WorkFacts
  <1>3. Closes(p) /\ req[p].type \notin OfDir
    BY <1>1 DEF Closes, OfDir
  <1>4. g \in 0..MaxOps \cup {None, Loaded}
    <2>1. req[p].fd \in Fds \cup {None}
      BY <1>2 DEF Reqs
    <2>2. \A d \in Fds : tab[d] \in Ops \cup {None, Loaded}
      BY <1>2 DEF ObjectTypes
    <2>3. QED
      BY <2>1, <2>2, Names DEF FileAt, Ops
  <1>g. stale = {} => g = None \/ g = req[p].on
    BY <1>1, <1>2, OwnFile
  <1> HIDE DEF g
  <1>5. /\ req'[p].type = req[p].type /\ req'[p].on = req[p].on /\ req'[p].fd = req[p].fd
        /\ req'[p].got = g /\ req'[p] \in Reqs
    BY <1>o, <1>2, <1>4 DEF RequestTypes, Reqs
  <1>6. req' \in [Ops -> Reqs] /\ \A q \in Ops : q # p => req'[q] = req[q]
    BY <1>o, <1>2, <1>5 DEF RequestTypes
  <1>7. Answered(p)
    BY <1>1, <1>5, <1>6 DEF Answered
  <1>8. ObjectTypes'
    BY <1>1, <1>2 DEF ObjectTypes, Objects
  <1>9. ASSUME stale = {} PROVE FdInv' /\ DirInv' /\ OwnDescriptor'
    <2>1. FdInv'
      BY <1>1, <1>2, <1>3, <1>5, <1>7, <1>9, ClosedFds
    <2>2. DirInv'
      BY <1>1, <1>2, <1>3, <1>7, <1>9, AnsweredDirs
    <2>3. OwnDescriptor'
      BY <1>2, <1>5, <1>6, <1>9, <1>g DEF OwnDescriptor
    <2>4. QED
      BY <2>1, <2>2, <2>3
  <1>10. QED
    BY <1>1, <1>2, <1>7, <1>8, <1>9, WorkDone

\* A request for a directory has it for itself.
LEMMA AloneOnDir ==
  ASSUME PoolTypes, RequestInv, ShareInv, NEW p \in InFlight, req[p].type \in OfDir
  PROVE  /\ req[p].on \in Ops /\ obj[req[p].on].kind = "dir"
         /\ \A q \in InFlight : q # p => req[q].on # req[p].on
  <1>1. req[p].on \in Ops /\ obj[req[p].on].kind = "dir"
    BY DEF RequestInv, OfDir, OfFile, Makers, Plain
  <1>2. QED
    BY <1>1, Names DEF ShareInv

\* What next() may do to a directory and to its request
NextEffect(p) ==
  LET o == req[p].on
  IN  /\ \A x \in Ops : x # o => obj'[x] = obj[x]
      /\ obj'[o].kind = obj[o].kind /\ obj'[o].fd = obj[o].fd /\ obj'[o].done = obj[o].done
      /\ obj'[o].live = obj[o].live /\ obj'[o].seen = obj[o].seen
      /\ \/ obj'[o].pos = obj[o].pos /\ ~req'[p].ok
         \/ /\ obj'[o].pos = obj[o].pos /\ req'[p].ok /\ req'[p].got = 0
            /\ obj[o].pos = Entries
         \/ /\ obj'[o].pos = obj[o].pos + 1 /\ obj'[o].dirent = obj[o].pos + 1
            /\ req'[p].ok /\ req'[p].got = 1

LEMMA NextDirs ==
  ASSUME PoolTypes, RequestTypes, ObjectTypes, PlaceInv, RequestInv, ShareInv, DirInv,
         NEW p \in Ops, Answered(p), req[p].type = "next", NextEffect(p)
  PROVE  DirInv'
  <1> DEFINE o == req[p].on
  <1>1. /\ p \in InPool /\ p \notin InLoop /\ InLoop' = InLoop \cup {p} /\ InFlight' = InFlight
        /\ InPool' = InPool \ {p}
        /\ InPool \subseteq InFlight /\ InLoop \subseteq InFlight /\ InFlight \subseteq Ops
        /\ Objects' = Objects /\ \A q \in Ops : Closes(q)' <=> Closes(q)
    BY AnsweredRequests
  <1>2. /\ \A q \in Ops : req'[q].type = req[q].type /\ req'[q].on = req[q].on
        /\ \A q \in InLoop : req'[q] = req[q] /\ q \in Ops /\ q # p
    BY <1>1 DEF Answered
  <1>3. o \in Ops /\ obj[o].kind = "dir" /\ \A q \in InFlight : q # p => req[q].on # o
    BY <1>1, AloneOnDir DEF OfDir
  <1>4. req'[p].on = o /\ req'[p].type = "next"
    BY <1>2
  <1> HIDE DEF o
  <1>5. /\ \A x \in Ops : x # o => obj'[x] = obj[x]
        /\ obj'[o].kind = obj[o].kind /\ obj'[o].fd = obj[o].fd /\ obj'[o].done = obj[o].done
        /\ obj'[o].live = obj[o].live /\ obj'[o].seen = obj[o].seen
        /\ \/ obj'[o].pos = obj[o].pos /\ ~req'[p].ok
           \/ /\ obj'[o].pos = obj[o].pos /\ req'[p].ok /\ req'[p].got = 0
              /\ obj[o].pos = Entries
           \/ /\ obj'[o].pos = obj[o].pos + 1 /\ obj'[o].dirent = obj[o].pos + 1
              /\ req'[p].ok /\ req'[p].got = 1
    BY DEF NextEffect, o
  <1>6. \A q \in InLoop : HasRead(q)' <=> HasRead(q)
    BY <1>2 DEF HasRead
  <1>7. HasRead(p)' <=> req'[p].ok /\ req'[p].got = 1
    BY <1>4 DEF HasRead
  <1>8. \A x : Closed(x) => Closed(x)'
    BY <1>1, <1>2 DEF Closed
  <1>9. obj[o].pos = Len(obj[o].seen)
    BY <1>1, <1>2, <1>3, Names DEF DirInv, Objects
  <1>10. /\ \A q \in InFlight' : req'[q].type = "next" => obj'[req'[q].on].live
         /\ \A q \in InPool' : req'[q].type = "closedir" => obj'[req'[q].on].live
    <2>1. \A q \in InFlight : req[q].type \in OfDir => req[q].on \in Ops
      BY DEF RequestInv, OfDir, OfFile, Makers, Plain
    <2>2. \A x \in Ops : obj'[x].live = obj[x].live
      BY <1>5
    <2>3. QED
      BY <1>1, <1>2, <2>1, <2>2 DEF DirInv, OfDir
  <1>11. \A x \in Objects' : obj'[x].kind = "dir" /\ obj'[x].fd # None /\ ~obj'[x].live => Closed(x)'
    BY <1>1, <1>5, <1>8 DEF DirInv, Objects
  <1>12. \A q \in InLoop : req[q].type = "next" => obj'[req[q].on] = obj[req[q].on]
    BY <1>1, <1>2, <1>3, <1>5 DEF RequestInv, OfDir, OfFile, Makers, Plain
  <1>13. \A q \in InLoop' : req'[q].type = "next" /\ req'[q].ok => req'[q].got \in {0, 1}
    BY <1>1, <1>2, <1>5 DEF DirInv
  <1>14. \A q \in InLoop' : HasRead(q)' =>
              obj'[req'[q].on].dirent = obj'[req'[q].on].pos
                /\ obj'[req'[q].on].pos = Len(obj'[req'[q].on].seen) + 1
    <2>1. ASSUME HasRead(p)'
          PROVE  obj'[o].dirent = obj'[o].pos /\ obj'[o].pos = Len(obj'[o].seen) + 1
      BY <1>5, <1>7, <1>9, <2>1
    <2>2. ASSUME NEW q \in InLoop, HasRead(q)
          PROVE  /\ obj'[req[q].on].dirent = obj'[req[q].on].pos
                 /\ obj'[req[q].on].pos = Len(obj'[req[q].on].seen) + 1
      <3>1. obj'[req[q].on] = obj[req[q].on]
        BY <1>12, <2>2 DEF HasRead
      <3>2. /\ obj[req[q].on].dirent = obj[req[q].on].pos
            /\ obj[req[q].on].pos = Len(obj[req[q].on].seen) + 1
        BY <2>2 DEF DirInv
      <3>3. QED
        BY <3>1, <3>2
    <2>3. QED
      BY <1>1, <1>2, <1>4, <1>6, <2>1, <2>2
  <1>15. \A q \in InLoop' :
           req'[q].type = "next" /\ req'[q].ok /\ req'[q].got = 0 => obj'[req'[q].on].pos = Entries
    BY <1>1, <1>2, <1>4, <1>5, <1>12 DEF DirInv
  <1>16. ASSUME NEW x \in Objects
         PROVE /\ \A i \in DOMAIN obj'[x].seen : obj'[x].seen[i] = i
               /\ obj'[x].done => Len(obj'[x].seen) = Entries
               /\ obj'[x].pos = Len(obj'[x].seen) \/ \E q \in InLoop' : req'[q].on = x /\ HasRead(q)'
    <2>1. CASE x = o
      BY <1>1, <1>4, <1>5, <1>7, <1>9, <2>1 DEF DirInv
    <2>2. CASE x # o
      <3>1. obj'[x] = obj[x]
        BY <1>5, <2>2 DEF Objects
      <3>2. QED
        BY <1>1, <1>2, <1>6, <3>1 DEF DirInv
    <2>3. QED
      BY <2>1, <2>2
  <1>17. QED
    BY <1>1, <1>10, <1>11, <1>13, <1>14, <1>15, <1>16 DEF DirInv

LEMMA WorkNextStep ==
  ASSUME FilesInv, NEW p \in Ops, WorkNext(p)
  PROVE  FilesInv'
  <1> DEFINE o == req[p].on
             n == obj[o].pos + 1
  <1>1. Returns(p) /\ req[p].type = "next" /\ tab' = tab
    BY DEF WorkNext
  <1>2. /\ fault = "none"
        /\ PoolTypes /\ RequestTypes /\ ObjectTypes /\ PlaceInv /\ RequestInv
        /\ UNCHANGED <<ops, prom, held, stale>>
        /\ p \in InFlight /\ ~req[p].ok /\ req[p] \in Reqs
        /\ stale = {} => ShareInv /\ FdInv /\ DirInv /\ OwnDescriptor
    BY <1>1, WorkFacts
  <1>3. o \in Ops /\ obj[o].kind = "dir" /\ obj[o] \in Objs
    BY <1>1, <1>2 DEF RequestInv, OfDir, OfFile, Makers, Plain, ObjectTypes
  <1>4. ~Closes(p) /\ req[p].type \notin Makers
    BY <1>1 DEF Closes, Makers
  <1>5. \/ ~obj[o].live /\ fault' = "freedDir" /\ UNCHANGED <<obj, req>>
        \/ /\ HasEntry(obj[o]) /\ fault' = fault
           /\ obj' = [obj EXCEPT ![o].pos = @ + 1, ![o].dirent = n]
           /\ req' = [req EXCEPT ![p].ok = TRUE, ![p].got = 1]
        \/ /\ ~HasEntry(obj[o]) /\ UNCHANGED <<obj, fault>>
           /\ req' = [req EXCEPT ![p].ok = TRUE, ![p].got = 0]
        \/ UNCHANGED <<obj, req, fault>>
    BY DEF WorkNext
  <1>p. obj[o].pos \in 0..Entries /\ Entries \in Nat
    BY <1>3, Names DEF Objs
  <1>n. HasEntry(obj[o]) => n \in 1..Entries /\ n \in 0..Entries
    BY <1>p DEF HasEntry
  <1>d. ~HasEntry(obj[o]) => obj[o].pos = Entries
    BY <1>p DEF HasEntry
  <1>m. {0, 1} \subseteq 0..MaxOps \cup {None, Loaded}
    BY Names DEF Ops
  <1>c. CASE UNCHANGED <<obj, req>> /\ (fault' = fault \/ (fault' = "freedDir" /\ ~obj[o].live))
    <2>1. Answered(p)
      BY <1>1, <1>2, <1>c DEF Answered, RequestTypes
    <2>2. ObjectTypes'
      BY <1>1, <1>2, <1>c DEF ObjectTypes, Objects
    <2>3. NextEffect(p)
      BY <1>2, <1>c DEF NextEffect
    <2>4. fault' # "none" => stale # {}
      BY <1>1, <1>2, <1>c DEF DirInv
    <2>5. ASSUME stale = {} PROVE FdInv' /\ DirInv' /\ OwnDescriptor'
      <3>1. FdInv'
        BY <1>1, <1>2, <1>4, <1>c, <2>1, <2>5, AnsweredFds
      <3>2. DirInv'
        BY <1>1, <1>2, <2>1, <2>3, <2>5, NextDirs
      <3>3. OwnDescriptor'
        BY <1>2, <1>c, <2>5 DEF OwnDescriptor
      <3>4. QED
        BY <3>1, <3>2, <3>3
    <2>6. QED
      BY <2>1, <2>2, <2>4, <2>5, WorkDone
  <1>e. ASSUME fault' = fault, NEW g \in {0, 1},
               req' = [req EXCEPT ![p].ok = TRUE, ![p].got = g],
               obj' \in [Ops -> Objs], NextEffect(p)
        PROVE  FilesInv'
    <2>1. /\ req'[p].type = req[p].type /\ req'[p].on = req[p].on /\ req'[p].fd = req[p].fd
          /\ req'[p] \in Reqs
      BY <1>2, <1>e, <1>m DEF RequestTypes, Reqs
    <2>2. req' \in [Ops -> Reqs] /\ \A q \in Ops : q # p => req'[q] = req[q]
      BY <1>2, <1>e, <2>1 DEF RequestTypes
    <2>3. \A x \in Ops : obj'[x].kind = obj[x].kind /\ obj'[x].fd = obj[x].fd
      BY <1>e DEF NextEffect
    <2>4. Answered(p)
      BY <1>1, <2>1, <2>2, <2>3 DEF Answered
    <2>5. ObjectTypes'
      BY <1>1, <1>2, <1>e, <2>3 DEF ObjectTypes, Objects
    <2>6. ASSUME stale = {} PROVE FdInv' /\ DirInv' /\ OwnDescriptor'
      <3>1. FdInv'
        BY <1>1, <1>2, <1>4, <2>1, <2>3, <2>4, <2>6, AnsweredFds
      <3>2. DirInv'
        BY <1>1, <1>2, <1>e, <2>4, <2>6, NextDirs
      <3>3. OwnDescriptor'
        BY <1>1, <1>2, <2>1, <2>2, <2>6 DEF OwnDescriptor
      <3>4. QED
        BY <3>1, <3>2, <3>3
    <2>7. QED
      BY <1>2, <1>e, <2>4, <2>5, <2>6, WorkDone
  <1>6. CASE /\ HasEntry(obj[o]) /\ fault' = fault
             /\ obj' = [obj EXCEPT ![o].pos = @ + 1, ![o].dirent = n]
             /\ req' = [req EXCEPT ![p].ok = TRUE, ![p].got = 1]
    <2>1. n \in 1..Entries /\ n \in 0..Entries
      BY <1>6, <1>n
    <2>2. obj'[o] = [obj[o] EXCEPT !.pos = n, !.dirent = n] /\ \A x \in Ops : x # o => obj'[x] = obj[x]
      BY <1>2, <1>3, <1>6 DEF ObjectTypes
    <2>3. obj'[o] \in Objs
      <3> HIDE DEF n, o
      <3>1. QED
        BY <1>3, <2>1, <2>2 DEF Objs
    <2>4. obj' \in [Ops -> Objs]
      BY <1>2, <1>3, <1>6, <2>2, <2>3 DEF ObjectTypes
    <2>5. req'[p].ok /\ req'[p].got = 1
      BY <1>2, <1>6 DEF RequestTypes, Reqs
    <2>6. /\ obj'[o].kind = obj[o].kind /\ obj'[o].fd = obj[o].fd /\ obj'[o].done = obj[o].done
          /\ obj'[o].live = obj[o].live /\ obj'[o].seen = obj[o].seen
          /\ obj'[o].pos = n /\ obj'[o].dirent = n
      <3> HIDE DEF n, o
      <3>1. QED
        BY <1>3, <2>2 DEF Objs
    <2>7. NextEffect(p)
      BY <2>2, <2>5, <2>6 DEF NextEffect
    <2>8. QED
      BY <1>e, <1>6, <2>4, <2>7
  <1>7. CASE /\ ~HasEntry(obj[o]) /\ UNCHANGED <<obj, fault>>
             /\ req' = [req EXCEPT ![p].ok = TRUE, ![p].got = 0]
    <2>1. req'[p].ok /\ req'[p].got = 0
      BY <1>2, <1>7 DEF RequestTypes, Reqs
    <2>2. NextEffect(p)
      BY <1>7, <1>d, <2>1 DEF NextEffect
    <2>3. obj' \in [Ops -> Objs]
      BY <1>2, <1>7 DEF ObjectTypes
    <2>4. QED
      BY <1>e, <1>7, <2>2, <2>3
  <1>8. QED
    BY <1>5, <1>c, <1>6, <1>7

LEMMA WorkCloseDirStep ==
  ASSUME FilesInv, NEW p \in Ops, WorkCloseDir(p)
  PROVE  FilesInv'
  <1> DEFINE o == req[p].on
  <1>1. Returns(p) /\ req[p].type = "closedir"
    BY DEF WorkCloseDir
  <1>2. /\ fault = "none"
        /\ PoolTypes /\ RequestTypes /\ ObjectTypes /\ PlaceInv /\ RequestInv
        /\ UNCHANGED <<ops, prom, held, stale>>
        /\ p \in InPool /\ p \in InFlight /\ ~req[p].ok /\ req[p] \in Reqs
        /\ stale = {} => ShareInv /\ FdInv /\ DirInv /\ OwnDescriptor
    BY <1>1, WorkFacts
  <1>3. o \in Ops /\ obj[o].kind = "dir" /\ obj[o] \in Objs
    BY <1>1, <1>2 DEF RequestInv, OfDir, OfFile, Makers, Plain, ObjectTypes
  <1>4. Closes(p) /\ req[p].type \in OfDir
    BY <1>1 DEF Closes, OfDir
  <1>5. CASE ~obj[o].live
    <2>1. fault' = "freedDir" /\ UNCHANGED <<tab, obj, req>>
      BY <1>5 DEF WorkCloseDir
    <2>2. stale # {}
      BY <1>1, <1>2, <1>5 DEF DirInv
    <2>3. Answered(p)
      BY <1>1, <1>2, <2>1 DEF Answered, RequestTypes
    <2>4. ObjectTypes'
      BY <1>2, <2>1 DEF ObjectTypes, Objects
    <2>5. QED
      BY <2>2, <2>3, <2>4, WorkDone
  <1>6. CASE obj[o].live
    <2>1. /\ tab' = [tab EXCEPT ![req[p].fd] = None]
          /\ obj' = [obj EXCEPT ![o].live = FALSE]
          /\ req' = [req EXCEPT ![p].ok = TRUE]
          /\ fault' = fault
      BY <1>6 DEF WorkCloseDir
    <2>2. /\ req'[p].type = req[p].type /\ req'[p].on = o /\ req'[p].fd = req[p].fd
          /\ req'[p].got = req[p].got /\ req'[p] \in Reqs
      BY <1>2, <2>1 DEF RequestTypes, Reqs
    <2>3. req' \in [Ops -> Reqs] /\ \A q \in Ops : q # p => req'[q] = req[q]
      BY <1>2, <2>1, <2>2 DEF RequestTypes
    <2>f. req[p].fd \in Fds \cup {None}
      BY <1>2 DEF Reqs
    <2>t. tab' \in [Fds -> Ops \cup {None, Loaded}]
      BY <1>2, <2>1 DEF ObjectTypes
    <2> HIDE DEF o
    <2>4. /\ obj'[o] = [obj[o] EXCEPT !.live = FALSE] /\ \A x \in Ops : x # o => obj'[x] = obj[x]
      BY <1>2, <1>3, <2>1 DEF ObjectTypes
    <2>5. /\ obj'[o].kind = obj[o].kind /\ obj'[o].fd = obj[o].fd /\ obj'[o].done = obj[o].done
          /\ ~obj'[o].live /\ obj'[o].seen = obj[o].seen /\ obj'[o].pos = obj[o].pos
          /\ obj'[o].dirent = obj[o].dirent /\ obj'[o] \in Objs
      BY <1>3, <2>4 DEF Objs
    <2>6. obj' \in [Ops -> Objs]
      BY <1>2, <1>3, <2>1, <2>5 DEF ObjectTypes
    <2>7. \A x \in Ops : obj'[x].kind = obj[x].kind /\ obj'[x].fd = obj[x].fd
      BY <2>4, <2>5
    <2>8. Answered(p)
      BY <1>1, <2>2, <2>3, <2>7 DEF Answered, o
    <2>9. ObjectTypes'
      BY <1>2, <2>1, <2>6, <2>7, <2>t DEF ObjectTypes, Objects
    <2>10. ASSUME stale = {} PROVE FdInv' /\ DirInv' /\ OwnDescriptor'
      <3>1. /\ p \notin InLoop /\ InLoop' = InLoop \cup {p} /\ InFlight' = InFlight
            /\ InPool' = InPool \ {p}
            /\ InPool \subseteq InFlight /\ InLoop \subseteq InFlight /\ InFlight \subseteq Ops
            /\ Objects' = Objects /\ \A q \in Ops : Closes(q)' <=> Closes(q)
        BY <1>2, <2>8, AnsweredRequests
      <3>2. FdInv /\ DirInv /\ ShareInv /\ OwnDescriptor
        BY <1>2, <2>10
      <3>3. req[p].fd # None
        BY <1>1, <1>2, <3>2 DEF FdInv
      <3>4. FdInv'
        BY <1>2, <1>4, <2>1, <2>2, <2>7, <2>8, <3>2, <3>3, ClosedFds
      <3>5. \A q \in InFlight : q # p => req[q].on # o
        BY <1>2, <1>4, <3>2, AloneOnDir DEF o
      <3>6. \A q \in InLoop : req'[q] = req[q] /\ q \in Ops /\ q # p
        BY <2>3, <3>1
      <3>7. \A q \in InFlight : req[q].type \in OfDir /\ q # p => obj'[req[q].on] = obj[req[q].on]
        BY <1>2, <2>4, <3>5 DEF RequestInv, OfDir, OfFile, Makers, Plain
      <3>8. \A q \in InLoop : HasRead(q)' <=> HasRead(q)
        BY <3>6 DEF HasRead
      <3>9. ~HasRead(p)' /\ req'[p].type = "closedir"
        BY <1>1, <2>2 DEF HasRead
      <3>10. \A x : Closed(x) \/ x = o => Closed(x)'
        <4>1. p \in InLoop' /\ req'[p].on = o /\ Closes(p)'
          BY <1>4, <2>2, <3>1
        <4>2. \A q \in InLoop : q \in InLoop' /\ req'[q].on = req[q].on /\ (Closes(q)' <=> Closes(q))
          BY <3>1, <3>6
        <4>3. QED
          BY <4>1, <4>2 DEF Closed
      <3>11. /\ \A q \in InFlight' : req'[q].type = "next" => obj'[req'[q].on].live
             /\ \A q \in InPool' : req'[q].type = "closedir" => obj'[req'[q].on].live
        <4>1. \A q \in InFlight : req'[q].type = "next" => q # p /\ req'[q] = req[q]
          BY <2>3, <3>1, <3>9
        <4>2. \A q \in InPool' : q # p /\ req'[q] = req[q] /\ q \in InPool /\ q \in InFlight
          BY <2>3, <3>1
        <4>3. QED
          BY <3>1, <3>2, <3>7, <4>1, <4>2 DEF DirInv, OfDir
      <3>12. \A x \in Objects' :
               obj'[x].kind = "dir" /\ obj'[x].fd # None /\ ~obj'[x].live => Closed(x)'
        <4>1. SUFFICES ASSUME NEW x \in Objects, x # o, obj'[x].kind = "dir", obj'[x].fd # None,
                              ~obj'[x].live
                       PROVE  Closed(x)
          BY <3>1, <3>10
        <4>2. obj'[x] = obj[x]
          BY <2>4, <4>1 DEF Objects
        <4>3. QED
          BY <3>2, <4>1, <4>2 DEF DirInv
      <3>13. \A q \in InLoop' : req'[q].type = "next" =>
               q \in InLoop /\ req'[q] = req[q] /\ obj'[req[q].on] = obj[req[q].on]
        BY <3>1, <3>6, <3>7, <3>9 DEF OfDir
      <3>14. \A q \in InLoop' : HasRead(q)' =>
               obj'[req'[q].on].dirent = obj'[req'[q].on].pos
                 /\ obj'[req'[q].on].pos = Len(obj'[req'[q].on].seen) + 1
        <4>1. SUFFICES ASSUME NEW q \in InLoop, HasRead(q), req'[q] = req[q], req[q].type = "next"
                       PROVE  /\ obj'[req[q].on].dirent = obj'[req[q].on].pos
                              /\ obj'[req[q].on].pos = Len(obj'[req[q].on].seen) + 1
          BY <3>1, <3>6, <3>8, <3>9 DEF HasRead
        <4>2. obj'[req[q].on] = obj[req[q].on]
          BY <3>1, <3>13, <4>1
        <4>3. /\ obj[req[q].on].dirent = obj[req[q].on].pos
              /\ obj[req[q].on].pos = Len(obj[req[q].on].seen) + 1
          BY <3>2, <4>1 DEF DirInv
        <4>4. QED
          BY <4>2, <4>3
      <3>15. /\ \A q \in InLoop' : req'[q].type = "next" /\ req'[q].ok => req'[q].got \in {0, 1}
             /\ \A q \in InLoop' :
                  req'[q].type = "next" /\ req'[q].ok /\ req'[q].got = 0 => obj'[req'[q].on].pos = Entries
        BY <3>2, <3>13 DEF DirInv
      <3>16. \A x \in Objects' :
               /\ \A i \in DOMAIN obj'[x].seen : obj'[x].seen[i] = i
               /\ obj'[x].done => Len(obj'[x].seen) = Entries
               /\ obj'[x].pos = Len(obj'[x].seen) \/ \E q \in InLoop' : req'[q].on = x /\ HasRead(q)'
        <4>1. \A x \in Objects : obj'[x].seen = obj[x].seen /\ obj'[x].done = obj[x].done /\ obj'[x].pos = obj[x].pos
          BY <2>4, <2>5 DEF Objects
        <4>2. QED
          BY <3>1, <3>2, <3>6, <3>8, <4>1 DEF DirInv
      <3>17. DirInv'
        BY <3>11, <3>12, <3>14, <3>15, <3>16 DEF DirInv
      <3>18. OwnDescriptor'
        BY <1>1, <1>2, <2>2, <2>3, <3>2, <2>10 DEF OwnDescriptor
      <3>19. QED
        BY <3>4, <3>17, <3>18
    <2>11. QED
      BY <1>2, <2>1, <2>8, <2>9, <2>10, WorkDone
  <1>7. QED
    BY <1>5, <1>6

\* The pool
LEMMA PoolStep ==
  ASSUME FilesInv, Pool
  PROVE  FilesInv'
  <1>1. CASE Take
    <2>1. /\ fault = "none" /\ wq # <<>> /\ running' = running \cup {Head(wq)} /\ wq' = Tail(wq)
          /\ UNCHANGED <<ops, req, worked, doneq, prom, obj, held, tab, stale, fault>>
      BY <1>1 DEF Take
    <2>2. PoolTypes /\ PlaceInv
      BY <2>1, TypeParts DEF FilesInv
    <2>3. PoolTypes' /\ PlaceInv' /\ InPool' = InPool /\ InLoop' = InLoop
      BY <2>1, <2>2, TakePlaces
    <2>4. QED
      BY <2>1, <2>3, FrameStep
  <1>2. ASSUME NEW p \in Ops, Post(p) PROVE FilesInv'
    <2>1. fault = "none" /\ UNCHANGED <<ops, req, prom, obj, held, tab, stale, fault>>
      BY <1>2 DEF Post
    <2>2. PoolTypes /\ PlaceInv
      BY <2>1, TypeParts DEF FilesInv
    <2>3. PoolTypes' /\ PlaceInv' /\ InPool' = InPool /\ InLoop' = InLoop
      BY <1>2, <2>2, PostPlaces
    <2>4. QED
      BY <2>1, <2>3, FrameStep
  <1>3. ASSUME NEW p \in Ops, Work(p) PROVE FilesInv'
    BY <1>3, WorkOpenStep, WorkPathStep, WorkIoStep, WorkCloseStep, WorkNextStep, WorkCloseDirStep
    DEF Work
  <1>4. QED
    BY <1>1, <1>2, <1>3 DEF Pool

-----------------------------------------------------------------------------
(***************************************************************************)
(* Callbacks                                                               *)
(***************************************************************************)

\* The facts every callback starts from
LEMMA CalledFacts ==
  ASSUME FilesInv, NEW p \in Ops, Called(p)
  PROVE  /\ fault = "none"
         /\ PoolTypes /\ RequestTypes /\ ObjectTypes /\ PlaceInv /\ RequestInv
         /\ UNCHANGED <<ops, tab>>
         /\ PoolTypes' /\ PlaceInv'
         /\ p \in InLoop /\ p \in InFlight /\ p \notin InPool /\ InPool' = InPool
         /\ InLoop' = InLoop \ {p} /\ InFlight' = InFlight \ {p}
         /\ InPool \subseteq InFlight /\ InLoop \subseteq InFlight /\ InFlight \subseteq Ops
         /\ req[p] \in Reqs /\ obj[p].kind = None
         /\ stale = {} => ShareInv /\ FdInv /\ DirInv /\ OwnDescriptor
  <1>1. fault = "none" /\ UNCHANGED <<ops, tab>>
    BY DEF Called
  <1>2. PoolTypes /\ RequestTypes /\ ObjectTypes /\ PlaceInv /\ RequestInv
    BY <1>1, TypeParts DEF FilesInv
  <1>3. /\ PoolTypes' /\ PlaceInv' /\ p \in InLoop /\ p \notin InPool
        /\ InPool' = InPool /\ InLoop' = InLoop \ {p}
    BY <1>2, CalledPlaces
  <1>4. /\ p \in InFlight /\ InFlight' = InFlight \ {p}
        /\ InPool \subseteq InFlight /\ InLoop \subseteq InFlight /\ InFlight \subseteq Ops
    BY <1>2, <1>3, PlacesType DEF InFlight
  <1>5. req[p] \in Reqs /\ obj[p].kind = None
    BY <1>2, <1>4 DEF RequestTypes, RequestInv
  <1>6. QED
    BY <1>1, <1>2, <1>3, <1>4, <1>5 DEF FilesInv, CleanInv

\* The request is settled and freed, and no object but p's changes its kind.
LEMMA SettledRequests ==
  ASSUME FilesInv, NEW p \in Ops, Called(p), SettleReq(p),
         \A x \in Ops : x # p => obj'[x].kind = obj[x].kind
  PROVE  /\ RequestTypes' /\ RequestInv'
         /\ req'[p] = NoReq /\ \A q \in Ops : q # p => req'[q] = req[q]
         /\ \A q \in InFlight' : req'[q] = req[q] /\ q # p /\ q \in InFlight
         /\ \A q \in InFlight : req[q].on # p
         /\ ShareInv => ShareInv'
         /\ stale = {} /\ stale' = {} => OwnDescriptor'
  <1>1. /\ PoolTypes /\ RequestTypes /\ PlaceInv /\ RequestInv /\ ops' = ops
        /\ p \in InLoop /\ p \in InFlight /\ p \notin InPool /\ InPool' = InPool
        /\ InFlight' = InFlight \ {p}
        /\ InPool \subseteq InFlight /\ InFlight \subseteq Ops
        /\ obj[p].kind = None
        /\ stale = {} => OwnDescriptor
    BY CalledFacts
  <1>2. /\ prom' = [prom EXCEPT ![p] = "settled"] /\ req' = [req EXCEPT ![p] = NoReq]
    BY DEF SettleReq
  <1>3. req'[p] = NoReq /\ \A q \in Ops : q # p => req'[q] = req[q]
    BY <1>1, <1>2 DEF RequestTypes
  <1>4. \A q \in InFlight' : req'[q] = req[q] /\ q # p /\ q \in InFlight
    BY <1>1, <1>3
  <1>5. RequestTypes'
    BY <1>1, <1>2, NoReqType DEF RequestTypes
  <1>6. \A q \in InFlight : req[q].on # p
    BY <1>1, Names DEF RequestInv
  <1>7. RequestInv'
    <2>1. /\ \A q \in Ops : prom'[q] = "pending" <=> q \in InFlight'
          /\ \A q \in Ops : q > ops' => prom'[q] = "none"
      <3>1. p <= ops
        <4>1. prom[p] # "none"
          BY <1>1 DEF RequestInv
        <4>2. QED
          BY <1>1, <4>1, Names DEF RequestInv, RequestTypes, Ops
      <3>2. \A q \in Ops : q > ops => q # p
        BY <1>1, <3>1, Names DEF RequestTypes, Ops
      <3>3. QED
        BY <1>1, <1>2, <3>2 DEF RequestInv, RequestTypes
    <2>2. \A q \in Ops : q \notin InFlight' => req'[q] = NoReq
      BY <1>1, <1>3 DEF RequestInv
    <2>3. \A q \in Ops : prom'[q] # "settled" => obj'[q].kind = None
      BY <1>1, <1>2 DEF RequestInv, RequestTypes
    <2>4. \A q \in InFlight' :
            \/ req'[q].type \in Makers \cup Plain /\ req'[q].on = None
            \/ req'[q].type \in OfFile /\ req'[q].on \in Ops /\ obj'[req'[q].on].kind = "file"
            \/ req'[q].type \in OfDir /\ req'[q].on \in Ops /\ obj'[req'[q].on].kind = "dir"
      BY <1>1, <1>4, <1>6 DEF RequestInv
    <2>5. \A q \in InPool' : ~req'[q].ok /\ req'[q].got = None
      BY <1>1, <1>3 DEF RequestInv
    <2>6. QED
      BY <2>1, <2>2, <2>3, <2>4, <2>5 DEF RequestInv
  <1>8. ASSUME ShareInv PROVE ShareInv'
    <2>1. SUFFICES ASSUME NEW q1 \in InFlight', NEW q2 \in InFlight', q1 # q2,
                          req'[q1].on = req'[q2].on, req'[q1].on # None
                   PROVE  obj'[req'[q1].on].kind = "file" /\ ~Closes(q1)'
      BY DEF ShareInv
    <2>2. /\ req'[q1] = req[q1] /\ req[q1].on = req[q2].on /\ req[q1].on # None
          /\ q1 \in InFlight /\ q2 \in InFlight
      BY <1>4, <2>1
    <2>3. obj[req[q1].on].kind = "file" /\ ~Closes(q1)
      BY <1>8, <2>1, <2>2 DEF ShareInv
    <2>4. req[q1].on \in Ops /\ req[q1].on # p
      BY <1>1, <1>6, <2>2 DEF RequestInv
    <2>5. QED
      BY <2>2, <2>3, <2>4 DEF Closes
  <1>9. ASSUME stale = {}, stale' = {} PROVE OwnDescriptor'
    BY <1>1, <1>3, <1>9, NoReqType, Names DEF OwnDescriptor, Types, OfFile
  <1>10. QED
    BY <1>3, <1>4, <1>5, <1>6, <1>7, <1>8, <1>9

\* The callback leaves the descriptors with their objects: it makes the object of
\* the file that was opened, and clears the descriptor of the one that was closed.
FdEffect(p) ==
  /\ \A x \in Ops : x # p =>
       /\ obj'[x].kind = obj[x].kind
       /\ obj'[x].fd = obj[x].fd \/ (obj'[x].fd = None /\ Closes(p) /\ req[p].on = x)
  /\ \/ obj'[p] = obj[p]
     \/ req[p].type \in Makers /\ req[p].ok
  /\ req[p].type \in Makers /\ req[p].ok => obj'[p].kind # None /\ obj'[p].fd = req[p].fd
  /\ Closes(p) => obj'[req[p].on].fd = None

LEMMA SettledFds ==
  ASSUME FilesInv, NEW p \in Ops, Called(p), SettleReq(p), FdEffect(p), ShareInv, FdInv
  PROVE  FdInv'
  <1>1. /\ PoolTypes /\ RequestTypes /\ ObjectTypes /\ PlaceInv /\ RequestInv /\ tab' = tab
        /\ p \in InLoop /\ p \in InFlight /\ InLoop' = InLoop \ {p} /\ InFlight' = InFlight \ {p}
        /\ InLoop \subseteq InFlight /\ InFlight \subseteq Ops
        /\ obj[p].kind = None
    BY CalledFacts
  <1>2. /\ \A q \in InFlight' : req'[q] = req[q] /\ q # p /\ q \in InFlight
        /\ \A q \in InFlight : req[q].on # p
    BY SettledRequests DEF FdEffect
  <1>3. \A q \in InLoop' : req'[q] = req[q] /\ q # p /\ q \in InLoop
    BY <1>1, <1>2
  <1>4. \A q \in InFlight' : req'[q].on # None => req'[q].fd = obj'[req'[q].on].fd
    <2>1. SUFFICES ASSUME NEW q \in InFlight, q # p, req[q].on # None, req'[q] = req[q]
                   PROVE  req[q].fd = obj'[req[q].on].fd
      BY <1>2
    <2>2. req[q].on \in Ops /\ req[q].on # p
      BY <1>1, <1>2, <2>1 DEF RequestInv
    <2>3. ~(Closes(p) /\ req[p].on = req[q].on)
      BY <1>1, <2>1 DEF ShareInv
    <2>4. obj'[req[q].on].fd = obj[req[q].on].fd
      BY <2>2, <2>3 DEF FdEffect
    <2>5. QED
      BY <2>1, <2>4 DEF FdInv
  <1>5. \A q \in InFlight' : req'[q].type = "closedir" => req'[q].fd # None
    BY <1>2 DEF FdInv
  <1>6. \A x \in Objects' : obj'[x].fd = None \/ tab'[obj'[x].fd] = x \/ Closed(x)'
    <2>1. SUFFICES ASSUME NEW x \in Ops, obj'[x].kind # None, obj'[x].fd # None, ~Closed(x)'
                   PROVE  tab[obj'[x].fd] = x
      BY <1>1 DEF Objects
    <2>2. CASE x = p
      <3>1. req[p].type \in Makers /\ req[p].ok /\ obj'[p].fd = req[p].fd
        BY <1>1, <2>1, <2>2 DEF FdEffect
      <3>2. QED
        BY <1>1, <2>2, <3>1 DEF FdInv
    <2>3. CASE x # p
      <3>1. obj'[x].fd = obj[x].fd /\ x \in Objects
        BY <2>1, <2>3 DEF FdEffect, Objects
      <3>2. ~Closed(x)
        <4>1. SUFFICES ASSUME NEW q \in InLoop, req[q].on = x, Closes(q) PROVE FALSE
          BY DEF Closed
        <4>2. q # p
          BY <2>1, <4>1 DEF FdEffect
        <4>3. q \in InLoop' /\ req'[q] = req[q]
          BY <1>1, <1>2, <4>1, <4>2
        <4>4. QED
          BY <2>1, <4>1, <4>3 DEF Closed, Closes
      <3>3. QED
        BY <2>1, <3>1, <3>2 DEF FdInv
    <2>4. QED
      BY <2>2, <2>3
  <1>7. \A q \in InLoop' : Closes(q)' => \A d \in Fds : tab'[d] # req'[q].on
    BY <1>1, <1>3 DEF FdInv, Closes
  <1>8. \A q \in InLoop' :
          req'[q].type \in Makers /\ req'[q].ok => req'[q].fd # None /\ tab'[req'[q].fd] = q
    BY <1>1, <1>3 DEF FdInv
  <1>9. \A d \in Fds : tab'[d] \in Ops =>
          \/ obj'[tab'[d]].kind # None /\ obj'[tab'[d]].fd = d
          \/ /\ tab'[d] \in InLoop' /\ req'[tab'[d]].type \in Makers
             /\ req'[tab'[d]].ok /\ req'[tab'[d]].fd = d
    <2>1. SUFFICES ASSUME NEW d \in Fds, NEW f \in Ops, tab[d] = f
                   PROVE  \/ obj'[f].kind # None /\ obj'[f].fd = d
                          \/ f \in InLoop' /\ req'[f].type \in Makers /\ req'[f].ok /\ req'[f].fd = d
      BY <1>1
    <2>2. \/ obj[f].kind # None /\ obj[f].fd = d
          \/ f \in InLoop /\ req[f].type \in Makers /\ req[f].ok /\ req[f].fd = d
      BY <2>1 DEF FdInv
    <2>3. CASE obj[f].kind # None /\ obj[f].fd = d
      <3>1. f # p
        BY <1>1, <2>3
      <3>2. ~(Closes(p) /\ req[p].on = f)
        BY <1>1, <2>1 DEF FdInv
      <3>3. QED
        BY <2>3, <3>1, <3>2 DEF FdEffect
    <2>4. CASE f \in InLoop /\ req[f].type \in Makers /\ req[f].ok /\ req[f].fd = d
      <3>1. CASE f = p
        BY <2>4, <3>1 DEF FdEffect
      <3>2. CASE f # p
        BY <1>1, <1>2, <2>4, <3>2
      <3>3. QED
        BY <3>1, <3>2
    <2>5. QED
      BY <2>2, <2>3, <2>4
  <1>10. QED
    BY <1>4, <1>5, <1>6, <1>7, <1>8, <1>9 DEF FdInv

\* The callback is not of a next(): no directory is read, and a new one is at its
\* start.
DirEffect(p) ==
  /\ req[p].type # "next"
  /\ \A x \in Ops : x # p =>
       /\ obj'[x].pos = obj[x].pos /\ obj'[x].dirent = obj[x].dirent
       /\ obj'[x].done = obj[x].done /\ obj'[x].live = obj[x].live
       /\ obj'[x].seen = obj[x].seen
  /\ obj'[p].kind # None => obj'[p].live /\ ~obj'[p].done /\ obj'[p].pos = 0 /\ obj'[p].seen = <<>>

LEMMA SettledDirs ==
  ASSUME FilesInv, NEW p \in Ops, Called(p), SettleReq(p), FdEffect(p), DirEffect(p), DirInv
  PROVE  DirInv'
  <1>1. /\ PoolTypes /\ RequestTypes /\ ObjectTypes /\ PlaceInv /\ RequestInv /\ tab' = tab
        /\ p \in InLoop /\ p \in InFlight /\ InLoop' = InLoop \ {p} /\ InFlight' = InFlight \ {p}
        /\ InPool' = InPool /\ p \notin InPool
        /\ InPool \subseteq InFlight /\ InLoop \subseteq InFlight /\ InFlight \subseteq Ops
        /\ obj[p].kind = None
    BY CalledFacts
  <1>2. /\ \A q \in InFlight' : req'[q] = req[q] /\ q # p /\ q \in InFlight
        /\ \A q \in InFlight : req[q].on # p
    BY SettledRequests DEF FdEffect
  <1>3. \A q \in InLoop' : req'[q] = req[q] /\ q # p /\ q \in InLoop
    BY <1>1, <1>2
  <1>4. \A q \in InFlight : req[q].type \in OfDir => req[q].on \in Ops /\ req[q].on # p
    BY <1>1, <1>2 DEF RequestInv, OfDir, OfFile, Makers, Plain
  <1>5. \A q \in InLoop' : HasRead(q)' <=> HasRead(q)
    BY <1>3 DEF HasRead
  <1>6. /\ \A q \in InFlight' : req'[q].type = "next" => obj'[req'[q].on].live
        /\ \A q \in InPool' : req'[q].type = "closedir" => obj'[req'[q].on].live
    <2>1. \A q \in InPool : req'[q] = req[q] /\ q \in InFlight
      BY <1>1, <1>2
    <2>2. QED
      BY <1>1, <1>2, <1>4, <2>1 DEF DirInv, DirEffect, OfDir
  <1>7. \A x \in Objects' : obj'[x].kind = "dir" /\ obj'[x].fd # None /\ ~obj'[x].live => Closed(x)'
    <2>1. SUFFICES ASSUME NEW x \in Ops, obj'[x].kind = "dir", obj'[x].fd # None, ~obj'[x].live
                   PROVE  Closed(x)'
      BY DEF Objects
    <2>2. x # p
      BY <2>1, Names DEF DirEffect
    <2>3. obj[x].kind = "dir" /\ obj[x].fd = obj'[x].fd /\ ~obj[x].live
      BY <2>1, <2>2 DEF DirEffect, FdEffect
    <2>4. PICK q \in InLoop : req[q].on = x /\ Closes(q)
      BY <2>1, <2>3, Names DEF DirInv, Objects, Closed
    <2>5. q # p
      BY <2>1, <2>4 DEF FdEffect
    <2>6. q \in InLoop' /\ req'[q] = req[q]
      BY <1>1, <1>3, <2>4, <2>5
    <2>7. QED
      BY <2>4, <2>6 DEF Closed, Closes
  <1>8. \A q \in InLoop : HasRead(q) => q # p /\ req[q].on # p /\ req[q].on \in Ops
    BY <1>1, <1>4 DEF HasRead, DirEffect, OfDir
  <1>9. \A q \in InLoop' : HasRead(q)' =>
          obj'[req'[q].on].dirent = obj'[req'[q].on].pos
            /\ obj'[req'[q].on].pos = Len(obj'[req'[q].on].seen) + 1
    <2>1. SUFFICES ASSUME NEW q \in InLoop, HasRead(q)
                   PROVE  obj'[req[q].on].dirent = obj'[req[q].on].pos
                            /\ obj'[req[q].on].pos = Len(obj'[req[q].on].seen) + 1
      BY <1>3, <1>5
    <2>2. QED
      BY <1>8, <2>1 DEF DirInv, DirEffect
  <1>10. /\ \A q \in InLoop' : req'[q].type = "next" /\ req'[q].ok => req'[q].got \in {0, 1}
         /\ \A q \in InLoop' :
              req'[q].type = "next" /\ req'[q].ok /\ req'[q].got = 0 => obj'[req'[q].on].pos = Entries
    BY <1>1, <1>3, <1>4 DEF DirInv, DirEffect, OfDir
  <1>11. ASSUME NEW x \in Objects'
         PROVE  /\ \A i \in DOMAIN obj'[x].seen : obj'[x].seen[i] = i
                /\ obj'[x].done => Len(obj'[x].seen) = Entries
                /\ obj'[x].pos = Len(obj'[x].seen) \/ \E q \in InLoop' : req'[q].on = x /\ HasRead(q)'
    <2>1. x \in Ops /\ obj'[x].kind # None
      BY <1>11 DEF Objects
    <2>2. CASE x = p
      BY <2>1, <2>2 DEF DirEffect
    <2>3. CASE x # p
      <3>1. x \in Objects /\ obj'[x].seen = obj[x].seen /\ obj'[x].done = obj[x].done /\ obj'[x].pos = obj[x].pos
        BY <2>1, <2>3 DEF Objects, DirEffect, FdEffect
      <3>2. ASSUME NEW q \in InLoop, req[q].on = x, HasRead(q)
            PROVE  q \in InLoop' /\ req'[q].on = x /\ HasRead(q)'
        BY <1>1, <1>3, <1>5, <1>8, <3>2
      <3>3. QED
        BY <3>1, <3>2 DEF DirInv
    <2>4. QED
      BY <2>2, <2>3
  <1>12. QED
    BY <1>6, <1>7, <1>9, <1>10, <1>11 DEF DirInv

\* The invariant, put together after a callback
LEMMA CallbackDone ==
  ASSUME FilesInv, NEW p \in Ops, Called(p), SettleReq(p),
         \A x \in Ops : x # p => obj'[x].kind = obj[x].kind,
         ObjectTypes', fault' = fault,
         stale' = {} => stale = {} /\ FdInv' /\ DirInv'
  PROVE  FilesInv'
  <1>1. fault = "none" /\ PoolTypes' /\ PlaceInv' /\ (stale = {} => ShareInv)
    BY CalledFacts
  <1>2. /\ RequestTypes' /\ RequestInv'
        /\ ShareInv => ShareInv'
        /\ stale = {} /\ stale' = {} => OwnDescriptor'
    BY SettledRequests
  <1>3. QED
    BY <1>1, <1>2, TypeParts DEF FilesInv, FaultIsMisuse, CleanInv

\* The same for the callbacks that are not of a next()
LEMMA SettledStep ==
  ASSUME FilesInv, NEW p \in Ops, Called(p), SettleReq(p),
         \A x \in Ops : x # p => obj'[x].kind = obj[x].kind,
         ObjectTypes', fault' = fault,
         stale' = {} => stale = {} /\ FdEffect(p) /\ DirEffect(p)
  PROVE  FilesInv'
  <1>1. ASSUME stale' = {} PROVE stale = {} /\ FdInv' /\ DirInv'
    <2>1. stale = {} /\ FdEffect(p) /\ DirEffect(p)
      BY <1>1
    <2>2. ShareInv /\ FdInv /\ DirInv
      BY <2>1, CalledFacts
    <2>3. FdInv'
      BY <2>1, <2>2, SettledFds
    <2>4. DirInv'
      BY <2>1, <2>2, SettledDirs
    <2>5. QED
      BY <2>1, <2>3, <2>4
  <1>2. QED
    BY <1>1, CallbackDone

LEMMA OpenCbStep ==
  ASSUME FilesInv, NEW p \in Ops, OpenCb(p)
  PROVE  FilesInv'
  <1>1. /\ Called(p) /\ SettleReq(p) /\ req[p].type \in Makers
        /\ UNCHANGED <<stale, fault>>
        /\ \/ req[p].ok /\ obj' = [obj EXCEPT ![p] = NewObj(p)] /\ held' = held \cup {p}
           \/ ~req[p].ok /\ UNCHANGED <<obj, held>>
    BY DEF OpenCb
  <1>2. /\ fault = "none" /\ ObjectTypes /\ tab' = tab
        /\ req[p] \in Reqs /\ obj[p].kind = None
    BY <1>1, CalledFacts
  <1>3. ~Closes(p) /\ req[p].type # "next"
    BY <1>1 DEF Closes, Makers
  <1>4. CASE req[p].ok /\ obj' = [obj EXCEPT ![p] = NewObj(p)] /\ held' = held \cup {p}
    <2>1. /\ NewObj(p) \in Objs /\ NewObj(p).kind # None /\ NewObj(p).fd = req[p].fd
          /\ NewObj(p).live /\ ~NewObj(p).done /\ NewObj(p).pos = 0 /\ NewObj(p).seen = <<>>
      <3>1. 0 \in 0..Entries /\ <<>> \in Seq(1..Entries)
        BY Names, EmptyIsSeq
      <3>2. req[p].fd \in Fds \cup {None}
        BY <1>2 DEF Reqs
      <3>3. QED
        BY <3>1, <3>2, Names DEF NewObj, Objs, Kinds
    <2>2. obj'[p] = NewObj(p) /\ \A x \in Ops : x # p => obj'[x] = obj[x]
      BY <1>2, <1>4 DEF ObjectTypes
    <2>3. ObjectTypes'
      <3>1. obj' \in [Ops -> Objs]
        BY <1>2, <1>4, <2>1 DEF ObjectTypes
      <3>2. held' \subseteq Objects'
        BY <1>2, <1>4, <2>1, <2>2 DEF ObjectTypes, Objects
      <3>3. QED
        BY <1>1, <1>2, <3>1, <3>2 DEF ObjectTypes
    <2>4. FdEffect(p)
      BY <1>1, <1>3, <1>4, <2>1, <2>2 DEF FdEffect
    <2>5. DirEffect(p)
      BY <1>3, <2>1, <2>2 DEF DirEffect
    <2>6. QED
      BY <1>1, <2>2, <2>3, <2>4, <2>5, SettledStep
  <1>5. CASE ~req[p].ok /\ UNCHANGED <<obj, held>>
    <2>1. ObjectTypes'
      BY <1>1, <1>2, <1>5 DEF ObjectTypes, Objects
    <2>2. FdEffect(p)
      BY <1>3, <1>5 DEF FdEffect
    <2>3. DirEffect(p)
      BY <1>2, <1>3, <1>5 DEF DirEffect
    <2>4. QED
      BY <1>1, <1>5, <2>1, <2>2, <2>3, SettledStep
  <1>6. QED
    BY <1>1, <1>4, <1>5

LEMMA PlainCbStep ==
  ASSUME FilesInv, NEW p \in Ops, PlainCb(p)
  PROVE  FilesInv'
  <1>1. /\ Called(p) /\ SettleReq(p) /\ req[p].type \in Plain \cup {"io"}
        /\ UNCHANGED <<obj, held, stale, fault>>
    BY DEF PlainCb
  <1>2. /\ fault = "none" /\ ObjectTypes /\ tab' = tab /\ obj[p].kind = None
    BY <1>1, CalledFacts
  <1>3. ~Closes(p) /\ req[p].type # "next" /\ req[p].type \notin Makers
    BY <1>1 DEF Closes, Makers, Plain
  <1>4. ObjectTypes'
    BY <1>1, <1>2 DEF ObjectTypes, Objects
  <1>5. FdEffect(p)
    BY <1>1, <1>3 DEF FdEffect
  <1>6. DirEffect(p)
    BY <1>1, <1>2, <1>3 DEF DirEffect
  <1>7. QED
    BY <1>1, <1>4, <1>5, <1>6, SettledStep

\* close() has failed or there is nothing to close, or the object loses its
\* descriptor.
LEMMA CloseCbStep ==
  ASSUME FilesInv, NEW p \in Ops, CloseCb(p)
  PROVE  FilesInv'
  <1> DEFINE o == req[p].on
             closed == [obj[o] EXCEPT !.fd = None]
  <1>1. /\ Called(p) /\ SettleReq(p) /\ Closes(p)
        /\ obj' = AfterClose(p)
        /\ stale' = IF ~req[p].ok /\ req[p].fd # None THEN stale \cup {o} ELSE stale
        /\ UNCHANGED <<held, fault>>
    BY DEF CloseCb, Closes
  <1>2. /\ fault = "none" /\ ObjectTypes /\ RequestInv /\ tab' = tab
        /\ p \in InFlight /\ obj[p].kind = None
        /\ stale = {} => FdInv
    BY <1>1, CalledFacts
  <1>3. /\ o \in Ops /\ obj[o].kind # None /\ o # p /\ obj[o] \in Objs
        /\ req[p].type # "next" /\ req[p].type \notin Makers
    BY <1>1, <1>2, Names DEF RequestInv, Closes, Makers, Plain, ObjectTypes
  <1>4. stale' \subseteq Ops /\ stale \subseteq stale'
    BY <1>1, <1>2, <1>3 DEF ObjectTypes
  <1>5. /\ closed \in Objs /\ closed.kind = obj[o].kind /\ closed.fd = None
        /\ closed.pos = obj[o].pos /\ closed.dirent = obj[o].dirent /\ closed.done = obj[o].done
        /\ closed.live = obj[o].live /\ closed.seen = obj[o].seen
    <2> HIDE DEF o
    <2>1. QED
      BY <1>3 DEF Objs
  <1>6. \/ req[p].ok /\ obj' = [obj EXCEPT ![o] = closed]
        \/ ~req[p].ok /\ obj' = obj
    BY <1>1 DEF AfterClose
  <1> HIDE DEF closed, o
  <1>7. CASE req[p].ok /\ obj' = [obj EXCEPT ![o] = closed]
    <2>1. obj'[o] = closed /\ \A x \in Ops : x # o => obj'[x] = obj[x]
      BY <1>2, <1>3, <1>7 DEF ObjectTypes
    <2>2. ObjectTypes'
      <3>1. obj' \in [Ops -> Objs]
        BY <1>2, <1>5, <1>7 DEF ObjectTypes
      <3>2. Objects' = Objects
        BY <1>5, <2>1 DEF Objects
      <3>3. QED
        BY <1>1, <1>2, <1>4, <3>1, <3>2 DEF ObjectTypes
    <2>3. FdEffect(p)
      BY <1>1, <1>3, <1>5, <2>1 DEF FdEffect, o
    <2>4. DirEffect(p)
      BY <1>2, <1>3, <1>5, <2>1 DEF DirEffect
    <2>5. QED
      BY <1>1, <1>4, <1>5, <2>1, <2>2, <2>3, <2>4, SettledStep
  <1>8. CASE ~req[p].ok /\ obj' = obj
    <2>1. ObjectTypes'
      BY <1>1, <1>2, <1>4, <1>8 DEF ObjectTypes, Objects
    <2>2. ASSUME stale' = {} PROVE FdEffect(p)
      <3>1. req[p].fd = None /\ stale = {}
        BY <1>1, <1>4, <1>8, <2>2
      <3>2. obj[o].fd = None
        BY <1>2, <1>3, <3>1, Names DEF FdInv, o
      <3>3. QED
        BY <1>3, <1>8, <3>2 DEF FdEffect, o
    <2>3. DirEffect(p)
      BY <1>2, <1>3, <1>8 DEF DirEffect
    <2>4. QED
      BY <1>1, <1>4, <1>8, <2>1, <2>2, <2>3, SettledStep
  <1>9. QED
    BY <1>6, <1>7, <1>8

\* What the callback of a next() may do to its directory
TellEffect(p) ==
  LET o == req[p].on
  IN  /\ \A x \in Ops : x # o => obj'[x] = obj[x]
      /\ obj'[o].kind = obj[o].kind /\ obj'[o].fd = obj[o].fd
      /\ obj'[o].live = obj[o].live /\ obj'[o].pos = obj[o].pos
      /\ req[p].ok =>
           /\ obj'[o].done <=> req[p].got = 0
           /\ req[p].got = 1 => obj'[o].seen = Append(obj[o].seen, obj[o].dirent)
           /\ req[p].got # 1 => obj'[o].seen = obj[o].seen
      /\ ~req[p].ok => obj'[o] = obj[o]

LEMMA ToldDirs ==
  ASSUME FilesInv, NEW p \in Ops, Called(p), SettleReq(p), ShareInv, DirInv,
         req[p].type = "next", TellEffect(p)
  PROVE  DirInv'
  <1> DEFINE o == req[p].on
  <1>1. /\ PoolTypes /\ RequestTypes /\ ObjectTypes /\ PlaceInv /\ RequestInv
        /\ p \in InLoop /\ p \in InFlight /\ InLoop' = InLoop \ {p} /\ InFlight' = InFlight \ {p}
        /\ InPool' = InPool /\ p \notin InPool
        /\ InPool \subseteq InFlight /\ InLoop \subseteq InFlight /\ InFlight \subseteq Ops
    BY CalledFacts
  <1>2. /\ o \in Ops /\ obj[o].kind = "dir" /\ obj[o] \in Objs
        /\ \A q \in InFlight : q # p => req[q].on # o
    BY <1>1, AloneOnDir DEF OfDir, ObjectTypes
  <1> HIDE DEF o
  <1>3. /\ \A x \in Ops : x # o => obj'[x] = obj[x]
        /\ obj'[o].kind = obj[o].kind /\ obj'[o].fd = obj[o].fd
        /\ obj'[o].live = obj[o].live /\ obj'[o].pos = obj[o].pos
        /\ req[p].ok =>
             /\ obj'[o].done <=> req[p].got = 0
             /\ req[p].got = 1 => obj'[o].seen = Append(obj[o].seen, obj[o].dirent)
             /\ req[p].got # 1 => obj'[o].seen = obj[o].seen
        /\ ~req[p].ok => obj'[o] = obj[o]
    BY DEF TellEffect, o
  <1>4. \A q \in InFlight' : req'[q] = req[q] /\ q # p /\ q \in InFlight /\ q \in Ops
    <2>1. \A x \in Ops : obj'[x].kind = obj[x].kind
      BY <1>3
    <2>2. QED
      BY <1>1, <2>1, SettledRequests
  <1>5. \A q \in InLoop' : req'[q] = req[q] /\ q # p /\ q \in InLoop /\ req[q].on # o
    BY <1>1, <1>2, <1>4
  <1>6. \A q \in InPool' : req'[q] = req[q] /\ q # p /\ q \in InPool /\ req[q].on # o
    BY <1>1, <1>2, <1>4
  <1>7. \A q \in InFlight : req[q].type \in OfDir => req[q].on \in Ops
    BY <1>1 DEF RequestInv, OfDir, OfFile, Makers, Plain
  <1>8. \A q \in InLoop' : HasRead(q)' <=> HasRead(q)
    BY <1>5 DEF HasRead
  <1>9. Objects' = Objects
    BY <1>3 DEF Objects
  <1>10. \A q \in InFlight' : req[q].type = "next" => obj'[req[q].on] = obj[req[q].on]
    BY <1>1, <1>2, <1>3, <1>4, <1>7 DEF OfDir
  <1>11. /\ \A q \in InFlight' : req'[q].type = "next" => obj'[req'[q].on].live
         /\ \A q \in InPool' : req'[q].type = "closedir" => obj'[req'[q].on].live
    BY <1>1, <1>3, <1>4, <1>6, <1>7, <1>10 DEF DirInv, OfDir
  <1>12. \A x \in Objects' : obj'[x].kind = "dir" /\ obj'[x].fd # None /\ ~obj'[x].live => Closed(x)'
    <2>1. SUFFICES ASSUME NEW x \in Objects, obj'[x].kind = "dir", obj'[x].fd # None, ~obj'[x].live
                   PROVE  Closed(x)'
      BY <1>9
    <2>2. obj[x].kind = "dir" /\ obj[x].fd # None /\ ~obj[x].live
      BY <1>3, <2>1 DEF Objects
    <2>3. PICK q \in InLoop : req[q].on = x /\ Closes(q)
      BY <2>1, <2>2 DEF DirInv, Closed
    <2>4. q # p
      BY <2>3 DEF Closes
    <2>5. q \in InLoop' /\ req'[q] = req[q]
      BY <1>1, <1>5, <2>4
    <2>6. QED
      BY <2>3, <2>5 DEF Closed, Closes
  <1>13. \A q \in InLoop' : HasRead(q)' =>
           obj'[req'[q].on].dirent = obj'[req'[q].on].pos
             /\ obj'[req'[q].on].pos = Len(obj'[req'[q].on].seen) + 1
    <2>1. SUFFICES ASSUME NEW q \in InLoop', HasRead(q), q \in InLoop
                   PROVE  obj'[req[q].on].dirent = obj'[req[q].on].pos
                            /\ obj'[req[q].on].pos = Len(obj'[req[q].on].seen) + 1
      BY <1>5, <1>8
    <2>2. obj'[req[q].on] = obj[req[q].on]
      BY <1>1, <1>2, <1>3, <1>5, <1>7, <2>1 DEF HasRead, OfDir
    <2>3. QED
      BY <2>1, <2>2 DEF DirInv
  <1>14. /\ \A q \in InLoop' : req'[q].type = "next" /\ req'[q].ok => req'[q].got \in {0, 1}
         /\ \A q \in InLoop' :
              req'[q].type = "next" /\ req'[q].ok /\ req'[q].got = 0 => obj'[req'[q].on].pos = Entries
    <2>1. \A q \in InLoop' : req[q].type = "next" => obj'[req[q].on] = obj[req[q].on]
      BY <1>1, <1>2, <1>3, <1>5, <1>7 DEF OfDir
    <2>2. QED
      BY <1>5, <2>1 DEF DirInv
  <1>15. /\ \A i \in DOMAIN obj'[o].seen : obj'[o].seen[i] = i
         /\ obj'[o].done => Len(obj'[o].seen) = Entries
         /\ obj'[o].pos = Len(obj'[o].seen)
    <2>1. /\ \A i \in DOMAIN obj[o].seen : obj[o].seen[i] = i
          /\ obj[o].done => Len(obj[o].seen) = Entries
          /\ obj[o].pos = Len(obj[o].seen) \/ HasRead(p)
      BY <1>1, <1>2, Names DEF DirInv, Objects
    <2>2. CASE HasRead(p)
      <3>1. obj[o].dirent = obj[o].pos /\ obj[o].pos = Len(obj[o].seen) + 1
        BY <1>1, <2>2 DEF DirInv, o
      <3>2. obj'[o].seen = Append(obj[o].seen, Len(obj[o].seen) + 1) /\ ~obj'[o].done
        BY <1>3, <2>2, <3>1 DEF HasRead
      <3>3. obj[o].seen \in Seq(1..Entries)
        BY <1>2 DEF Objs
      <3>4. QED
        BY <1>3, <2>1, <3>1, <3>2, <3>3
    <2>3. CASE ~HasRead(p)
      <3>1. CASE ~req[p].ok
        BY <1>3, <2>1, <2>3, <3>1
      <3>2. CASE req[p].ok
        <4>1. req[p].got = 0
          BY <1>1, <2>3, <3>2 DEF DirInv, HasRead
        <4>2. obj[o].pos = Entries
          BY <1>1, <3>2, <4>1 DEF DirInv, o
        <4>3. QED
          BY <1>3, <2>1, <2>3, <3>2, <4>1, <4>2
      <3>3. QED
        BY <3>1, <3>2
    <2>4. QED
      BY <2>2, <2>3
  <1>16. ASSUME NEW x \in Objects, x # o
         PROVE  /\ \A i \in DOMAIN obj'[x].seen : obj'[x].seen[i] = i
                /\ obj'[x].done => Len(obj'[x].seen) = Entries
                /\ obj'[x].pos = Len(obj'[x].seen) \/ \E q \in InLoop' : req'[q].on = x /\ HasRead(q)'
    <2>1. obj'[x] = obj[x]
      BY <1>3, <1>16 DEF Objects
    <2>2. ASSUME NEW q \in InLoop, req[q].on = x, HasRead(q)
          PROVE  q \in InLoop' /\ req'[q].on = x /\ HasRead(q)'
      BY <1>1, <1>5, <1>8, <1>16, <2>2 DEF o
    <2>3. QED
      BY <2>1, <2>2 DEF DirInv
  <1>17. QED
    BY <1>9, <1>11, <1>12, <1>13, <1>14, <1>15, <1>16 DEF DirInv

LEMMA NextCbStep ==
  ASSUME FilesInv, NEW p \in Ops, NextCb(p)
  PROVE  FilesInv'
  <1> DEFINE o == req[p].on
             told == AfterNext(p, obj[o])
  <1>1. /\ Called(p) /\ req[p].type = "next" /\ UNCHANGED <<held, stale>>
        /\ \/ ~obj[o].live /\ fault' = "freedDir" /\ UNCHANGED <<req, obj, prom>>
           \/ /\ req[p].ok /\ req[p].got = 1 /\ obj[o].dirent = None
              /\ fault' = "nullName" /\ UNCHANGED <<req, obj, prom>>
           \/ /\ req[p].ok /\ req[p].got = 1 => obj[o].dirent # None
              /\ SettleReq(p) /\ fault' = fault
              /\ obj' = IF req[p].ok THEN [obj EXCEPT ![o] = told] ELSE obj
    BY DEF NextCb
  <1>2. /\ fault = "none" /\ ObjectTypes /\ RequestTypes /\ RequestInv /\ PoolTypes' /\ UNCHANGED <<ops, tab>>
        /\ p \in InFlight /\ p \in InLoop /\ obj[p].kind = None
        /\ stale = {} => ShareInv /\ FdInv /\ DirInv
    BY <1>1, CalledFacts
  <1>3. /\ o \in Ops /\ obj[o].kind = "dir" /\ o # p /\ obj[o] \in Objs
        /\ ~Closes(p) /\ req[p].type \notin Makers
    BY <1>1, <1>2, Names DEF RequestInv, OfDir, OfFile, Closes, Makers, Plain, ObjectTypes
  <1>4. CASE /\ UNCHANGED <<req, obj, prom>> /\ fault' \in {"freedDir", "nullName"}
             /\ stale # {}
    <2>1. RequestTypes' /\ ObjectTypes'
      BY <1>1, <1>2, <1>4 DEF RequestTypes, ObjectTypes, Objects
    <2>2. QED
      BY <1>1, <1>2, <1>4, <2>1, TypeParts DEF FilesInv, FaultIsMisuse
  <1>5. CASE ~obj[o].live /\ fault' = "freedDir" /\ UNCHANGED <<req, obj, prom>>
    <2>1. stale # {}
      BY <1>1, <1>2, <1>5 DEF DirInv
    <2>2. QED
      BY <1>4, <1>5, <2>1
  <1>6. CASE /\ req[p].ok /\ req[p].got = 1 /\ obj[o].dirent = None
             /\ fault' = "nullName" /\ UNCHANGED <<req, obj, prom>>
    <2>1. stale = {} => obj[o].dirent = obj[o].pos
      BY <1>1, <1>2, <1>6 DEF DirInv, HasRead
    <2>2. obj[o].pos \in Nat
      BY <1>3, Names DEF Objs
    <2>3. stale # {}
      BY <1>6, <2>1, <2>2, Names
    <2>4. QED
      BY <1>4, <1>6, <2>3
  <1>7. CASE /\ req[p].ok /\ req[p].got = 1 => obj[o].dirent # None
             /\ SettleReq(p) /\ fault' = fault
             /\ obj' = IF req[p].ok THEN [obj EXCEPT ![o] = told] ELSE obj
    <2>1. ASSUME req[p].ok
          PROVE  /\ told \in Objs
                 /\ told.kind = obj[o].kind /\ told.fd = obj[o].fd
                 /\ told.live = obj[o].live /\ told.pos = obj[o].pos
                 /\ told.done <=> req[p].got = 0
                 /\ req[p].got = 1 => told.seen = Append(obj[o].seen, obj[o].dirent)
                 /\ req[p].got # 1 => told.seen = obj[o].seen
      <3>1. CASE req[p].got = 1
        <4>1. /\ ~IsDone(p) /\ obj[o].dirent \in 1..Entries /\ obj[o].seen \in Seq(1..Entries)
          BY <1>3, <1>7, <2>1, <3>1 DEF IsDone, Objs
        <4>2. Append(obj[o].seen, obj[o].dirent) \in Seq(1..Entries)
          BY <4>1, AppendValues
        <4> DEFINE s == Append(obj[o].seen, obj[o].dirent)
        <4>d. IsDone(p) = FALSE
          BY <4>1
        <4>3. told = [obj[o] EXCEPT !.done = FALSE, !.dirent = None, !.seen = s]
          BY <3>1, <4>d DEF AfterNext
        <4>4. s \in Seq(1..Entries)
          BY <4>2
        <4> HIDE DEF o, told, s
        <4>5. /\ told \in Objs /\ told.kind = obj[o].kind /\ told.fd = obj[o].fd
              /\ told.live = obj[o].live /\ told.pos = obj[o].pos /\ ~told.done /\ told.seen = s
          BY <1>3, <4>3, <4>4 DEF Objs
        <4>6. QED
          BY <3>1, <4>5 DEF s
      <3>2. CASE req[p].got # 1
        <4>1. told = [obj[o] EXCEPT !.done = (req[p].got = 0)]
          BY <3>2 DEF AfterNext, IsDone
        <4> HIDE DEF o, told
        <4>2. QED
          BY <1>3, <3>2, <4>1 DEF Objs
      <3>3. QED
        BY <3>1, <3>2
    <2> HIDE DEF told
    <2>2. /\ obj' \in [Ops -> Objs]
          /\ \A x \in Ops : x # o => obj'[x] = obj[x]
          /\ req[p].ok => obj'[o] = told
          /\ ~req[p].ok => obj'[o] = obj[o]
      BY <1>2, <1>3, <1>7, <2>1 DEF ObjectTypes
    <2>3. TellEffect(p)
      BY <2>1, <2>2 DEF TellEffect
    <2>4. \A x \in Ops : obj'[x].kind = obj[x].kind /\ obj'[x].fd = obj[x].fd
      BY <2>3 DEF TellEffect
    <2>5. ObjectTypes'
      BY <1>1, <1>2, <1>7, <2>2, <2>4 DEF ObjectTypes, Objects
    <2>6. FdEffect(p)
      BY <1>3, <2>2, <2>4 DEF FdEffect
    <2>7. ASSUME stale = {} PROVE FdInv' /\ DirInv'
      BY <1>1, <1>2, <1>7, <2>3, <2>6, <2>7, SettledFds, ToldDirs
    <2>8. QED
      BY <1>1, <1>7, <2>4, <2>5, <2>7, CallbackDone
  <1>8. QED
    BY <1>1, <1>5, <1>6, <1>7

-----------------------------------------------------------------------------
(***************************************************************************)
(* Theorems                                                                *)
(***************************************************************************)

LEMMA FilesInit ==
  ASSUME Init
  PROVE  FilesInv
  <1>1. PoolTypes
    BY EmptyIsSeq DEF Init, PoolTypes
  <1>2. RequestTypes
    BY NoReqType, Names DEF Init, RequestTypes
  <1>3. ObjectTypes
    BY NoObjType DEF Init, ObjectTypes
  <1>4. InPool = {} /\ InLoop = {} /\ InFlight = {} /\ Objects = {}
    <2>1. Values(wq) = {} /\ Values(doneq) = {}
      BY DEF Init, Values
    <2>2. Objects = {}
      BY NoObjType DEF Init, Objects
    <2>3. QED
      BY <2>1, <2>2, PlacesOf DEF Init, InFlight
  <1>5. PlaceInv
    <2>1. Values(wq) = {} /\ Values(doneq) = {} /\ Distinct(wq) /\ Distinct(doneq)
      BY DEF Init, Values, Distinct
    <2>2. QED
      BY <1>4, <2>1 DEF PlaceInv, Init
  <1>6. RequestInv
    BY <1>4, NoObjType DEF Init, RequestInv
  <1>7. CleanInv
    <2>1. ShareInv
      BY <1>4 DEF ShareInv
    <2>2. FdInv
      BY <1>4, Names DEF FdInv, Init
    <2>3. DirInv
      BY <1>4 DEF DirInv
    <2>4. OwnDescriptor
      BY NoReqType, Names DEF OwnDescriptor, Init, Types, OfFile
    <2>5. QED
      BY <2>1, <2>2, <2>3, <2>4 DEF CleanInv
  <1>8. QED
    BY <1>1, <1>2, <1>3, <1>5, <1>6, <1>7, TypeParts DEF FilesInv, FaultIsMisuse, Init

LEMMA FilesNext ==
  ASSUME FilesInv, [Next]_vars
  PROVE  FilesInv'
  <1>1. CASE Program
    BY <1>1, ProgramStep
  <1>2. CASE Pool
    BY <1>2, PoolStep
  <1>3. CASE Callback
    BY <1>3, OpenCbStep, CloseCbStep, PlainCbStep, NextCbStep DEF Callback
  <1>4. ASSUME NEW o \in Ops, Finalize(o) PROVE FilesInv'
    BY <1>4, FinalizeStep
  <1>5. CASE UNCHANGED vars
    <2>1. UNCHANGED <<ops, req, wq, running, worked, doneq, prom, obj, held, tab, stale, fault>>
      BY <1>5 DEF vars, poolVars
    <2>2. /\ TypeOK' <=> TypeOK
          /\ InPool' = InPool /\ InLoop' = InLoop /\ InFlight' = InFlight /\ Objects' = Objects
      BY <2>1 DEF TypeOK, InPool, InLoop, InFlight, Objects
    <2>3. PlaceInv' <=> PlaceInv
      BY <2>1, <2>2 DEF PlaceInv
    <2>4. RequestInv' <=> RequestInv
      BY <2>1, <2>2 DEF RequestInv
    <2>5. \A p : (Closes(p)' <=> Closes(p)) /\ (Closed(p)' <=> Closed(p)) /\ (HasRead(p)' <=> HasRead(p))
      BY <2>1, <2>2 DEF Closes, Closed, HasRead
    <2>6. (ShareInv' <=> ShareInv) /\ (OwnDescriptor' <=> OwnDescriptor)
      BY <2>1, <2>2, <2>5 DEF ShareInv, OwnDescriptor
    <2>7. FdInv' <=> FdInv
      BY <2>1, <2>2, <2>5 DEF FdInv
    <2>8. DirInv' <=> DirInv
      BY <2>1, <2>2, <2>5 DEF DirInv
    <2>9. QED
      BY <2>1, <2>2, <2>3, <2>4, <2>6, <2>7, <2>8 DEF FilesInv, CleanInv, FaultIsMisuse
  <1>6. QED
    BY <1>1, <1>2, <1>3, <1>4, <1>5 DEF Next

\* The inductive invariant holds in every state: a request is in one place and
\* belongs to a pending promise, and, unless an object was used while it was
\* being closed, descriptors, objects and directory positions agree.
THEOREM FilesInvariance == Spec => []FilesInv
  BY FilesInit, FilesNext, PTL DEF Spec

\* A queue without duplicates has as many places as values.
LEMMA DistinctLength ==
  ASSUME NEW S, NEW q \in Seq(S), Distinct(q)
  PROVE  IsFiniteSet(Values(q)) /\ Cardinality(Values(q)) = Len(q) /\ Len(q) \in Nat
  <1>1. DOMAIN q = 1..Len(q) /\ Len(q) \in Nat
    OBVIOUS
  <1>2. Values(q) = {q[i] : i \in 1..Len(q)}
    BY <1>1 DEF Values
  <1>3. q \in [1..Len(q) -> Values(q)]
    <2>1. \A i \in 1..Len(q) : q[i] \in Values(q)
      BY <1>2
    <2>2. q = [i \in 1..Len(q) |-> q[i]]
      OBVIOUS
    <2>3. QED
      BY <2>1, <2>2, Zenon
  <1>4. q \in Bijection(1..Len(q), Values(q))
    <2>1. \A i, j \in 1..Len(q) : q[i] = q[j] => i = j
      BY <1>1 DEF Distinct
    <2>2. \A v \in Values(q) : \E i \in 1..Len(q) : q[i] = v
      BY <1>2
    <2>3. QED
      BY <1>3, <2>1, <2>2, Zenon DEF Bijection, Injection, Surjection, IsInjective
  <1>5. ExistsBijection(1..Len(q), Values(q))
    BY <1>4 DEF ExistsBijection
  <1>6. IsFiniteSet(1..Len(q)) /\ Cardinality(1..Len(q)) = Len(q)
    BY <1>1, FS_Interval
  <1>7. QED
    BY <1>1, <1>5, <1>6, FS_Bijection

\* The places of PlaceInv, counted
LEMMA PendingCount ==
  ASSUME FilesInv
  PROVE  PendingIsInFlight
  <1>1. SUFFICES ASSUME fault = "none" PROVE
          /\ {p \in Ops : prom[p] = "pending"} = InFlight
          /\ Len(wq) + Cardinality(running) + Cardinality(worked) + Len(doneq)
               = Cardinality(InFlight)
    BY DEF PendingIsInFlight
  <1>2. PoolTypes /\ PlaceInv /\ RequestInv
    BY <1>1, TypeParts DEF FilesInv
  <1>3. {p \in Ops : prom[p] = "pending"} = InFlight
    BY <1>2, PlacesType DEF RequestInv
  <1>4. /\ IsFiniteSet(Values(wq)) /\ Cardinality(Values(wq)) = Len(wq) /\ Len(wq) \in Nat
        /\ IsFiniteSet(Values(doneq)) /\ Cardinality(Values(doneq)) = Len(doneq) /\ Len(doneq) \in Nat
    BY <1>2, DistinctLength DEF PoolTypes, PlaceInv
  <1>5. /\ IsFiniteSet(running) /\ Cardinality(running) \in Nat
        /\ IsFiniteSet(worked) /\ Cardinality(worked) \in Nat
    <2>1. IsFiniteSet(Ops)
      BY Names, FS_Interval DEF Ops
    <2>2. QED
      BY <1>2, <2>1, FS_Subset, FS_CardinalityType DEF PoolTypes
  <1>6. ASSUME NEW A, NEW B, IsFiniteSet(A), IsFiniteSet(B), A \cap B = {}
        PROVE  IsFiniteSet(A \cup B) /\ Cardinality(A \cup B) = Cardinality(A) + Cardinality(B)
    <2>1. Cardinality(A) \in Nat /\ Cardinality(B) \in Nat /\ Cardinality(A \cap B) = 0
      BY <1>6, FS_CardinalityType, FS_EmptySet
    <2>2. /\ IsFiniteSet(A \cup B)
          /\ Cardinality(A \cup B) = Cardinality(A) + Cardinality(B) - Cardinality(A \cap B)
      BY <1>6, FS_Union
    <2>3. QED
      BY <2>1, <2>2
  <1>7. IsFiniteSet(InPool) /\ Cardinality(InPool) = Len(wq) + Cardinality(running)
    <2>1. InPool = Values(wq) \cup running /\ Values(wq) \cap running = {}
      BY <1>2, PlacesOf DEF PlaceInv
    <2>2. QED
      BY <1>4, <1>5, <1>6, <2>1
  <1>8. IsFiniteSet(InLoop) /\ Cardinality(InLoop) = Cardinality(worked) + Len(doneq)
    <2>1. InLoop = worked \cup Values(doneq) /\ worked \cap Values(doneq) = {}
      BY <1>2, PlacesOf DEF PlaceInv
    <2>2. QED
      BY <1>4, <1>5, <1>6, <2>1
  <1>9. Cardinality(InFlight) = Cardinality(InPool) + Cardinality(InLoop)
    <2>1. InFlight = InPool \cup InLoop /\ InPool \cap InLoop = {}
      BY <1>2 DEF PlaceInv, InFlight
    <2>2. QED
      BY <1>6, <1>7, <1>8, <2>1
  <1>10. QED
    BY <1>3, <1>4, <1>5, <1>7, <1>8, <1>9

\* Every pending promise has one request, in one place of the pool or the loop
\* (threadpool.c), and only a program that uses an object while or after it
\* closes it makes the process undefined.
THEOREM FilesSafety == Spec => []Inv
  <1>1. FilesInv => Inv
    BY PendingCount DEF FilesInv, Inv
  <1>2. QED
    BY <1>1, FilesInvariance, PTL

\* As long as no object is used while it is being closed and no close() failed,
\* a system call made for a File works on that File's open file, although the
\* descriptor is taken when ijFile* is called and used later by a thread.
THEOREM FilesOwnDescriptor == Spec => []OwnDescriptor
  <1>1. FilesInv => OwnDescriptor
    BY DEF FilesInv, CleanInv, OwnDescriptor
  <1>2. QED
    BY <1>1, FilesInvariance, PTL

\* As long as no object is misused, no descriptor is forgotten: it belongs to an
\* object with a finalizer, or to a callback that is to make the object; and an
\* object has its descriptor until a close() of it has returned.
THEOREM FilesDescriptorsOwned == Spec => []DescriptorsOwned
  <1>1. ASSUME FilesInv PROVE DescriptorsOwned
    <2>1. SUFFICES ASSUME stale = {} PROVE
            /\ \A d \in Fds : tab[d] \in Ops => Owned(tab[d])
            /\ \A o \in Objects :
                 \/ obj[o].fd = None
                 \/ tab[obj[o].fd] = o
                 \/ \E p \in InLoop : req[p].on = o /\ req[p].type \in {"close", "closedir"}
      BY DEF DescriptorsOwned
    <2>2. FdInv
      BY <1>1, <2>1 DEF FilesInv, CleanInv
    <2>3. ASSUME NEW d \in Fds, tab[d] \in Ops PROVE Owned(tab[d])
      <3>1. None \notin Fds
        BY Names
      <3>2. QED
        BY <2>2, <2>3, <3>1 DEF FdInv, Owned
    <2>4. QED
      BY <2>2, <2>3 DEF FdInv, Closed, Closes
  <1>2. QED
    BY <1>1, FilesInvariance, PTL

\* As long as no object is misused, next() reports the entries of a directory
\* each once and in order, and the end only after the last.
THEOREM FilesEntriesOnce == Spec => []EntriesOnce
  <1>1. FilesInv => EntriesOnce
    BY DEF FilesInv, CleanInv, DirInv, EntriesOnce
  <1>2. QED
    BY <1>1, FilesInvariance, PTL
=============================================================================
