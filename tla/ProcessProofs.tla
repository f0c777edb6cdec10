---------------------------- MODULE ProcessProofs ----------------------------
(***************************************************************************)
(* Proofs about Process: its invariants and NoLateSignal hold, and every   *)
(* child implements HandleLifetime, for any number of children, handlers,  *)
(* calls and signals.                                                      *)
(***************************************************************************)
EXTENDS Process, FiniteSetTheorems, TLAPS

-----------------------------------------------------------------------------
(***************************************************************************)
(* Queues of messages, whose field handle is what they are for             *)
(***************************************************************************)

\* The empty queue is of any type.
LEMMA EmptyIsSeq ==
  ASSUME NEW S
  PROVE  <<>> \in Seq(S)
  OBVIOUS

\* The elements of a sequence over S are in S.
LEMMA Elements ==
  ASSUME NEW S, NEW q \in Seq(S)
  PROVE  \A i \in DOMAIN q : q[i] \in S
  OBVIOUS

\* The places of the messages for w, and how many there are
Places(q, w) == {i \in DOMAIN q : q[i].handle = w}

Messages(q, w) == Cardinality(Places(q, w))

\* A set of numbers that is shifted keeps its size.
LEMMA Shifted ==
  ASSUME NEW A, NEW T, A \subseteq Int, T \subseteq Int, IsFiniteSet(A), NEW k \in Int,
         \A i \in A : i + k \in T, \A i \in T : i - k \in A
  PROVE  IsFiniteSet(T) /\ Cardinality(T) = Cardinality(A)
  <1> DEFINE f == [i \in A |-> i + k]
  <1>1. f \in [A -> T]
    OBVIOUS
  <1>2. \A x, y \in A : f[x] = f[y] => x = y
    OBVIOUS
  <1>3. \A t \in T : \E x \in A : f[x] = t
    <2>1. \A t \in T : t - k \in A /\ f[t - k] = t
      OBVIOUS
    <2>2. QED
      BY <2>1
  <1>4. f \in Bijection(A, T)
    BY <1>1, <1>2, <1>3 DEF Bijection, Injection, Surjection, IsInjective
  <1>5. ExistsBijection(A, T)
    BY <1>4 DEF ExistsBijection
  <1>6. QED
    BY <1>5, FS_Bijection

\* Their number is a number.
LEMMA MessagesNat ==
  ASSUME NEW S, NEW q \in Seq(S), NEW w
  PROVE  IsFiniteSet(Places(q, w)) /\ Messages(q, w) \in Nat
  <1>1. Len(q) \in Nat /\ DOMAIN q = 1..Len(q)
    OBVIOUS
  <1>2. IsFiniteSet(1..Len(q))
    BY <1>1, FS_Interval
  <1>3. Places(q, w) \subseteq 1..Len(q)
    BY <1>1 DEF Places
  <1>4. QED
    BY <1>2, <1>3, FS_Subset, FS_CardinalityType DEF Messages

\* There are messages for w exactly when there is one.
LEMMA SomeMessage ==
  ASSUME NEW S, NEW q \in Seq(S), NEW w
  PROVE  Messages(q, w) = 0 <=> \A i \in DOMAIN q : q[i].handle # w
  <1>1. Messages(q, w) = 0 <=> Places(q, w) = {}
    BY MessagesNat, FS_EmptySet DEF Messages
  <1>2. QED
    BY <1>1 DEF Places

\* The empty queue has none.
LEMMA NoMessages == ASSUME NEW w PROVE Messages(<<>>, w) = 0
  <1>1. Places(<<>>, w) = {}
    BY DEF Places
  <1>2. QED
    BY <1>1, FS_EmptySet DEF Messages

\* The tail has one less for what the head is for.
LEMMA MessagesTail ==
  ASSUME NEW S, NEW q \in Seq(S), q # <<>>, NEW w
  PROVE  Messages(Tail(q), w) = Messages(q, w) - (IF Head(q).handle = w THEN 1 ELSE 0)
  <1> DEFINE t == Tail(q)
             A == Places(q, w) \ {1}
  <1>1. /\ Len(q) \in Nat \ {0}
        /\ DOMAIN q = 1..Len(q)
        /\ DOMAIN t = 1..(Len(q) - 1)
        /\ \A i \in DOMAIN t : t[i] = q[i + 1]
        /\ Head(q) = q[1]
    OBVIOUS
  <1> HIDE DEF t
  <1>2. A \subseteq Int /\ \A i \in A : i \in 2..Len(q) /\ q[i].handle = w
    BY <1>1 DEF Places
  <1>3. /\ Places(t, w) \subseteq Int
        /\ \A j \in A : j + (-1) \in Places(t, w)
        /\ \A j \in Places(t, w) : j - (-1) \in A
    <2>1. ASSUME NEW j \in Places(t, w) PROVE j - (-1) \in A /\ j \in Int
      BY <1>1, <2>1 DEF Places
    <2>2. ASSUME NEW i \in A PROVE i + (-1) \in Places(t, w)
      <3>1. i + (-1) \in DOMAIN t /\ t[i + (-1)] = q[i]
        BY <1>1, <1>2
      <3>2. QED
        BY <1>2, <3>1 DEF Places
    <2>3. QED
      BY <2>1, <2>2
  <1>4. IsFiniteSet(Places(q, w)) /\ Messages(q, w) \in Nat
    BY MessagesNat
  <1>5. /\ IsFiniteSet(A)
        /\ Cardinality(A) = IF 1 \in Places(q, w) THEN Messages(q, w) - 1 ELSE Messages(q, w)
    BY <1>4, FS_RemoveElement DEF Messages
  <1>6. 1 \in Places(q, w) <=> Head(q).handle = w
    BY <1>1 DEF Places
  <1> HIDE DEF A
  <1>7. Cardinality(Places(t, w)) = Cardinality(A)
    <2>1. -1 \in Int
      OBVIOUS
    <2>2. QED
      BY <1>2, <1>3, <1>5, <2>1, Shifted
  <1>8. QED
    BY <1>4, <1>5, <1>6, <1>7 DEF Messages, t

\* Two queues have the messages of both.
LEMMA MessagesConcat ==
  ASSUME NEW S, NEW q \in Seq(S), NEW r \in Seq(S), NEW w
  PROVE  Messages(q \o r, w) = Messages(q, w) + Messages(r, w)
  <1> DEFINE c == q \o r
             A == Places(q, w)
             B == Places(r, w)
             C == {i + Len(q) : i \in B}
  <1>1. /\ Len(q) \in Nat /\ DOMAIN q = 1..Len(q)
        /\ Len(r) \in Nat /\ DOMAIN r = 1..Len(r)
        /\ DOMAIN c = 1..(Len(q) + Len(r))
        /\ \A i \in DOMAIN q : c[i] = q[i]
        /\ \A i \in DOMAIN r : c[i + Len(q)] = r[i]
    OBVIOUS
  <1> HIDE DEF c
  <1>2. Places(c, w) = A \cup C
    <2>1. ASSUME NEW j \in Places(c, w) PROVE j \in A \cup C
      <3>1. j \in DOMAIN q \/ (j - Len(q) \in DOMAIN r /\ j = (j - Len(q)) + Len(q))
        BY <1>1 DEF Places
      <3>2. CASE j \in DOMAIN q
        BY <1>1, <3>2 DEF Places
      <3>3. CASE j - Len(q) \in DOMAIN r /\ j = (j - Len(q)) + Len(q)
        <4>1. r[j - Len(q)] = c[j]
          BY <1>1, <3>3
        <4>2. j - Len(q) \in B
          BY <3>3, <4>1 DEF Places
        <4>3. QED
          BY <3>3, <4>2
      <3>4. QED
        BY <3>1, <3>2, <3>3
    <2>2. ASSUME NEW j \in A PROVE j \in Places(c, w)
      <3>1. j \in DOMAIN c /\ c[j] = q[j]
        BY <1>1 DEF Places
      <3>2. QED
        BY <3>1 DEF Places
    <2>3. ASSUME NEW i \in B PROVE i + Len(q) \in Places(c, w)
      <3>1. i + Len(q) \in DOMAIN c /\ c[i + Len(q)] = r[i]
        BY <1>1 DEF Places
      <3>2. QED
        BY <3>1 DEF Places
    <2>4. QED
      BY <2>1, <2>2, <2>3
  <1>3. A \cap C = {}
    BY <1>1 DEF Places
  <1>4. /\ IsFiniteSet(A) /\ Cardinality(A) \in Nat
        /\ IsFiniteSet(B) /\ Cardinality(B) \in Nat
    BY <1>1, MessagesNat DEF Messages
  <1>5. IsFiniteSet(C) /\ Cardinality(C) = Cardinality(B)
    <2>1. /\ B \subseteq Int /\ C \subseteq Int /\ Len(q) \in Int
          /\ \A i \in B : i + Len(q) \in C
          /\ \A i \in C : i - Len(q) \in B
      BY <1>1 DEF Places
    <2> HIDE DEF B, C
    <2>2. QED
      BY <1>4, <2>1, Shifted
  <1> HIDE DEF A, B, C
  <1>6. Cardinality(A \cup C) = Cardinality(A) + Cardinality(C) - Cardinality(A \cap C)
    BY <1>4, <1>5, FS_Union
  <1>7. Cardinality(A \cap C) = 0
    BY <1>3, FS_EmptySet
  <1>8. Cardinality(Places(c, w)) = Cardinality(A) + Cardinality(B)
    BY <1>2, <1>4, <1>5, <1>6, <1>7
  <1>9. QED
    BY <1>8 DEF Messages, A, B, c

-----------------------------------------------------------------------------
(***************************************************************************)
(* The inductive invariant                                                 *)
(***************************************************************************)

\* The states of a struct and of its libuv handle go together. A struct is
\* freed when its call failed, or by the last of its two owners.
LifeInv ==
  \A x \in Handles :
    /\ mem[x] = "none" => uv[x] = "none" /\ x \notin held \cup failed
    /\ mem[x] = "freed" <=> x \in failed \/ x \in closed \cap finalized
    /\ x \in failed => uv[x] = "none" /\ x \notin held
    /\ x \in closed <=> uv[x] = "closed"
    /\ x \in finalized => uv[x] \in {"closing", "closed"} /\ x \notin held
    /\ mem[x] = "live" => uv[x] # "none"

\* The open handles of children are those that libuv watches, until it reaped
\* the child; and while there is one it watches for SIGCHLD. An object that the
\* program holds is watched until the exit is reported.
WatchInv ==
  /\ \A c \in Children : c \in watched <=> uv[c] = "open"
  /\ \A c \in watched : proc[c] \in {"running", "zombie"}
  /\ \A c \in held \cap Children : c \in watched \cup exited
  /\ watched # {} => signum[Watcher] = "CHLD"

\* A promise in a slot is pending and of that child, which is still watched; one
\* that is pending and not in a slot was replaced.
WaitInv ==
  /\ \A c \in Children :
       slot[c] # None => prom[slot[c]] = "pending" /\ asked[slot[c]] = c /\ c \in watched
  /\ \A p \in Ops :
       prom[p] = "pending" =>
         asked[p] \in Children /\ (p \in replaced \/ slot[asked[p]] = p)
  /\ \A p \in Ops : p > ops => prom[p] = "none" /\ asked[p] = None

\* caught_signals and dispatched_signals count the messages under way, a handler
\* that is stopped gets no new ones, and one that is closed has none.
MessageInv ==
  /\ \A w \in Watchers : trapped[w] = Messages(pipe, w) + Messages(batch, w)
  /\ \A h \in Handlers : signum[h] # "none" => uv[h] = "open"
  /\ \A h \in Handlers : trapped[h] # 0 => uv[h] \in {"open", "closing"}
  /\ current # None => batch # <<>> /\ Head(batch).handle = current
  /\ fault # "none" => failed # {}

ProcessInv == TypeOK /\ LifeInv /\ WatchInv /\ WaitInv /\ MessageInv

-----------------------------------------------------------------------------
(***************************************************************************)
(* Structs                                                                 *)
(***************************************************************************)

\* The parts of TypeOK
StructTypes ==
  /\ mem \in [Handles -> {"none", "live", "freed"}]
  /\ uv \in [Handles -> {"none", "open", "closing", "closed"}]
  /\ closed \subseteq Handles
  /\ finalized \subseteq Handles
  /\ held \subseteq Handles
  /\ failed \subseteq Handles

ChildTypes ==
  /\ proc \in [Children -> Procs]
  /\ watched \subseteq Children
  /\ exited \subseteq Children
  /\ signum \in [Watchers -> Signums \cup {"none"}]

WaitTypes ==
  /\ slot \in [Children -> Ops \cup {None}]
  /\ prom \in [Ops -> {"none", "pending", "resolved", "dropped"}]
  /\ asked \in [Ops -> Children \cup {None}]
  /\ replaced \subseteq Ops
  /\ ops \in 0..MaxOps

Msgs == [handle : Watchers, signum : Signums]

SignalTypes ==
  /\ raised \subseteq Signums
  /\ pipe \in Seq(Msgs)
  /\ batch \in Seq(Msgs)
  /\ Len(pipe) <= PipeMax
  /\ trapped \in [Watchers -> Nat]
  /\ current \in Handlers \cup {None}
  /\ signals \in 0..MaxSignals
  /\ lost \in BOOLEAN
  /\ fault \in {"none", "freedInList", "freedHandle"}

LEMMA TypeParts ==
  /\ TypeOK <=> StructTypes /\ ChildTypes /\ WaitTypes /\ SignalTypes
  /\ TypeOK' <=> StructTypes' /\ ChildTypes' /\ WaitTypes' /\ SignalTypes'
  BY DEF TypeOK, StructTypes, ChildTypes, WaitTypes, SignalTypes, Msgs

\* The sets of names do not overlap.
LEMMA Names ==
  /\ Children \subseteq Handles /\ Handlers \subseteq Handles
  /\ Handlers \subseteq Watchers /\ Watcher \in Watchers /\ Watcher \notin Handlers
  /\ Watcher \notin Handles
  /\ \A c \in Children : c \notin Handlers
  /\ None \notin Ops /\ None \notin Handlers /\ None # Watcher
  /\ Ops \subseteq Nat
  BY ProcessAssumption DEF Handles, Watchers, Ops

\* Every step keeps structs and handles together.
LEMMA LifeStep ==
  ASSUME StructTypes, ChildTypes, LifeInv, WatchInv, [Next]_vars
  PROVE  StructTypes' /\ LifeInv'
  <1> USE DEF StructTypes, LifeInv
  <1>m. ASSUME NEW x \in Handles, Make(x) PROVE StructTypes' /\ LifeInv'
    BY <1>m DEF Make
  <1>f. ASSUME NEW x \in Handles, MakeFails(x) PROVE StructTypes' /\ LifeInv'
    BY <1>f DEF MakeFails
  <1>u. ASSUME UNCHANGED structVars PROVE StructTypes' /\ LifeInv'
    BY <1>u DEF structVars
  <1>1. ASSUME NEW c \in Children, Spawn(c) \/ SpawnFails(c) PROVE StructTypes' /\ LifeInv'
    BY <1>1, <1>m, <1>f, Names DEF Spawn, SpawnFails
  <1>2. ASSUME NEW c \in Children, Wait(c) \/ Kill(c) PROVE StructTypes' /\ LifeInv'
    BY <1>2, <1>u DEF Wait, Kill
  <1>3. ASSUME NEW h \in Handlers, SignalFails(h) \/ \E s \in Signums : Signal(h, s)
        PROVE  StructTypes' /\ LifeInv'
    BY <1>3, <1>m, <1>f, Names DEF SignalFails, Signal
  <1>4. ASSUME NEW h \in Handlers, Close(h) PROVE StructTypes' /\ LifeInv'
    BY <1>4, Names DEF Close, CloseSignal
  <1>5. ASSUME NEW x \in Handles, Drop(x) PROVE StructTypes' /\ LifeInv'
    BY <1>5 DEF Drop
  <1>6. CASE Dispatch
    <2>1. CASE UNCHANGED structVars
      BY <2>1, <1>u
    <2>2. CASE Chld
      <3>1. \A c \in Reapable : uv[c] = "open"
        BY DEF Reapable, WatchInv, ChildTypes
      <3>2. QED
        BY <2>2, <3>1 DEF Chld
    <2>3. QED
      BY <1>6, <2>1, <2>2 DEF Dispatch
  <1>7. ASSUME NEW x \in Handles, CloseCb(x) PROVE StructTypes' /\ LifeInv'
    BY <1>7 DEF CloseCb
  <1>8. ASSUME NEW x \in Handles, Collect(x) PROVE StructTypes' /\ LifeInv'
    <2>1. \/ uv' = uv /\ uv[x] # "open"
          \/ uv' = [uv EXCEPT ![x] = "closing"] /\ uv[x] = "open"
      BY <1>8 DEF Collect, CloseChild, CloseSignal
    <2>2. QED
      BY <1>8, <2>1 DEF Collect, FinalizeFrees
  <1>9. CASE ReadPipe \/ EndHandler \/ Raise \/ TouchFailed \/ UNCHANGED vars
    BY <1>9, <1>u DEF ReadPipe, EndHandler, Raise, TouchFailed, vars
  <1>10. ASSUME NEW s \in Signums, SignalHandler(s) PROVE StructTypes' /\ LifeInv'
    BY <1>10, <1>u DEF SignalHandler
  <1>11. ASSUME NEW c \in Children, Exit(c) \/ Recycle(c) PROVE StructTypes' /\ LifeInv'
    BY <1>11, <1>u DEF Exit, Recycle
  <1>12. QED
    BY <1>1, <1>2, <1>3, <1>4, <1>5, <1>6, <1>7, <1>8, <1>9, <1>10, <1>11
    DEF Next, Program, Loop, Environment

-----------------------------------------------------------------------------
(***************************************************************************)
(* Children                                                                *)
(***************************************************************************)

\* The close of a child ends the watch for SIGCHLD only with the last one.
LEMMA CloseChildWatch ==
  ASSUME StructTypes, ChildTypes, WatchInv, NEW c \in Children, c \notin held,
         CloseChild(c), UNCHANGED <<held, proc, exited>>
  PROVE  ChildTypes' /\ WatchInv'
  <1>1. CASE uv[c] = "open"
    <2>1. /\ uv' = [uv EXCEPT ![c] = "closing"]
          /\ watched' = watched \ {c}
          /\ signum' = IF watched \ {c} = {} THEN [signum EXCEPT ![Watcher] = "none"] ELSE signum
      BY <1>1 DEF CloseChild, StopIfLast
    <2>2. ChildTypes'
      BY <2>1, Names DEF ChildTypes
    <2>3. \A d \in Children : d \in watched' <=> uv'[d] = "open"
      BY <2>1, Names DEF WatchInv, StructTypes
    <2>4. QED
      BY <2>1, <2>2, <2>3 DEF WatchInv
  <1>2. CASE uv[c] # "open"
    BY <1>2 DEF CloseChild, ChildTypes, WatchInv
  <1>3. QED
    BY <1>1, <1>2

\* Every step keeps the children watched.
LEMMA WatchStep ==
  ASSUME StructTypes, ChildTypes, LifeInv, WatchInv, [Next]_vars
  PROVE  ChildTypes' /\ WatchInv'
  <1>u. ASSUME UNCHANGED <<uv, held, childVars, signum>> PROVE ChildTypes' /\ WatchInv'
    BY <1>u DEF childVars, ChildTypes, WatchInv
  <1>h. ASSUME NEW h \in Handlers, NEW t \in {"none", "open", "closing", "closed"},
               NEW s \in Signums \cup {"none"},
               uv' = [uv EXCEPT ![h] = t], signum' \in {signum, [signum EXCEPT ![h] = s]},
               held' \subseteq held \cup {h}, UNCHANGED childVars
        PROVE  ChildTypes' /\ WatchInv'
    <2>1. \A c \in Children : uv'[c] = uv[c] /\ c # h
      BY <1>h, Names DEF StructTypes
    <2>2. signum'[Watcher] = signum[Watcher] /\ signum' \in [Watchers -> Signums \cup {"none"}]
      BY <1>h, Names DEF ChildTypes
    <2>3. QED
      BY <1>h, <2>1, <2>2 DEF childVars, ChildTypes, WatchInv
  <1>1. ASSUME NEW c \in Children, Spawn(c) PROVE ChildTypes' /\ WatchInv'
    <2>1. /\ uv' = [uv EXCEPT ![c] = "open"] /\ held' = held \cup {c}
          /\ proc' = [proc EXCEPT ![c] = "running"] /\ watched' = watched \cup {c}
          /\ signum' = [signum EXCEPT ![Watcher] = "CHLD"] /\ exited' = exited
      BY <1>1 DEF Spawn, Make, WatchChildren
    <2>2. ChildTypes'
      BY <2>1, Names DEF ChildTypes, Procs, Signums
    <2>3. QED
      BY <2>1, <2>2, Names DEF WatchInv, StructTypes, ChildTypes
  <1>2. ASSUME NEW c \in Children, SpawnFails(c) PROVE ChildTypes' /\ WatchInv'
    <2>1. uv[c] = "none" /\ c \notin watched
      BY <1>2, Names DEF SpawnFails, MakeFails, LifeInv, WatchInv
    <2>2. /\ UNCHANGED <<uv, held, watched, exited>>
          /\ signum' \in {signum, [signum EXCEPT ![Watcher] = "CHLD"]}
          /\ proc' \in {proc, [proc EXCEPT ![c] = "running"]}
      BY <1>2 DEF SpawnFails, MakeFails, WatchChildren
    <2>3. ChildTypes'
      BY <2>2, Names DEF ChildTypes, Procs, Signums
    <2>4. QED
      BY <2>1, <2>2, <2>3, Names DEF WatchInv, ChildTypes
  <1>3. ASSUME NEW c \in Children, Wait(c) PROVE ChildTypes' /\ WatchInv'
    BY <1>3, <1>u DEF Wait, structVars
  <1>4. ASSUME NEW c \in Children, Kill(c) \/ Exit(c) \/ Recycle(c)
        PROVE  ChildTypes' /\ WatchInv'
    <2>1. /\ UNCHANGED <<uv, held, watched, exited, signum>>
          /\ \/ proc' = proc
             \/ proc[c] = "running" /\ proc' = [proc EXCEPT ![c] = "zombie"]
             \/ proc[c] = "reaped" /\ proc' = [proc EXCEPT ![c] = "foreign"]
      BY <1>4 DEF Kill, Exit, Recycle, structVars
    <2>2. ChildTypes'
      BY <2>1 DEF ChildTypes, Procs
    <2>3. QED
      BY <2>1, <2>2 DEF WatchInv, ChildTypes
  <1>5. ASSUME NEW h \in Handlers, NEW s \in Signums, Signal(h, s)
        PROVE  ChildTypes' /\ WatchInv'
    BY <1>5, <1>h DEF Signal, Make
  <1>6. ASSUME NEW h \in Handlers, SignalFails(h) PROVE ChildTypes' /\ WatchInv'
    BY <1>6, <1>u DEF SignalFails, MakeFails
  <1>7. ASSUME NEW h \in Handlers, Close(h) PROVE ChildTypes' /\ WatchInv'
    <2>1. CASE uv[h] = "open"
      BY <1>7, <1>h, <2>1 DEF Close, CloseSignal, SignalStop, childVars
    <2>2. CASE uv[h] # "open"
      BY <1>7, <1>u, <2>2 DEF Close, CloseSignal, childVars
    <2>3. QED
      BY <2>1, <2>2
  <1>8. ASSUME NEW x \in Handles, Drop(x) PROVE ChildTypes' /\ WatchInv'
    BY <1>8 DEF Drop, childVars, ChildTypes, WatchInv
  <1>9. CASE Dispatch
    <2>1. CASE UNCHANGED <<structVars, childVars, signum>>
      BY <2>1, <1>u DEF structVars
    <2>2. CASE Chld
      <3>1. /\ Reapable \subseteq watched
            /\ \A c \in Reapable : c \in Children /\ uv[c] = "open"
        BY DEF Reapable, WatchInv, ChildTypes
      <3>2. /\ uv' = [x \in Handles |-> IF x \in Reapable THEN "closing" ELSE uv[x]]
            /\ proc' = [c \in Children |-> IF c \in Reapable THEN "reaped" ELSE proc[c]]
            /\ watched' = watched \ Reapable /\ exited' = exited \cup Reapable
            /\ held' = held
            /\ signum' = signum \/ (watched \ Reapable = {} /\ signum' = [signum EXCEPT ![Watcher] = "none"])
        BY <2>2 DEF Chld, ExitedNow, StopIfLast
      <3>3. ChildTypes'
        BY <3>1, <3>2, Names DEF ChildTypes, Procs
      <3>4. QED
        BY <3>1, <3>2, <3>3, Names DEF WatchInv, ChildTypes
    <2>3. QED
      BY <1>9, <2>1, <2>2 DEF Dispatch
  <1>10. ASSUME NEW x \in Handles, CloseCb(x) PROVE ChildTypes' /\ WatchInv'
    <2>1. /\ uv[x] = "closing" /\ uv' = [uv EXCEPT ![x] = "closed"]
          /\ UNCHANGED <<held, childVars, signum>>
      BY <1>10 DEF CloseCb
    <2>2. \A c \in Children : uv'[c] = "open" <=> uv[c] = "open"
      BY <2>1, Names DEF StructTypes
    <2>3. QED
      BY <2>1, <2>2 DEF childVars, ChildTypes, WatchInv
  <1>11. ASSUME NEW x \in Handles, Collect(x) PROVE ChildTypes' /\ WatchInv'
    <2>1. x \notin held /\ UNCHANGED <<held, proc, exited>>
      BY <1>11 DEF Collect
    <2>2. CASE x \in closed
      BY <1>11, <1>u, <2>1, <2>2 DEF Collect, childVars
    <2>3. CASE x \notin closed /\ x \in Children
      BY <1>11, <2>1, <2>3, CloseChildWatch DEF Collect
    <2>4. CASE x \notin closed /\ x \notin Children
      <3>1. x \in Handlers /\ CloseSignal(x)
        BY <1>11, <2>4 DEF Collect, Handles
      <3>2. CASE uv[x] = "open"
        BY <1>h, <2>1, <3>1, <3>2 DEF CloseSignal, SignalStop, childVars
      <3>3. CASE uv[x] # "open"
        BY <1>u, <2>1, <3>1, <3>3 DEF CloseSignal, childVars
      <3>4. QED
        BY <3>2, <3>3
    <2>5. QED
      BY <2>2, <2>3, <2>4
  <1>12. CASE ReadPipe \/ EndHandler \/ Raise \/ TouchFailed \/ UNCHANGED vars
    BY <1>12, <1>u DEF ReadPipe, EndHandler, Raise, TouchFailed, vars, structVars
  <1>13. ASSUME NEW s \in Signums, SignalHandler(s) PROVE ChildTypes' /\ WatchInv'
    BY <1>13, <1>u DEF SignalHandler, structVars
  <1>14. QED
    BY <1>1, <1>2, <1>3, <1>4, <1>5, <1>6, <1>7, <1>8, <1>9, <1>10, <1>11, <1>12, <1>13
    DEF Next, Program, Loop, Environment

-----------------------------------------------------------------------------
(***************************************************************************)
(* wait()                                                                  *)
(***************************************************************************)

\* Every step keeps a pending wait() in the slot of a child that is watched,
\* unless another wait() replaces it.
LEMMA WaitStep ==
  ASSUME StructTypes, ChildTypes, WaitTypes, LifeInv, WatchInv, WaitInv, [Next]_vars
  PROVE  WaitTypes' /\ WaitInv'
  <1>o. MaxOps \in Nat /\ ops \in Nat
    BY ProcessAssumption DEF WaitTypes
  <1>u. ASSUME UNCHANGED waitVars, ops' = ops \/ (ops < MaxOps /\ ops' = ops + 1),
               watched \subseteq watched'
        PROVE  WaitTypes' /\ WaitInv'
    <2>1. ops' \in 0..MaxOps /\ \A p \in Ops : p > ops' => p > ops
      BY <1>u, <1>o, Names DEF WaitTypes
    <2>2. QED
      BY <1>u, <2>1 DEF waitVars, WaitTypes, WaitInv
  <1>1. ASSUME NEW c \in Children, Spawn(c) \/ SpawnFails(c) \/ Kill(c)
        PROVE  WaitTypes' /\ WaitInv'
    BY <1>1, <1>u DEF Spawn, SpawnFails, Kill, Call
  <1>2. ASSUME NEW c \in Children, Wait(c) PROVE WaitTypes' /\ WaitInv'
    <2> DEFINE p == ops + 1
    <2>1. ops' = p /\ p \in Ops /\ p \in Nat /\ p > ops
      BY <1>2, <1>o DEF Wait, Call, Ops
    <2>2. asked' = [asked EXCEPT ![p] = c] /\ watched' = watched
      BY <1>2 DEF Wait, childVars
    <2>4. \A x \in Ops : x > p => x # p /\ x > ops
      BY <2>1, <1>o, Names
    <2> HIDE DEF p
    <2>3. /\ prom[p] = "none" /\ asked[p] = None
          /\ \A d \in Children : slot[d] # p
      <3>1. prom[p] = "none" /\ asked[p] = None
        BY <2>1 DEF WaitInv
      <3>2. ASSUME NEW d \in Children, slot[d] = p PROVE FALSE
        <4>1. prom[slot[d]] = "pending"
          BY <2>1, <3>2, Names DEF WaitInv
        <4>2. QED
          BY <3>1, <3>2, <4>1
      <3>3. QED
        BY <3>1, <3>2
    <2>5. CASE c \in exited
      <3>1. prom' = [prom EXCEPT ![p] = "resolved"] /\ UNCHANGED <<slot, replaced>>
        BY <1>2, <2>5 DEF Wait, HasExited, p
      <3>2. WaitTypes'
        BY <2>1, <2>2, <3>1 DEF WaitTypes, Ops
      <3>3. QED
        BY <2>1, <2>2, <2>3, <2>4, <3>1, <3>2 DEF WaitInv, WaitTypes
    <2>6. CASE c \notin exited
      <3>1. /\ prom' = [prom EXCEPT ![p] = "pending"]
            /\ slot' = [slot EXCEPT ![c] = p]
            /\ replaced' = replaced \cup ({slot[c]} \ {None})
        BY <1>2, <2>6 DEF Wait, HasExited, p
      <3>2. c \in watched
        BY <1>2, <2>6 DEF Wait, WatchInv
      <3>3. WaitTypes'
        <4>1. ops' \in 0..MaxOps
          BY <2>1 DEF Ops
        <4>2. slot[c] \in Ops \cup {None}
          BY DEF WaitTypes
        <4>3. replaced' \subseteq Ops
          BY <3>1, <4>2 DEF WaitTypes
        <4>4. QED
          BY <2>1, <2>2, <3>1, <4>1, <4>3 DEF WaitTypes
      <3>4. \A d \in Children :
              slot'[d] # None => prom'[slot'[d]] = "pending" /\ asked'[slot'[d]] = d /\ d \in watched'
        BY <2>1, <2>2, <2>3, <3>1, <3>2, Names DEF WaitInv, WaitTypes
      <3>5. \A x \in Ops :
              prom'[x] = "pending" => asked'[x] \in Children /\ (x \in replaced' \/ slot'[asked'[x]] = x)
        BY <2>1, <2>2, <2>3, <3>1, Names DEF WaitInv, WaitTypes
      <3>6. QED
        BY <2>1, <2>2, <2>4, <3>1, <3>3, <3>4, <3>5 DEF WaitInv, WaitTypes
    <2>7. QED
      BY <2>5, <2>6
  <1>3. ASSUME NEW h \in Handlers, SignalFails(h) \/ \E s \in Signums : Signal(h, s)
        PROVE  WaitTypes' /\ WaitInv'
    BY <1>3, <1>u DEF SignalFails, Signal, Call, childVars
  <1>4. ASSUME NEW h \in Handlers, Close(h) PROVE WaitTypes' /\ WaitInv'
    BY <1>4, <1>u DEF Close, Call, CloseSignal
  <1>5. ASSUME NEW x \in Handles, Drop(x) PROVE WaitTypes' /\ WaitInv'
    BY <1>5, <1>u DEF Drop, Call, childVars
  <1>6. CASE Dispatch
    <2>1. CASE UNCHANGED <<childVars, waitVars>>
      BY <1>6, <1>u, <2>1 DEF Dispatch, childVars
    <2>2. CASE Chld
      <3>1. /\ prom' = [p \in Ops |-> IF \E c \in Reapable : slot[c] = p THEN "resolved" ELSE prom[p]]
            /\ slot' = [c \in Children |-> IF c \in Reapable THEN None ELSE slot[c]]
            /\ watched' = watched \ Reapable
            /\ UNCHANGED <<asked, replaced, ops>>
        BY <1>6, <2>2 DEF Chld, Dispatch
      <3>2. Reapable \subseteq Children
        BY DEF Reapable, ChildTypes
      <3>3. WaitTypes'
        BY <3>1 DEF WaitTypes
      <3>4. \A d \in Children :
              slot'[d] # None => prom'[slot'[d]] = "pending" /\ asked'[slot'[d]] = d /\ d \in watched'
        BY <3>1, <3>2 DEF WaitInv, WaitTypes
      <3>5. \A x \in Ops : prom'[x] # prom[x] => prom[x] = "pending" /\ prom'[x] = "resolved"
        <4>1. \A c \in Reapable, x \in Ops : slot[c] = x => prom[x] = "pending"
          BY <3>2, Names DEF WaitInv
        <4>2. QED
          BY <3>1, <4>1 DEF WaitTypes
      <3>6. \A x \in Ops :
              prom'[x] = "pending" => asked'[x] \in Children /\ (x \in replaced' \/ slot'[asked'[x]] = x)
        BY <3>1, <3>2 DEF WaitInv, WaitTypes
      <3>7. QED
        BY <3>1, <3>3, <3>4, <3>5, <3>6 DEF WaitInv
    <2>3. QED
      BY <1>6, <2>1, <2>2 DEF Dispatch
  <1>7. ASSUME NEW x \in Handles, CloseCb(x) PROVE WaitTypes' /\ WaitInv'
    BY <1>7, <1>u DEF CloseCb, childVars
  <1>8. ASSUME NEW x \in Handles, Collect(x) PROVE WaitTypes' /\ WaitInv'
    <2>1. CASE x \in Children
      <3>1. /\ prom' = [p \in Ops |-> IF p = slot[x] THEN "dropped" ELSE prom[p]]
            /\ slot' = [slot EXCEPT ![x] = None]
            /\ UNCHANGED <<asked, replaced, ops>>
        BY <1>8, <2>1 DEF Collect
      <3>2. watched \ {x} \subseteq watched'
        BY <1>8, <2>1 DEF Collect, CloseChild
      <3>3. WaitTypes'
        BY <2>1, <3>1 DEF WaitTypes
      <3>4. \A d \in Children :
              slot'[d] # None => prom'[slot'[d]] = "pending" /\ asked'[slot'[d]] = d /\ d \in watched'
        BY <2>1, <3>1, <3>2 DEF WaitInv, WaitTypes
      <3>5. \A p \in Ops :
              prom'[p] = "pending" => asked'[p] \in Children /\ (p \in replaced' \/ slot'[asked'[p]] = p)
        BY <2>1, <3>1 DEF WaitInv, WaitTypes
      <3>6. \A p \in Ops : p > ops => prom'[p] = "none" /\ asked'[p] = None
        BY <2>1, <3>1, Names DEF WaitInv, WaitTypes
      <3>7. QED
        BY <3>1, <3>3, <3>4, <3>5, <3>6 DEF WaitInv
    <2>2. CASE x \notin Children
      BY <1>8, <1>u, <2>2 DEF Collect, CloseSignal, waitVars
    <2>3. QED
      BY <2>1, <2>2
  <1>9. CASE ReadPipe \/ EndHandler \/ Raise \/ TouchFailed \/ UNCHANGED vars
    BY <1>9, <1>u DEF ReadPipe, EndHandler, Raise, TouchFailed, vars, childVars
  <1>10. ASSUME NEW s \in Signums, SignalHandler(s) PROVE WaitTypes' /\ WaitInv'
    BY <1>10, <1>u DEF SignalHandler, childVars
  <1>11. ASSUME NEW c \in Children, Exit(c) \/ Recycle(c) PROVE WaitTypes' /\ WaitInv'
    BY <1>11, <1>u DEF Exit, Recycle
  <1>12. QED
    BY <1>1, <1>2, <1>3, <1>4, <1>5, <1>6, <1>7, <1>8, <1>9, <1>10, <1>11
    DEF Next, Program, Loop, Environment

-----------------------------------------------------------------------------
(***************************************************************************)
(* The signal pipe                                                         *)
(***************************************************************************)

\* The messages that are written about a signal
Notes(told, s) == [i \in DOMAIN told |-> [handle |-> told[i], signum |-> s]]

\* The watchers that are told
Told(told) == {told[i] : i \in DOMAIN told}

\* They fit the pipe, and are one for every watcher that is told.
LEMMA Telling ==
  ASSUME pipe \in Seq(Msgs), Len(pipe) <= PipeMax, NEW s \in Signums,
         NEW ws \in SUBSET Watchers, NEW told \in Tellings(ws)
  PROVE  /\ Notes(told, s) \in Seq(Msgs)
         /\ pipe \o Notes(told, s) \in Seq(Msgs)
         /\ Len(pipe \o Notes(told, s)) <= PipeMax
         /\ Told(told) \subseteq ws
         /\ \A w \in Watchers :
              Messages(Notes(told, s), w) = IF w \in Told(told) THEN 1 ELSE 0
  <1> DEFINE n == Min2(Cardinality(ws), PipeMax - Len(pipe))
             q == Notes(told, s)
  <1>1. IsFiniteSet(ws)
    <2>1. IsFiniteSet(Handlers)
      BY ProcessAssumption
    <2>2. IsFiniteSet(Handlers \cup {Watcher})
      BY <2>1, FS_AddElement
    <2>3. QED
      BY <2>2, FS_Subset DEF Watchers
  <1>2. Cardinality(ws) \in Nat /\ PipeMax \in Nat /\ Len(pipe) \in Nat
    BY <1>1, FS_CardinalityType, ProcessAssumption
  <1>3. n \in Nat /\ n <= PipeMax - Len(pipe)
    BY <1>2 DEF Min2
  <1>4. told \in [1..n -> ws] /\ \A i, j \in 1..n : i # j => told[i] # told[j]
    BY DEF Tellings
  <1> HIDE DEF n
  <1>5. DOMAIN told = 1..n /\ \A i \in 1..n : told[i] \in ws /\ told[i] \in Watchers
    BY <1>4
  <1>6. q \in Seq(Msgs) /\ Len(q) = n /\ DOMAIN q = 1..n /\ \A i \in 1..n : q[i].handle = told[i]
    <2>1. \A i \in 1..n : [handle |-> told[i], signum |-> s] \in Msgs
      BY <1>5 DEF Msgs
    <2>2. q \in [1..n -> Msgs]
      BY <1>5, <2>1 DEF Notes
    <2>3. q \in Seq(Msgs) /\ Len(q) = n
      BY <1>3, <2>2
    <2>4. QED
      BY <1>5, <2>2, <2>3 DEF Notes
  <1> HIDE DEF q
  <1>7. pipe \o q \in Seq(Msgs) /\ Len(pipe \o q) <= PipeMax
    <2>1. pipe \o q \in Seq(Msgs) /\ Len(pipe \o q) = Len(pipe) + Len(q)
      BY <1>6
    <2>2. QED
      BY <1>2, <1>3, <1>6, <2>1
  <1>8. ASSUME NEW w \in Watchers PROVE Messages(q, w) = IF w \in Told(told) THEN 1 ELSE 0
    <2>1. CASE w \in Told(told)
      <3>1. PICK i \in 1..n : told[i] = w
        BY <1>5, <2>1 DEF Told
      <3>2. Places(q, w) = {i}
        BY <1>4, <1>6, <3>1 DEF Places
      <3>3. QED
        BY <2>1, <3>2, FS_Singleton DEF Messages
    <2>2. CASE w \notin Told(told)
      <3>1. Places(q, w) = {}
        BY <1>5, <1>6, <2>2 DEF Places, Told
      <3>2. QED
        BY <2>2, <3>1, FS_EmptySet DEF Messages
    <2>3. QED
      BY <2>1, <2>2
  <1>9. Told(told) \subseteq ws
    BY <1>5 DEF Told
  <1>10. QED
    BY <1>6, <1>7, <1>8, <1>9 DEF q

\* A message that is dealt with is no longer counted.
LEMMA DispatchedStep ==
  ASSUME SignalTypes, MessageInv, batch # <<>>, Dispatched, UNCHANGED pipe
  PROVE  /\ batch' \in Seq(Msgs)
         /\ trapped' \in [Watchers -> Nat]
         /\ \A w \in Watchers : trapped'[w] = Messages(pipe', w) + Messages(batch', w)
         /\ \A w \in Watchers : trapped'[w] # 0 => trapped[w] # 0
  <1> DEFINE h == Head(batch).handle
  <1>1. batch \in Seq(Msgs) /\ pipe \in Seq(Msgs) /\ trapped \in [Watchers -> Nat]
    BY DEF SignalTypes
  <1>2. Head(batch) \in Msgs /\ Tail(batch) \in Seq(Msgs)
    BY <1>1
  <1>3. h \in Watchers
    BY <1>2 DEF Msgs
  <1>4. batch' = Tail(batch) /\ trapped' = [trapped EXCEPT ![h] = @ - 1]
    BY DEF Dispatched
  <1>5. ASSUME NEW w \in Watchers
        PROVE  /\ Messages(batch, w) \in Nat /\ Messages(pipe, w) \in Nat
               /\ Messages(batch', w) \in Nat
               /\ Messages(batch', w) = Messages(batch, w) - (IF h = w THEN 1 ELSE 0)
               /\ trapped[w] = Messages(pipe, w) + Messages(batch, w)
    <2>1. Messages(batch, w) \in Nat /\ Messages(pipe, w) \in Nat /\ Messages(Tail(batch), w) \in Nat
      BY <1>1, <1>2, MessagesNat
    <2>2. Messages(Tail(batch), w) = Messages(batch, w) - (IF h = w THEN 1 ELSE 0)
      BY <1>1, MessagesTail
    <2>3. QED
      BY <1>4, <2>1, <2>2 DEF MessageInv
  <1> HIDE DEF h
  <1>6. \A w \in Watchers :
          /\ trapped'[w] = Messages(pipe', w) + Messages(batch', w)
          /\ trapped'[w] \in Nat
          /\ trapped'[w] # 0 => trapped[w] # 0
    <2>1. SUFFICES ASSUME NEW w \in Watchers
                   PROVE  /\ trapped'[w] = Messages(pipe, w) + Messages(batch', w)
                          /\ trapped'[w] \in Nat
                          /\ trapped'[w] # 0 => trapped[w] # 0
      OBVIOUS
    <2>2. trapped'[w] = trapped[w] - (IF h = w THEN 1 ELSE 0)
      BY <1>1, <1>3, <1>4, <1>5
    <2>3. QED
      BY <1>5, <2>2
  <1>7. trapped' \in [Watchers -> Nat]
    BY <1>1, <1>4, <1>6
  <1>8. QED
    BY <1>2, <1>4, <1>6, <1>7

\* A handle that a message is for is not closed, so its struct exists.
LEMMA TargetLive ==
  ASSUME StructTypes, SignalTypes, LifeInv, MessageInv, NEW q \in {pipe, batch},
         NEW i \in DOMAIN q, q[i].handle # Watcher
  PROVE  q[i].handle \in Handlers /\ mem[q[i].handle] = "live"
  <1> DEFINE h == q[i].handle
  <1>1. batch \in Seq(Msgs) /\ pipe \in Seq(Msgs) /\ q \in Seq(Msgs)
    BY DEF SignalTypes
  <1>2. h \in Handlers
    <2>1. q[i] \in Msgs
      BY <1>1, Elements
    <2>2. QED
      BY <2>1 DEF Msgs, Watchers
  <1>3. Messages(q, h) # 0
    BY <1>1, SomeMessage
  <1> HIDE DEF h
  <1>4. Messages(batch, h) \in Nat /\ Messages(pipe, h) \in Nat
    BY <1>1, MessagesNat
  <1>5. trapped[h] = Messages(pipe, h) + Messages(batch, h)
    BY <1>2, Names DEF MessageInv
  <1>6. trapped[h] # 0
    BY <1>3, <1>4, <1>5
  <1>7. uv[h] \in {"open", "closing"}
    BY <1>2, <1>6 DEF MessageInv
  <1>8. mem[h] = "live"
    BY <1>2, <1>7, Names DEF StructTypes, LifeInv
  <1>9. QED
    BY <1>2, <1>8 DEF h

\* Every step keeps the counts of messages.
LEMMA MessageStep ==
  ASSUME StructTypes, ChildTypes, WaitTypes, SignalTypes, LifeInv, WatchInv, MessageInv,
         [Next]_vars
  PROVE  SignalTypes' /\ MessageInv'
  <1>u. ASSUME UNCHANGED <<pipe, batch, trapped, signals, current, lost>>,
               raised' \subseteq Signums,
               fault' = fault \/ (fault' = "freedInList" /\ failed # {}),
               failed \subseteq failed',
               \A h \in Handlers : signum'[h] # "none" => uv'[h] = "open",
               \A h \in Handlers :
                 trapped[h] # 0 /\ uv[h] \in {"open", "closing"} => uv'[h] \in {"open", "closing"}
        PROVE  SignalTypes' /\ MessageInv'
    <2>1. SignalTypes'
      BY <1>u DEF SignalTypes
    <2>2. \A w \in Watchers : trapped'[w] = Messages(pipe', w) + Messages(batch', w)
      BY <1>u DEF MessageInv
    <2>3. \A h \in Handlers : trapped'[h] # 0 => uv'[h] \in {"open", "closing"}
      BY <1>u DEF MessageInv
    <2>4. QED
      BY <1>u, <2>1, <2>2, <2>3 DEF MessageInv
  <1>s. ASSUME UNCHANGED <<pipeVars, fault, uv, signum>>, failed \subseteq failed'
        PROVE  SignalTypes' /\ MessageInv'
    BY <1>s, <1>u DEF pipeVars, SignalTypes, MessageInv
  <1>c. ASSUME \A h \in Handlers : uv'[h] = uv[h] /\ signum'[h] = signum[h]
        PROVE  /\ \A h \in Handlers : signum'[h] # "none" => uv'[h] = "open"
               /\ \A h \in Handlers :
                    trapped[h] # 0 /\ uv[h] \in {"open", "closing"} => uv'[h] \in {"open", "closing"}
    BY <1>c DEF MessageInv
  <1>1. ASSUME NEW c \in Children, Spawn(c) PROVE SignalTypes' /\ MessageInv'
    <2>1. /\ uv' = [uv EXCEPT ![c] = "open"] /\ signum' = [signum EXCEPT ![Watcher] = "CHLD"]
          /\ UNCHANGED <<pipeVars, fault, failed>>
      BY <1>1 DEF Spawn, Make, WatchChildren
    <2>2. \A h \in Handlers : uv'[h] = uv[h] /\ signum'[h] = signum[h]
      BY <2>1, Names DEF StructTypes, ChildTypes
    <2>3. QED
      BY <1>u, <1>c, <2>1, <2>2 DEF pipeVars, SignalTypes
  <1>2. ASSUME NEW c \in Children, SpawnFails(c) PROVE SignalTypes' /\ MessageInv'
    <2>1. /\ signum' \in {signum, [signum EXCEPT ![Watcher] = "CHLD"]}
          /\ UNCHANGED <<uv, pipe, batch, trapped, signals, current, lost, fault>>
          /\ failed \subseteq failed'
          /\ raised' \subseteq raised \cup {"CHLD"}
      BY <1>2 DEF SpawnFails, MakeFails, WatchChildren
    <2>2. \A h \in Handlers : uv'[h] = uv[h] /\ signum'[h] = signum[h]
      BY <2>1, Names DEF ChildTypes
    <2>3. raised' \subseteq Signums
      BY <2>1 DEF SignalTypes, Signums
    <2>4. QED
      BY <1>u, <1>c, <2>1, <2>2, <2>3
  <1>3. ASSUME NEW c \in Children, Wait(c) \/ Recycle(c) PROVE SignalTypes' /\ MessageInv'
    BY <1>3, <1>s DEF Wait, Recycle, structVars
  <1>4. ASSUME NEW c \in Children, Kill(c) \/ Exit(c) PROVE SignalTypes' /\ MessageInv'
    <2>1. /\ UNCHANGED <<uv, signum, pipe, batch, trapped, signals, current, lost, fault, failed>>
          /\ raised' \subseteq raised \cup {"CHLD"}
      BY <1>4 DEF Kill, Exit, structVars
    <2>2. raised' \subseteq Signums
      BY <2>1 DEF SignalTypes, Signums
    <2>3. QED
      BY <1>u, <1>c, <2>1, <2>2
  <1>5. ASSUME NEW h \in Handlers, NEW s \in Signums, Signal(h, s)
        PROVE  SignalTypes' /\ MessageInv'
    <2>1. /\ uv' = [uv EXCEPT ![h] = "open"] /\ signum' = [signum EXCEPT ![h] = s]
          /\ UNCHANGED <<pipeVars, fault, failed>>
      BY <1>5 DEF Signal, Make
    <2>2. /\ \A g \in Handlers : signum'[g] # "none" => uv'[g] = "open"
          /\ \A g \in Handlers :
               trapped[g] # 0 /\ uv[g] \in {"open", "closing"} => uv'[g] \in {"open", "closing"}
      BY <2>1, Names DEF StructTypes, ChildTypes, MessageInv
    <2>3. QED
      BY <1>u, <2>1, <2>2 DEF pipeVars, SignalTypes
  <1>6. ASSUME NEW h \in Handlers, SignalFails(h) PROVE SignalTypes' /\ MessageInv'
    BY <1>6, <1>s DEF SignalFails, MakeFails
  <1>h. ASSUME NEW h \in Handlers, CloseSignal(h), UNCHANGED <<pipeVars, fault, failed>>
        PROVE  SignalTypes' /\ MessageInv'
    <2>1. CASE uv[h] = "open"
      <3>1. uv' = [uv EXCEPT ![h] = "closing"] /\ signum' = [signum EXCEPT ![h] = "none"]
        BY <1>h, <2>1 DEF CloseSignal, SignalStop
      <3>2. /\ \A g \in Handlers : signum'[g] # "none" => uv'[g] = "open"
            /\ \A g \in Handlers :
                 trapped[g] # 0 /\ uv[g] \in {"open", "closing"} => uv'[g] \in {"open", "closing"}
        BY <3>1, Names DEF StructTypes, ChildTypes, MessageInv
      <3>3. QED
        BY <1>h, <1>u, <3>2 DEF pipeVars, SignalTypes
    <2>2. CASE uv[h] # "open"
      BY <1>h, <1>s, <2>2 DEF CloseSignal
    <2>3. QED
      BY <2>1, <2>2
  <1>7. ASSUME NEW h \in Handlers, Close(h) PROVE SignalTypes' /\ MessageInv'
    BY <1>7, <1>h DEF Close
  <1>8. ASSUME NEW x \in Handles, Drop(x) PROVE SignalTypes' /\ MessageInv'
    BY <1>8, <1>s DEF Drop
  <1>9. ASSUME NEW x \in Handles, Collect(x) PROVE SignalTypes' /\ MessageInv'
    <2>1. UNCHANGED <<pipeVars, fault, failed>>
      BY <1>9 DEF Collect
    <2>2. CASE x \in closed
      BY <1>9, <1>s, <2>1, <2>2 DEF Collect
    <2>3. CASE x \notin closed /\ x \in Children
      <3>1. \/ uv' = uv /\ signum' = signum
            \/ /\ uv' = [uv EXCEPT ![x] = "closing"]
               /\ signum' \in {signum, [signum EXCEPT ![Watcher] = "none"]}
        BY <1>9, <2>3 DEF Collect, CloseChild, StopIfLast
      <3>2. \A h \in Handlers : uv'[h] = uv[h] /\ signum'[h] = signum[h]
        BY <2>3, <3>1, Names DEF StructTypes, ChildTypes
      <3>3. QED
        BY <1>u, <1>c, <2>1, <3>2 DEF pipeVars, SignalTypes
    <2>4. CASE x \notin closed /\ x \notin Children
      BY <1>9, <1>h, <2>1, <2>4 DEF Collect, Handles
    <2>5. QED
      BY <2>2, <2>3, <2>4
  <1>10. ASSUME NEW x \in Handles, CloseCb(x) PROVE SignalTypes' /\ MessageInv'
    <2>1. /\ uv[x] = "closing" /\ uv' = [uv EXCEPT ![x] = "closed"]
          /\ x \in Handlers => trapped[x] = 0
          /\ UNCHANGED <<pipeVars, fault, failed, signum>>
      BY <1>10 DEF CloseCb, MayFinish
    <2>2. /\ \A g \in Handlers : signum'[g] # "none" => uv'[g] = "open"
          /\ \A g \in Handlers :
               trapped[g] # 0 /\ uv[g] \in {"open", "closing"} => uv'[g] \in {"open", "closing"}
      BY <2>1, Names DEF StructTypes, MessageInv
    <2>3. QED
      BY <1>u, <2>1, <2>2 DEF pipeVars, SignalTypes
  <1>11. ASSUME NEW s \in Signums, SignalHandler(s) PROVE SignalTypes' /\ MessageInv'
    <2> DEFINE ws == {w \in Watchers : signum[w] = s}
    <2>1. PICK told \in Tellings(ws) :
            /\ pipe' = pipe \o Notes(told, s)
            /\ trapped' = [w \in Watchers |-> IF w \in Told(told) THEN trapped[w] + 1 ELSE trapped[w]]
            /\ lost' = (lost \/ Watcher \in ws \ Told(told))
      BY <1>11 DEF SignalHandler, Caught, Notes, Told
    <2>2. /\ fault = "none" /\ raised' = raised \ {s}
          /\ UNCHANGED <<uv, failed, signum, batch, current, signals, fault>>
      BY <1>11 DEF SignalHandler, structVars
    <2>t. pipe \in Seq(Msgs) /\ batch \in Seq(Msgs) /\ Len(pipe) <= PipeMax /\ trapped \in [Watchers -> Nat]
      BY DEF SignalTypes
    <2>3. /\ Notes(told, s) \in Seq(Msgs)
          /\ pipe' \in Seq(Msgs)
          /\ Len(pipe') <= PipeMax
          /\ Told(told) \subseteq ws
          /\ \A w \in Watchers : Messages(Notes(told, s), w) = IF w \in Told(told) THEN 1 ELSE 0
      <3>1. ws \in SUBSET Watchers
        OBVIOUS
      <3> HIDE DEF ws
      <3>2. QED
        BY <2>1, <2>t, <3>1, Telling
    <2>4. SignalTypes'
      <3>1. trapped' \in [Watchers -> Nat]
        BY <2>1, <2>t
      <3>2. lost' \in BOOLEAN
        BY <2>1 DEF SignalTypes
      <3>3. QED
        BY <2>2, <2>3, <3>1, <3>2 DEF SignalTypes
    <2>5. ASSUME NEW w \in Watchers PROVE trapped'[w] = Messages(pipe', w) + Messages(batch', w)
      <3>1. Messages(pipe', w) = Messages(pipe, w) + Messages(Notes(told, s), w)
        BY <2>1, <2>t, <2>3, MessagesConcat
      <3>2. Messages(pipe, w) \in Nat /\ Messages(batch, w) \in Nat
        BY <2>t, MessagesNat
      <3>3. trapped'[w] = trapped[w] + Messages(Notes(told, s), w)
        BY <2>1, <2>3, <2>t
      <3>4. trapped[w] = Messages(pipe, w) + Messages(batch, w)
        BY DEF MessageInv
      <3>5. Messages(Notes(told, s), w) \in {0, 1}
        BY <2>3
      <3>6. QED
        BY <2>2, <3>1, <3>2, <3>3, <3>4, <3>5
    <2>6. ASSUME NEW h \in Handlers, trapped'[h] # 0 PROVE uv'[h] \in {"open", "closing"}
      <3>1. CASE h \in Told(told)
        <4>1. signum[h] = s /\ s # "none"
          BY <2>3, <3>1 DEF Signums
        <4>2. QED
          BY <2>2, <4>1 DEF MessageInv
      <3>2. CASE h \notin Told(told)
        <4>1. trapped'[h] = trapped[h]
          BY <2>1, <3>2, Names
        <4>2. QED
          BY <2>2, <2>6, <4>1 DEF MessageInv
      <3>3. QED
        BY <3>1, <3>2
    <2>7. QED
      BY <2>2, <2>4, <2>5, <2>6 DEF MessageInv
  <1>12. CASE ReadPipe
    <2>1. /\ batch = <<>> /\ batch' = pipe /\ pipe' = <<>>
          /\ UNCHANGED <<uv, failed, signum, raised, trapped, current, signals, lost, fault>>
      BY <1>12 DEF ReadPipe, structVars
    <2>2. \A w \in Watchers : Messages(<<>>, w) = 0 /\ Messages(pipe, w) \in Nat
      BY NoMessages, MessagesNat DEF SignalTypes
    <2>3. \A w \in Watchers : trapped[w] = Messages(pipe', w) + Messages(batch', w)
      BY <2>1, <2>2 DEF MessageInv
    <2>4. current = None
      BY <2>1 DEF MessageInv
    <2>5. SignalTypes'
      <3>1. <<>> \in Seq(Msgs) /\ Len(<<>>) = 0 /\ 0 <= PipeMax
        BY EmptyIsSeq, ProcessAssumption
      <3>2. QED
        BY <2>1, <3>1 DEF SignalTypes
    <2>6. QED
      BY <2>1, <2>3, <2>4, <2>5 DEF MessageInv
  <1>13. CASE Dispatch
    <2> DEFINE m == Head(batch)
    <2>1. /\ batch # <<>> /\ current = None /\ fault = "none"
          /\ UNCHANGED <<ops, raised, pipe, signals, lost>>
      BY <1>13 DEF Dispatch
    <2>2. ASSUME Dispatched, UNCHANGED <<current, fault, failed>>,
                 \A h \in Handlers : uv'[h] = uv[h] /\ signum'[h] = signum[h]
          PROVE  SignalTypes' /\ MessageInv'
      <3>1. /\ batch' \in Seq(Msgs)
            /\ trapped' \in [Watchers -> Nat]
            /\ \A w \in Watchers : trapped'[w] = Messages(pipe', w) + Messages(batch', w)
            /\ \A w \in Watchers : trapped'[w] # 0 => trapped[w] # 0
        BY <2>1, <2>2, DispatchedStep
      <3>2. SignalTypes'
        BY <2>1, <2>2, <3>1 DEF SignalTypes
      <3>3. QED
        BY <2>1, <2>2, <3>1, <3>2, Names DEF MessageInv
    <2>3. CASE Chld /\ Dispatched /\ UNCHANGED <<current, fault>>
      <3>1. \A h \in Handlers : h \notin Reapable
        BY Names DEF Reapable, ChildTypes
      <3>2. /\ uv' = [x \in Handles |-> IF x \in Reapable THEN "closing" ELSE uv[x]]
            /\ signum' \in {signum, [signum EXCEPT ![Watcher] = "none"]}
            /\ failed' = failed
        BY <2>3 DEF Chld, StopIfLast
      <3>3. \A h \in Handlers : uv'[h] = uv[h] /\ signum'[h] = signum[h]
        BY <3>1, <3>2, Names DEF ChildTypes
      <3>4. QED
        BY <2>2, <2>3, <3>2, <3>3
    <2>4. CASE /\ m.handle # Watcher
               /\ current' = m.handle
               /\ UNCHANGED <<structVars, childVars, waitVars, signum, batch, trapped, fault>>
      <3>1. current' \in Handlers
        <4>1. m \in Msgs
          BY <2>1 DEF SignalTypes
        <4>2. QED
          BY <2>4, <4>1 DEF Msgs, Watchers
      <3>2. SignalTypes'
        BY <2>1, <2>4, <3>1 DEF SignalTypes
      <3>3. UNCHANGED <<uv, failed>>
        BY <2>4 DEF structVars
      <3>4. \A w \in Watchers : trapped'[w] = Messages(pipe', w) + Messages(batch', w)
        BY <2>1, <2>4 DEF MessageInv
      <3>5. current' # None => batch' # <<>> /\ Head(batch').handle = current'
        BY <2>1, <2>4
      <3>6. QED
        BY <2>1, <2>4, <3>2, <3>3, <3>4, <3>5 DEF MessageInv
    <2>5. m.handle # Watcher => ~Stale
      <3>1. SUFFICES ASSUME m.handle # Watcher PROVE mem[m.handle] # "freed"
        BY DEF Stale
      <3>2. 1 \in DOMAIN batch /\ m = batch[1]
        BY <2>1 DEF SignalTypes
      <3>3. batch[1].handle # Watcher
        BY <3>1, <3>2
      <3>4. mem[batch[1].handle] = "live"
        BY <3>2, <3>3, TargetLive
      <3>5. QED
        BY <3>2, <3>4
    <2>6. CASE Dispatched /\ UNCHANGED <<structVars, childVars, waitVars, signum, current, fault>>
      BY <2>2, <2>6 DEF structVars
    <2>7. QED
      BY <1>13, <2>3, <2>4, <2>5, <2>6 DEF Dispatch
  <1>14. CASE EndHandler
    <2>1. /\ current # None /\ current' = None /\ Dispatched
          /\ UNCHANGED <<uv, failed, signum, raised, pipe, signals, lost, fault>>
      BY <1>14 DEF EndHandler, structVars
    <2>2. batch # <<>>
      BY <2>1 DEF MessageInv
    <2>3. /\ batch' \in Seq(Msgs)
          /\ trapped' \in [Watchers -> Nat]
          /\ \A w \in Watchers : trapped'[w] = Messages(pipe', w) + Messages(batch', w)
          /\ \A w \in Watchers : trapped'[w] # 0 => trapped[w] # 0
      BY <2>1, <2>2, DispatchedStep
    <2>4. SignalTypes'
      BY <2>1, <2>3 DEF SignalTypes
    <2>5. QED
      BY <2>1, <2>3, <2>4, Names DEF MessageInv
  <1>15. CASE Raise
    <2>1. /\ signals < MaxSignals /\ signals' = signals + 1
          /\ raised' = raised \cup {"USR"}
          /\ UNCHANGED <<uv, failed, signum, pipe, batch, trapped, current, lost, fault>>
      BY <1>15 DEF Raise, structVars
    <2>2. SignalTypes'
      <3>1. signals' \in 0..MaxSignals
        BY <2>1, ProcessAssumption DEF SignalTypes
      <3>2. QED
        BY <2>1, <3>1 DEF SignalTypes, Signums
    <2>3. QED
      BY <2>1, <2>2 DEF MessageInv
  <1>16. CASE TouchFailed
    BY <1>16, <1>u DEF TouchFailed, structVars, pipeVars, SignalTypes, MessageInv
  <1>17. CASE UNCHANGED vars
    BY <1>17, <1>s DEF vars, structVars
  <1>18. QED
    BY <1>1, <1>2, <1>3, <1>4, <1>5, <1>6, <1>7, <1>8, <1>9, <1>10, <1>11, <1>12, <1>13,
       <1>14, <1>15, <1>16, <1>17
    DEF Next, Program, Loop, Environment

-----------------------------------------------------------------------------
(***************************************************************************)
(* Theorems                                                                *)
(***************************************************************************)

LEMMA ProcessInit == Init => ProcessInv
  <1>1. SUFFICES ASSUME Init PROVE ProcessInv
    OBVIOUS
  <1>2. StructTypes /\ ChildTypes /\ WaitTypes
    BY <1>1, ProcessAssumption
    DEF Init, StructTypes, ChildTypes, WaitTypes, Procs, Signums
  <1>3. SignalTypes
    <2>1. <<>> \in Seq(Msgs) /\ Len(<<>>) = 0 /\ 0 <= PipeMax /\ 0 \in 0..MaxSignals
      BY EmptyIsSeq, ProcessAssumption
    <2>2. QED
      BY <1>1, <2>1 DEF Init, SignalTypes
  <1>4. LifeInv /\ WatchInv
    BY <1>1, Names DEF Init, LifeInv, WatchInv
  <1>5. WaitInv
    BY <1>1 DEF Init, WaitInv
  <1>6. MessageInv
    BY <1>1, NoMessages, Names DEF Init, MessageInv
  <1>7. QED
    BY <1>2, <1>3, <1>4, <1>5, <1>6, TypeParts DEF ProcessInv

\* Children that are open are watched and waited for, messages are counted, and
\* the structs outlive them, whatever the order of signals, exits and calls.
THEOREM ProcessInvariance == Spec => []ProcessInv
  <1>1. ProcessInv /\ [Next]_vars => ProcessInv'
    BY TypeParts, LifeStep, WatchStep, WaitStep, MessageStep DEF ProcessInv
  <1>2. QED
    BY <1>1, ProcessInit, PTL DEF Spec

\* What the run checks as Inv: every child that runs is watched, reaped for its
\* own object only and told to whoever waits, and the loop's list of handles
\* holds no freed struct but that of a call that failed.
THEOREM ProcessSafety == Spec => []Inv
  <1>1. ASSUME ProcessInv PROVE Inv
    <2>1. TypeOK /\ LifeInv /\ WatchInv /\ WaitInv /\ MessageInv
      BY <1>1 DEF ProcessInv
    <2>2. StructTypes /\ ChildTypes /\ WaitTypes
      BY <2>1, TypeParts
    <2>3. PidIsOwn
      BY <2>1 DEF WatchInv, PidIsOwn
    <2>4. ChildrenWatched
      BY <2>1 DEF WatchInv, ChildrenWatched
    <2>5. WaitIsServed
      <3>1. SUFFICES ASSUME NEW p \in Ops, prom[p] = "pending", p \notin replaced
                     PROVE  slot[asked[p]] = p /\ asked[p] \in watched
        BY DEF WaitIsServed
      <3>2. asked[p] \in Children /\ slot[asked[p]] = p
        BY <2>1, <3>1 DEF WaitInv
      <3>3. QED
        BY <2>1, <3>2, Names DEF WaitInv
    <2>6. ListIsLive
      BY <2>1, <2>2 DEF LifeInv, StructTypes, MessageInv, ListIsLive
    <2>7. QED
      BY <2>1, <2>3, <2>4, <2>5, <2>6 DEF Inv
  <1>2. QED
    BY <1>1, ProcessInvariance, PTL

\* A message under way points to a struct that exists: the close callback waits
\* for the messages that were written before close().
THEOREM ProcessMessageTargetLive == Spec => []MessageTargetLive
  <1>1. ASSUME ProcessInv PROVE MessageTargetLive
    <2>1. StructTypes /\ SignalTypes /\ LifeInv /\ MessageInv
      BY <1>1, TypeParts DEF ProcessInv
    <2>2. QED
      BY <2>1, TargetLive DEF MessageTargetLive
  <1>2. QED
    BY <1>1, ProcessInvariance, PTL

\* The function of a handler starts only while its handle is open: a message
\* that was under way when the handler was stopped is not meant for it any more.
THEOREM ProcessNoLateSignal == Spec => NoLateSignal
  <1>1. ASSUME ProcessInv, [Next]_vars
        PROVE  [current' # current /\ current' # None => uv[current'] = "open"]_vars
    <2>1. StructTypes /\ SignalTypes /\ MessageInv
      BY <1>1, TypeParts DEF ProcessInv
    <2>2. SUFFICES ASSUME current' # current, current' # None PROVE uv[current'] = "open"
      OBVIOUS
    <2>3. Dispatch
      BY <1>1, <2>2 DEF Next, Program, Loop, Environment, vars, pipeVars, Spawn, SpawnFails,
         Wait, Kill, SignalFails, Close, Signal, Drop, ReadPipe, EndHandler, CloseCb,
         SignalHandler, Exit, Recycle, Collect, Raise, TouchFailed
    <2>4. /\ batch # <<>> /\ current' = Head(batch).handle /\ current' # Watcher
          /\ Head(batch).signum = signum[Head(batch).handle]
      BY <2>2, <2>3 DEF Dispatch, IsMeant
    <2>5. Head(batch) \in Msgs
      BY <2>1, <2>4 DEF SignalTypes
    <2>6. Head(batch).signum # "none" /\ Head(batch).handle \in Handlers
      BY <2>4, <2>5 DEF Msgs, Signums, Watchers
    <2>7. QED
      BY <2>1, <2>4, <2>6 DEF MessageInv
  <1>2. QED
    BY <1>1, ProcessInvariance, PTL DEF Spec, NoLateSignal

-----------------------------------------------------------------------------
(***************************************************************************)
(* Every child implements HandleLifetime                                   *)
(***************************************************************************)

\* What the refinement mapping makes of child c
OwnersOf(c) == (IF c \in finalized THEN {} ELSE {"object"})
                 \cup (IF c \in closed THEN {} ELSE {"loop"})
StructOf(c) == IF mem[c] = "none" \/ c \in failed THEN "live" ELSE mem[c]
PromisesOf(c) == [p \in Ops |-> IF asked[p] = c THEN prom[p] ELSE "none"]

PromiseStates == {"none", "pending", "resolved", "rejected", "dropped"}

\* A pending promise is settled or dropped.
SettledOf(c) ==
  /\ PromisesOf(c)' \in [Ops -> PromiseStates]
  /\ \A p \in Ops :
       PromisesOf(c)'[p] # PromisesOf(c)[p] =>
         PromisesOf(c)[p] = "pending" /\ PromisesOf(c)'[p] \in {"resolved", "rejected", "dropped"}

\* The steps of HandleLifetime, for child c
LEMMA LifetimeStutter ==
  ASSUME NEW c \in Children, UNCHANGED <<OwnersOf(c), StructOf(c), PromisesOf(c)>>
  PROVE  [Lifetime(c)!Next]_(Lifetime(c)!vars)
  BY DEF Lifetime!vars, OwnersOf, StructOf, PromisesOf

LEMMA LifetimeBegin ==
  ASSUME NEW c \in Children, NEW p \in Ops, "object" \in OwnersOf(c),
         PromisesOf(c)[p] = "none",
         NEW v \in {"pending", "resolved"}, PromisesOf(c)' = [PromisesOf(c) EXCEPT ![p] = v],
         UNCHANGED <<OwnersOf(c), StructOf(c)>>
  PROVE  [Lifetime(c)!Next]_(Lifetime(c)!vars)
  BY DEF Lifetime!Next, Lifetime!Begin, OwnersOf, StructOf, PromisesOf

LEMMA LifetimeSettle ==
  ASSUME NEW c \in Children, StructOf(c) = "live", SettledOf(c),
         UNCHANGED <<OwnersOf(c), StructOf(c)>>
  PROVE  [Lifetime(c)!Next]_(Lifetime(c)!vars)
  BY DEF Lifetime!Next, Lifetime!Settle, Lifetime!SettleSome, Lifetime!Outcomes,
         OwnersOf, StructOf, PromisesOf, SettledOf, PromiseStates

LEMMA LifetimeRelease ==
  ASSUME NEW c \in Children, NEW o \in {"object", "loop"}, o \in OwnersOf(c),
         OwnersOf(c)' = OwnersOf(c) \ {o},
         StructOf(c)' = IF OwnersOf(c) = {o} THEN "freed" ELSE StructOf(c), SettledOf(c)
  PROVE  [Lifetime(c)!Next]_(Lifetime(c)!vars)
  BY DEF Lifetime!Next, Lifetime!Release, Lifetime!SettleSome, Lifetime!Outcomes,
         OwnersOf, StructOf, PromisesOf, SettledOf, PromiseStates

\* The struct of a child is freed when both owners let go.
LEMMA StructFreed ==
  ASSUME StructTypes, LifeInv, NEW c \in Children
  PROVE  StructOf(c) = IF c \in closed \cap finalized THEN "freed" ELSE "live"
  BY Names DEF StructTypes, LifeInv, StructOf

LEMMA StructFreedNext ==
  ASSUME StructTypes', LifeInv', NEW c \in Children
  PROVE  StructOf(c)' = IF c \in closed' \cap finalized' THEN "freed" ELSE "live"
  BY Names DEF StructTypes, LifeInv, StructOf

\* Every step is a step of HandleLifetime for child c, or none.
LEMMA LifetimeStep ==
  ASSUME ProcessInv, ProcessInv', [Next]_vars, NEW c \in Children
  PROVE  [Lifetime(c)!Next]_(Lifetime(c)!vars)
  <1>t. /\ StructTypes /\ ChildTypes /\ WaitTypes /\ LifeInv /\ WatchInv /\ WaitInv
        /\ StructTypes' /\ WaitTypes' /\ LifeInv'
    BY TypeParts DEF ProcessInv
  <1>s. /\ StructOf(c) = IF c \in closed \cap finalized THEN "freed" ELSE "live"
        /\ StructOf(c)' = IF c \in closed' \cap finalized' THEN "freed" ELSE "live"
    BY <1>t, StructFreed, StructFreedNext
  <1>u. ASSUME c \in closed' <=> c \in closed, c \in finalized' <=> c \in finalized,
               UNCHANGED PromisesOf(c)
        PROVE  [Lifetime(c)!Next]_(Lifetime(c)!vars)
    BY <1>s, <1>u, LifetimeStutter DEF OwnersOf
  <1>w. ASSUME UNCHANGED <<closed, finalized, asked, prom>>
        PROVE  [Lifetime(c)!Next]_(Lifetime(c)!vars)
    BY <1>w, <1>u DEF PromisesOf
  <1>1. ASSUME NEW d \in Children, Spawn(d) \/ SpawnFails(d) \/ Kill(d) \/ Exit(d) \/ Recycle(d)
        PROVE  [Lifetime(c)!Next]_(Lifetime(c)!vars)
    BY <1>1, <1>w DEF Spawn, Make, SpawnFails, MakeFails, Kill, Exit, Recycle, structVars, waitVars
  <1>2. ASSUME NEW d \in Children, Wait(d) PROVE [Lifetime(c)!Next]_(Lifetime(c)!vars)
    <2> DEFINE p == ops + 1
    <2>1. p \in Ops /\ p > ops
      BY <1>2, <1>t, ProcessAssumption DEF Wait, Call, Ops, WaitTypes
    <2>2. /\ asked' = [asked EXCEPT ![p] = d]
          /\ \E v \in {"pending", "resolved"} : prom' = [prom EXCEPT ![p] = v]
          /\ d \in held /\ UNCHANGED <<closed, finalized>>
      BY <1>2 DEF Wait, structVars
    <2> HIDE DEF p
    <2>3. prom[p] = "none"
      BY <1>t, <2>1 DEF WaitInv
    <2>4. PICK v \in {"pending", "resolved"} : prom' = [prom EXCEPT ![p] = v]
      BY <2>2
    <2>5. CASE d = c
      <3>1. "object" \in OwnersOf(c)
        BY <1>t, <2>2, <2>5, Names DEF OwnersOf, LifeInv
      <3>2. PromisesOf(c)[p] = "none"
        BY <2>1, <2>3 DEF PromisesOf
      <3>3. PromisesOf(c)' = [PromisesOf(c) EXCEPT ![p] = v]
        BY <1>t, <2>1, <2>2, <2>4, <2>5 DEF PromisesOf, WaitTypes
      <3>4. UNCHANGED <<OwnersOf(c), StructOf(c)>>
        BY <1>s, <2>2 DEF OwnersOf
      <3>5. QED
        BY <2>1, <3>1, <3>2, <3>3, <3>4, LifetimeBegin
    <2>6. CASE d # c
      <3>1. UNCHANGED PromisesOf(c)
        BY <1>t, <2>1, <2>2, <2>3, <2>4, <2>6 DEF PromisesOf, WaitTypes
      <3>2. QED
        BY <1>u, <2>2, <3>1
    <2>7. QED
      BY <2>5, <2>6
  <1>3. ASSUME NEW h \in Handlers, SignalFails(h) \/ Close(h) \/ \E s \in Signums : Signal(h, s)
        PROVE  [Lifetime(c)!Next]_(Lifetime(c)!vars)
    BY <1>3, <1>w DEF SignalFails, MakeFails, Close, Signal, Make, waitVars
  <1>4. ASSUME NEW x \in Handles, Drop(x) PROVE [Lifetime(c)!Next]_(Lifetime(c)!vars)
    BY <1>4, <1>w DEF Drop, waitVars
  <1>5. CASE Dispatch
    <2>1. CASE UNCHANGED <<structVars, waitVars>>
      BY <1>w, <2>1 DEF structVars, waitVars
    <2>2. CASE Chld
      <3>1. /\ prom' = [p \in Ops |-> IF \E d \in Reapable : slot[d] = p THEN "resolved" ELSE prom[p]]
            /\ UNCHANGED <<closed, finalized, asked>>
        BY <2>2 DEF Chld
      <3>2. \A d \in Reapable, p \in Ops :
              slot[d] = p => asked[p] = d /\ prom[p] = "pending" /\ uv[d] = "open"
        BY <1>t, Names DEF Reapable, ChildTypes, WatchInv, WaitInv
      <3>3. CASE c \in Reapable
        <4>1. uv[c] = "open"
          BY <1>t, <3>3 DEF Reapable, WatchInv
        <4>2. StructOf(c) = "live"
          BY <1>s, <1>t, <4>1, Names DEF LifeInv
        <4>3. PromisesOf(c)' \in [Ops -> PromiseStates]
          BY <1>t DEF PromisesOf, PromiseStates, WaitTypes
        <4>4. SettledOf(c)
          BY <3>1, <3>2, <4>3 DEF SettledOf, PromisesOf
        <4>5. UNCHANGED <<OwnersOf(c), StructOf(c)>>
          BY <1>s, <3>1 DEF OwnersOf
        <4>6. QED
          BY <4>2, <4>4, <4>5, LifetimeSettle
      <3>4. CASE c \notin Reapable
        <4>1. \A p \in Ops : asked[p] = c => prom'[p] = prom[p]
          BY <3>1, <3>2, <3>4
        <4>2. UNCHANGED PromisesOf(c)
          BY <3>1, <4>1 DEF PromisesOf
        <4>3. QED
          BY <1>u, <3>1, <4>2
      <3>5. QED
        BY <3>3, <3>4
    <2>3. QED
      BY <1>5, <2>1, <2>2 DEF Dispatch
  <1>6. ASSUME NEW x \in Handles, CloseCb(x) PROVE [Lifetime(c)!Next]_(Lifetime(c)!vars)
    <2>1. /\ uv[x] = "closing" /\ closed' = closed \cup {x}
          /\ UNCHANGED <<finalized, asked, prom>>
      BY <1>6 DEF CloseCb, waitVars
    <2>2. UNCHANGED PromisesOf(c)
      BY <2>1 DEF PromisesOf
    <2>3. CASE x = c
      <3>1. c \notin closed
        BY <1>t, <2>1, <2>3 DEF LifeInv
      <3>2. /\ "loop" \in OwnersOf(c)
            /\ OwnersOf(c)' = OwnersOf(c) \ {"loop"}
            /\ OwnersOf(c) = {"loop"} <=> c \in finalized
        BY <2>1, <2>3, <3>1 DEF OwnersOf
      <3>3. StructOf(c)' = IF OwnersOf(c) = {"loop"} THEN "freed" ELSE StructOf(c)
        BY <1>s, <2>1, <2>3, <3>1, <3>2
      <3>4. PromisesOf(c) \in [Ops -> PromiseStates]
        BY <1>t DEF PromisesOf, PromiseStates, WaitTypes
      <3>5. SettledOf(c)
        BY <2>2, <3>4 DEF SettledOf
      <3>6. QED
        BY <3>2, <3>3, <3>5, LifetimeRelease
    <2>4. CASE x # c
      BY <1>u, <2>1, <2>2, <2>4
    <2>5. QED
      BY <2>3, <2>4
  <1>7. ASSUME NEW x \in Handles, Collect(x) PROVE [Lifetime(c)!Next]_(Lifetime(c)!vars)
    <2>1. /\ x \notin finalized /\ finalized' = finalized \cup {x}
          /\ UNCHANGED <<closed, asked>>
          /\ x \in Children => prom' = [p \in Ops |-> IF p = slot[x] THEN "dropped" ELSE prom[p]]
          /\ x \notin Children => prom' = prom
      BY <1>7 DEF Collect
    <2>2. x \in Children /\ slot[x] # None => prom[slot[x]] = "pending" /\ asked[slot[x]] = x
      BY <1>t DEF WaitInv
    <2>3. CASE x = c
      <3>1. /\ "object" \in OwnersOf(c)
            /\ OwnersOf(c)' = OwnersOf(c) \ {"object"}
            /\ OwnersOf(c) = {"object"} <=> c \in closed
        BY <2>1, <2>3 DEF OwnersOf
      <3>2. StructOf(c)' = IF OwnersOf(c) = {"object"} THEN "freed" ELSE StructOf(c)
        BY <1>s, <2>1, <2>3, <3>1
      <3>3. PromisesOf(c)' \in [Ops -> PromiseStates]
        BY <1>t DEF PromisesOf, PromiseStates, WaitTypes
      <3>4. SettledOf(c)
        BY <2>1, <2>2, <2>3, <3>3, Names DEF SettledOf, PromisesOf
      <3>5. QED
        BY <3>1, <3>2, <3>4, LifetimeRelease
    <2>4. CASE x # c
      <3>1. \A p \in Ops : asked[p] = c => prom'[p] = prom[p]
        BY <1>t, <2>1, <2>2, <2>4, Names DEF WaitTypes
      <3>2. UNCHANGED PromisesOf(c)
        BY <2>1, <3>1 DEF PromisesOf
      <3>3. QED
        BY <1>u, <2>1, <2>4, <3>2
    <2>5. QED
      BY <2>3, <2>4
  <1>8. CASE ReadPipe \/ EndHandler \/ Raise \/ TouchFailed \/ UNCHANGED vars
    BY <1>8, <1>w DEF ReadPipe, EndHandler, Raise, TouchFailed, vars, structVars, waitVars
  <1>9. ASSUME NEW s \in Signums, SignalHandler(s) PROVE [Lifetime(c)!Next]_(Lifetime(c)!vars)
    BY <1>9, <1>w DEF SignalHandler, structVars, waitVars
  <1>10. QED
    BY <1>1, <1>2, <1>3, <1>4, <1>5, <1>6, <1>7, <1>8, <1>9
    DEF Next, Program, Loop, Environment

\* Every child implements HandleLifetime: its struct is freed once, by the last
\* of the finalizer and the close callback, and a promise of wait() is settled at
\* most once and only while the struct exists.
THEOREM ProcessLifetime == Spec => ImplementsLifetime
  <1>1. ASSUME Init PROVE \A c \in Children : Lifetime(c)!Init
    BY <1>1, Names DEF Init, Lifetime!Init
  <1>2. ASSUME ProcessInv, ProcessInv', [Next]_vars
        PROVE  [\A c \in Children : [Lifetime(c)!Next]_(Lifetime(c)!vars)]_vars
    BY <1>2, LifetimeStep
  <1>3. QED
    BY <1>1, <1>2, ProcessInvariance, PTL DEF Spec, ImplementsLifetime
=============================================================================
