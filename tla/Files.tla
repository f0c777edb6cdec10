------------------------------- MODULE Files ---------------------------------
(***************************************************************************)
(* File and Directory objects (ijfs.c), the thread pool of libuv that does *)
(* their system calls (threadpool.c, fs.c) and the process's descriptor    *)
(* table. The program calls in any order and need not wait for an answer;  *)
(* a call on a directory that is at its end does nothing and is not a      *)
(* step.                                                                   *)
(*                                                                         *)
(* The n-th call of the program has the number n, which names its request, *)
(* its promise, and the object and open file the call makes. read(),       *)
(* write() and stat() differ in nothing but data and are "io"; stat(),     *)
(* rename() and the other functions of a path are "path".                  *)
(*                                                                         *)
(* `fault' is set when the process is undefined, and the model stops.      *)
(***************************************************************************)
EXTENDS Integers, Sequences, FiniteSets

CONSTANTS
  None,     \* no descriptor (-1), no name (NULL), no open file
  Loaded,   \* a file ijLoadFile opened
  Threads,  \* threads of the pool
  MaxFds,   \* descriptors the process may have open
  Entries,  \* entries of a directory
  MaxOps    \* bound: calls of the program

Ops == 1..MaxOps
Fds == 1..MaxFds

Kinds  == {"file", "dir"}
Makers == {"open", "opendir"}
Plain  == {"path", "readFile"}
OfFile == {"io", "close"}
OfDir  == {"next", "closedir"}
Types  == Makers \cup Plain \cup OfFile \cup OfDir

ASSUME FilesAssumption ==
  /\ Threads \in Nat \ {0}
  /\ MaxFds \in Nat \ {0}
  /\ Entries \in Nat
  /\ MaxOps \in Nat
  /\ None \notin Nat \cup Types \cup Kinds
  /\ Loaded \notin Nat \cup {None}

VARIABLES
  ops,      \* calls so far
  req,      \* the requests, by call, until they are called back and freed
  wq,       \* the queue of the pool
  running,  \* requests a thread has taken
  worked,   \* requests whose system call has returned
  doneq,    \* loop->wq
  prom,     \* the promises
  obj,      \* the objects, by the call that made them
  held,     \* objects the program references
  tab,      \* the descriptor table: the open files, by the call that opened them
  stale,    \* history: objects used while, or after, they were being closed
  fault

poolVars == <<wq, running, worked, doneq>>
vars == <<ops, req, poolVars, prom, obj, held, tab, stale, fault>>

NoReq == [type |-> None, on |-> None, fd |-> None, ok |-> FALSE, got |-> None]

\* pos: the position in the directory; dirent: d->dirent; live: the uv_dir_t;
\* seen: history, the entries the program was told of
NoObj == [kind |-> None, fd |-> None, pos |-> 0, dirent |-> None, done |-> FALSE,
          live |-> FALSE, seen |-> <<>>]

Objects == {o \in Ops : obj[o].kind # None}
InPool  == {wq[i] : i \in DOMAIN wq} \cup running
InLoop  == worked \cup {doneq[i] : i \in DOMAIN doneq}
InFlight == InPool \cup InLoop

-----------------------------------------------------------------------------
(***************************************************************************)
(* Calls                                                                   *)
(***************************************************************************)

\* What a call on o would overlap with: anything, for a directory, whose entry
\* buffer and position its requests share; for a file, a close().
Overlaps(o, type) ==
  \E p \in InFlight :
    /\ req[p].on = o
    /\ obj[o].kind = "dir" \/ type = "close" \/ req[p].type = "close"

\* uv_fs_* takes the descriptor now and the pool uses it later; ijFsReqInit
\* makes the promise.
Submit(type, o, fd) ==
  /\ fault = "none"
  /\ ops < MaxOps
  /\ ops' = ops + 1
  /\ req' = [req EXCEPT ![ops + 1] = [NoReq EXCEPT !.type = type, !.on = o, !.fd = fd]]
  /\ wq' = Append(wq, ops + 1)
  /\ prom' = [prom EXCEPT ![ops + 1] = "pending"]
  /\ UNCHANGED <<running, worked, doneq, obj, held, tab, fault>>

\* open(), mkstemp(), readdir(), readFile(), stat(), unlink() and the like
Call(type) ==
  /\ type \in Makers \cup Plain
  /\ Submit(type, None, None)
  /\ UNCHANGED stale

\* read(), write(), stat(), close() of a File, and close() of a Directory, which
\* throws when there is nothing to close
CallOn(o, type) ==
  /\ o \in held
  /\ type \in IF obj[o].kind = "file" THEN OfFile ELSE {"closedir"}
  /\ type = "closedir" => obj[o].fd # None
  /\ Submit(type, o, obj[o].fd)
  /\ stale' = IF Overlaps(o, type) THEN stale \cup {o} ELSE stale

\* ijDirNext
DirNext(o) ==
  /\ o \in held
  /\ obj[o].kind = "dir"
  /\ ~obj[o].done
  /\ obj[o].fd # None
  /\ obj[o].live
  /\ Submit("next", o, obj[o].fd)
  /\ stale' = IF Overlaps(o, "next") THEN stale \cup {o} ELSE stale

\* ijDirNext writes to the uv_dir_t, which is gone when the Directory is closed,
\* or when the pool has closed it and the callback is still to come.
NextOfClosed(o) ==
  /\ fault = "none"
  /\ o \in held
  /\ obj[o].kind = "dir"
  /\ ~obj[o].done
  /\ ~obj[o].live
  /\ stale' = stale \cup {o}
  /\ fault' = IF obj[o].fd = None THEN "nullDir" ELSE "freedDir"
  /\ UNCHANGED <<ops, req, poolVars, prom, obj, held, tab>>

Drop(o) ==
  /\ fault = "none"
  /\ o \in held
  /\ held' = held \ {o}
  /\ UNCHANGED <<ops, req, poolVars, prom, obj, tab, stale, fault>>

\* Mutant: the request does not hold the object.
ReferencedProgram == held

\* The program, and fr->obj of every request, hold the object.
Referenced == held \cup {req[p].on : p \in InFlight}

\* ijFileFinalizer, ijDirFinalizer: what is still open is closed.
Finalize(o) ==
  /\ fault = "none"
  /\ o \in Objects \ Referenced
  /\ tab' = IF obj[o].fd # None THEN [tab EXCEPT ![obj[o].fd] = None] ELSE tab
  /\ obj' = [obj EXCEPT ![o] = NoObj]
  /\ UNCHANGED <<ops, req, poolVars, prom, held, stale, fault>>

-----------------------------------------------------------------------------
(***************************************************************************)
(* The pool                                                                *)
(***************************************************************************)

\* Mutant: the request stays in the queue.
TakeKept ==
  /\ fault = "none"
  /\ wq # <<>>
  /\ Cardinality(running) < Threads
  /\ running' = running \cup {Head(wq)}
  /\ UNCHANGED <<ops, req, wq, worked, doneq, prom, obj, held, tab, stale, fault>>

\* worker: a thread takes the head of the queue.
Take ==
  /\ fault = "none"
  /\ wq # <<>>
  /\ Cardinality(running) < Threads
  /\ running' = running \cup {Head(wq)}
  /\ wq' = Tail(wq)
  /\ UNCHANGED <<ops, req, worked, doneq, prom, obj, held, tab, stale, fault>>

\* The system call of p returns.
Returns(p) ==
  /\ fault = "none"
  /\ p \in running
  /\ running' = running \ {p}
  /\ worked' = worked \cup {p}
  /\ UNCHANGED <<ops, wq, doneq, prom, held, stale>>

FreeFds == {d \in Fds : tab[d] = None}
Lowest == CHOOSE d \in FreeFds : \A e \in FreeFds : d <= e

\* open, mkstemp, opendir; ijLoadFile, which opens the file, reads it and does
\* not close it
WorkOpen(p) ==
  /\ Returns(p)
  /\ req[p].type \in Makers \cup {"readFile"}
  /\ \/ /\ FreeFds # {}
        /\ tab' = [tab EXCEPT ![Lowest] = IF req[p].type = "readFile" THEN Loaded ELSE p]
        /\ req' = [req EXCEPT ![p].ok = TRUE, ![p].fd = Lowest]
     \/ UNCHANGED <<tab, req>>
  /\ UNCHANGED <<obj, fault>>

\* The file system changes; no descriptor does. Whether it succeeds only
\* decides how the promise is settled.
WorkPath(p) ==
  /\ Returns(p)
  /\ req[p].type = "path"
  /\ UNCHANGED <<req, obj, tab, fault>>

\* The open file a descriptor stands for now
FileAt(fd) == IF fd = None THEN None ELSE tab[fd]

\* read, pread, write, fstat
WorkIo(p) ==
  /\ Returns(p)
  /\ req[p].type = "io"
  /\ req' = [req EXCEPT ![p].got = FileAt(req[p].fd)]
  /\ UNCHANGED <<obj, tab, fault>>

\* uv__fs_close. The descriptor is free also when close() reports an error.
WorkClose(p) ==
  /\ Returns(p)
  /\ req[p].type = "close"
  /\ \E ok \in BOOLEAN :
       /\ ok => FileAt(req[p].fd) # None
       /\ req' = [req EXCEPT ![p].ok = ok, ![p].got = FileAt(req[p].fd)]
  /\ tab' = IF req[p].fd = None THEN tab ELSE [tab EXCEPT ![req[p].fd] = None]
  /\ UNCHANGED <<obj, fault>>

HasEntry(d) == d.pos < Entries

\* uv__fs_readdir: the entry goes to the one buffer of the Directory.
WorkNext(p) ==
  /\ Returns(p)
  /\ req[p].type = "next"
  /\ LET o == req[p].on
     IN  \/ /\ ~obj[o].live
            /\ fault' = "freedDir"
            /\ UNCHANGED <<obj, req>>
         \/ /\ obj[o].live
            /\ HasEntry(obj[o])
            /\ obj' = [obj EXCEPT ![o].pos = @ + 1, ![o].dirent = obj[o].pos + 1]
            /\ req' = [req EXCEPT ![p].ok = TRUE, ![p].got = 1]
            /\ UNCHANGED fault
         \/ /\ obj[o].live
            /\ ~HasEntry(obj[o])
            /\ req' = [req EXCEPT ![p].ok = TRUE, ![p].got = 0]
            /\ UNCHANGED <<obj, fault>>
         \/ /\ obj[o].live
            /\ UNCHANGED <<obj, req, fault>>
  /\ UNCHANGED tab

\* uv__fs_closedir
WorkCloseDir(p) ==
  /\ Returns(p)
  /\ req[p].type = "closedir"
  /\ LET o == req[p].on
     IN  IF obj[o].live
         THEN /\ tab' = [tab EXCEPT ![req[p].fd] = None]
              /\ obj' = [obj EXCEPT ![o].live = FALSE]
              /\ req' = [req EXCEPT ![p].ok = TRUE]
              /\ UNCHANGED fault
         ELSE /\ fault' = "freedDir"
              /\ UNCHANGED <<tab, obj, req>>

Work(p) ==
  WorkOpen(p) \/ WorkPath(p) \/ WorkIo(p) \/ WorkClose(p) \/ WorkNext(p) \/ WorkCloseDir(p)

\* The thread hands the request to its loop.
Post(p) ==
  /\ fault = "none"
  /\ p \in worked
  /\ worked' = worked \ {p}
  /\ doneq' = Append(doneq, p)
  /\ UNCHANGED <<ops, req, wq, running, prom, obj, held, tab, stale, fault>>

-----------------------------------------------------------------------------
(***************************************************************************)
(* Callbacks: uv__work_done, uvFsReqCb and ijReadFileAfterWorkCb           *)
(***************************************************************************)

\* Requests are called back in the order the pool posted them.
Called(p) ==
  /\ fault = "none"
  /\ doneq # <<>>
  /\ p = Head(doneq)
  /\ doneq' = Tail(doneq)
  /\ UNCHANGED <<ops, wq, running, worked, tab>>

\* ijSettlePromise, and the request is freed
SettleReq(p) ==
  /\ prom' = [prom EXCEPT ![p] = "settled"]
  /\ req' = [req EXCEPT ![p] = NoReq]

\* ijNewFile, ijNewDir
NewObj(p) ==
  [kind |-> IF req[p].type = "open" THEN "file" ELSE "dir", fd |-> req[p].fd, pos |-> 0,
   dirent |-> None, done |-> FALSE, live |-> TRUE, seen |-> <<>>]

OpenCb(p) ==
  /\ Called(p)
  /\ req[p].type \in Makers
  /\ SettleReq(p)
  /\ IF req[p].ok
     THEN obj' = [obj EXCEPT ![p] = NewObj(p)] /\ held' = held \cup {p}
     ELSE UNCHANGED <<obj, held>>
  /\ UNCHANGED <<stale, fault>>

\* Mutant: the callback of close() keeps f->fd.
AfterCloseKept(p) == obj

\* f->fd = -1, d->dir = NULL; not when close() failed
AfterClose(p) == IF req[p].ok THEN [obj EXCEPT ![req[p].on].fd = None] ELSE obj

\* A File whose close() failed keeps a descriptor that is free.
CloseCb(p) ==
  /\ Called(p)
  /\ req[p].type \in {"close", "closedir"}
  /\ SettleReq(p)
  /\ obj' = AfterClose(p)
  /\ stale' = IF ~req[p].ok /\ req[p].fd # None THEN stale \cup {req[p].on} ELSE stale
  /\ UNCHANGED <<held, fault>>

PlainCb(p) ==
  /\ Called(p)
  /\ req[p].type \in Plain \cup {"io"}
  /\ SettleReq(p)
  /\ UNCHANGED <<obj, held, stale, fault>>

\* Mutant: d->done is set by the last entry, not after it.
IsDoneEarly(p) == obj[req[p].on].pos = Entries

\* d->done = fr->req.result == 0
IsDone(p) == req[p].got = 0

\* What the callback makes of the Directory: the entry, if there is one, is
\* reported and its name is freed. A program looks at the entry unless it is
\* told that this is the end.
AfterNext(p, d) ==
  IF req[p].got = 1
  THEN [d EXCEPT !.done = IsDone(p), !.dirent = None,
                 !.seen = IF IsDone(p) THEN @ ELSE Append(@, d.dirent)]
  ELSE [d EXCEPT !.done = IsDone(p)]

\* The entry is copied out of the buffer, and uv_fs_req_cleanup frees its name
\* (and so uses the uv_dir_t).
NextCb(p) ==
  /\ Called(p)
  /\ req[p].type = "next"
  /\ LET o == req[p].on
         entry == req[p].ok /\ req[p].got = 1
     IN  \/ /\ ~obj[o].live
            /\ fault' = "freedDir"
            /\ UNCHANGED <<req, obj, prom>>
         \/ /\ obj[o].live
            /\ entry
            /\ obj[o].dirent = None
            /\ fault' = "nullName"
            /\ UNCHANGED <<req, obj, prom>>
         \/ /\ obj[o].live
            /\ entry => obj[o].dirent # None
            /\ SettleReq(p)
            /\ obj' = IF req[p].ok THEN [obj EXCEPT ![o] = AfterNext(p, obj[o])] ELSE obj
            /\ UNCHANGED fault
  /\ UNCHANGED <<held, stale>>

Callback == \E p \in Ops : OpenCb(p) \/ CloseCb(p) \/ PlainCb(p) \/ NextCb(p)

-----------------------------------------------------------------------------
Init ==
  /\ ops = 0
  /\ req = [p \in Ops |-> NoReq]
  /\ wq = <<>>
  /\ running = {}
  /\ worked = {}
  /\ doneq = <<>>
  /\ prom = [p \in Ops |-> "none"]
  /\ obj = [p \in Ops |-> NoObj]
  /\ held = {}
  /\ tab = [d \in Fds |-> None]
  /\ stale = {}
  /\ fault = "none"

Program ==
  \/ \E type \in Types : Call(type) \/ \E o \in Ops : CallOn(o, type)
  \/ \E o \in Ops : DirNext(o) \/ NextOfClosed(o) \/ Drop(o)

Pool == Take \/ \E p \in Ops : Work(p) \/ Post(p)

Next == Program \/ Pool \/ Callback \/ \E o \in Ops : Finalize(o)

Spec == Init /\ [][Next]_vars

-----------------------------------------------------------------------------
(***************************************************************************)
(* Properties                                                              *)
(***************************************************************************)

TypeOK ==
  /\ ops \in 0..MaxOps
  /\ req \in [Ops -> [type : Types \cup {None}, on : Ops \cup {None},
                      fd : Fds \cup {None}, ok : BOOLEAN,
                      got : 0..MaxOps \cup {None, Loaded}]]
  /\ wq \in Seq(Ops)
  /\ running \subseteq Ops
  /\ worked \subseteq Ops
  /\ doneq \in Seq(Ops)
  /\ prom \in [Ops -> {"none", "pending", "settled"}]
  /\ obj \in [Ops -> [kind : Kinds \cup {None}, fd : Fds \cup {None},
                      pos : 0..Entries, dirent : 1..Entries \cup {None},
                      done : BOOLEAN, live : BOOLEAN, seen : Seq(1..Entries)]]
  /\ held \subseteq Objects
  /\ tab \in [Fds -> Ops \cup {None, Loaded}]
  /\ stale \subseteq Ops
  /\ fault \in {"none", "nullDir", "freedDir", "nullName"}

\* Every promise the program waits for has one request in flight, which is in
\* one place only.
PendingIsInFlight ==
  fault = "none" =>
    /\ {p \in Ops : prom[p] = "pending"} = InFlight
    /\ Len(wq) + Cardinality(running) + Cardinality(worked) + Len(doneq)
         = Cardinality(InFlight)

\* A system call for a File never reaches another file, although the descriptor
\* is taken at the call and used later, and numbers are used again: unless some
\* object is used while it is being closed, or a close() failed.
OwnDescriptor ==
  stale = {} =>
    \A p \in Ops :
      req[p].type \in {"io", "close"} /\ req[p].got # None => req[p].got = req[p].on

\* Who is to close the open file f: its object, or the callback that will make
\* the object.
Owned(f) ==
  \/ obj[f].kind # None /\ obj[f].fd # None
  \/ f \in InLoop /\ req[f].type \in Makers /\ req[f].ok

\* No descriptor is forgotten (readFile() forgets its own: nothing ever closes
\* it), and an object that is not being closed has its descriptor.
DescriptorsOwned ==
  stale = {} =>
    /\ \A d \in Fds : tab[d] \in Ops => Owned(tab[d])
    /\ \A o \in Objects :
         \/ obj[o].fd = None
         \/ tab[obj[o].fd] = o
         \/ \E p \in InLoop : req[p].on = o /\ req[p].type \in {"close", "closedir"}

\* A program that waits for each next() gets every entry of a directory once
\* and in order, and is told of the end only after the last.
EntriesOnce ==
  stale = {} =>
    \A o \in Objects :
      /\ \A i \in DOMAIN obj[o].seen : obj[o].seen[i] = i
      /\ obj[o].done => Len(obj[o].seen) = Entries

\* Only an object used while, or after, it was being closed, or a directory
\* with two calls at once, makes the process undefined.
FaultIsMisuse == fault # "none" => stale # {}

\* Every pending promise has its request in the pool, and only misuse of an
\* object makes the process undefined.
Inv == TypeOK /\ PendingIsInFlight /\ FaultIsMisuse

=============================================================================
