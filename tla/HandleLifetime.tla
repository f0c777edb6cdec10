--------------------------- MODULE HandleLifetime ----------------------------
(***************************************************************************)
(* What every handle class of IJJS promises (TCP, Pipe, TTY, UDP, Process, *)
(* SignalHandler): its C struct has two owners, the JavaScript object and  *)
(* the loop. The finalizer ends the first ownership, the close callback    *)
(* the second, and the struct is freed by whichever comes last. Promises   *)
(* are given out by the object and are settled at most once, while the     *)
(* struct exists.                                                          *)
(***************************************************************************)
CONSTANT Promises

VARIABLES owners, mem, prom

vars == <<owners, mem, prom>>

Outcomes == {"resolved", "rejected", "dropped"}

\* A pending promise may be settled, or dropped with the object.
SettleSome ==
  \A p \in Promises : prom'[p] # prom[p] => prom[p] = "pending" /\ prom'[p] \in Outcomes

Init ==
  /\ owners = {"object", "loop"}
  /\ mem = "live"
  /\ prom = [p \in Promises |-> "none"]

\* The object starts an operation.
Begin(p) ==
  /\ "object" \in owners
  /\ prom[p] = "none"
  /\ \E v \in {"pending", "resolved"} : prom' = [prom EXCEPT ![p] = v]
  /\ UNCHANGED <<owners, mem>>

\* A callback, or close(), settles promises.
Settle ==
  /\ mem = "live"
  /\ prom' \in [Promises -> {"none", "pending"} \cup Outcomes]
  /\ SettleSome
  /\ UNCHANGED <<owners, mem>>

\* One of the owners lets go.
Release(o) ==
  /\ o \in owners
  /\ owners' = owners \ {o}
  /\ mem' = IF owners = {o} THEN "freed" ELSE mem
  /\ prom' \in [Promises -> {"none", "pending"} \cup Outcomes]
  /\ SettleSome

Next ==
  \/ \E p \in Promises : Begin(p)
  \/ Settle
  \/ \E o \in {"object", "loop"} : Release(o)

Spec == Init /\ [][Next]_vars
=============================================================================
