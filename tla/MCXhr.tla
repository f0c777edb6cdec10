------------------------------- MODULE MCXhr -------------------------------
(* Instances of Xhr for TLC. *)
EXTENDS Xhr, TLC

CONSTANTS x1, x2

\* One request used for long, or two at once.
CallBudgets == {x1 :> 5 @@ x2 :> 0, x1 :> 2 @@ x2 :> 1}
=============================================================================
