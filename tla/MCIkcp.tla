------------------------------- MODULE MCIkcp -------------------------------
(* Instances of Ikcp for TLC. *)
EXTENDS Ikcp, TLC

CONSTANTS a, b

\* One end fills the other's window and goes on, or both send and acknowledge
\* with what they send.  The messages of three fragments are refused.
FillOrBoth == {a :> <<2, 2, 3>> @@ b :> <<>>, a :> <<1>> @@ b :> <<1, 3>>}
=============================================================================
