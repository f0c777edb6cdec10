------------------------------- MODULE MCUdp ---------------------------------
(* Instances of Udp for TLC. *)
EXTENDS Udp, TLC
=============================================================================
