------------------------------- MODULE MCGps -------------------------------
(* VirtualGpsReceiver for TLC. *)
EXTENDS VirtualGpsReceiver

TwoFds == 3..4
=============================================================================
