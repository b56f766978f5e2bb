------------------------------ MODULE MCInput ------------------------------
(* VirtualInputReceiver for TLC. *)
EXTENDS VirtualInputReceiver
=============================================================================
