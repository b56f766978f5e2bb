------------------------------- MODULE MCHost -------------------------------
(* HostCameraServer for TLC. *)
EXTENDS HostCameraServer

OneFd == {3}
TwoFds == 3..4
=============================================================================
