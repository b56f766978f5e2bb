------------------------------ MODULE MCCamera ------------------------------
(* CameraClient for TLC. *)
EXTENDS CameraClient

OneFd == {3}
=============================================================================
