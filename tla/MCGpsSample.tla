---------------------------- MODULE MCGpsSample ----------------------------
(* GpsSample for TLC: close to the date line, the equator and the top, and *)
(* a start whose limits are cut off below zero.                            *)
EXTENDS GpsSample

OneFd == {3}

EdgeStart == {[long |-> 17999999, lat |-> -1, alt |-> 88475],
              [long |-> -250000, lat |-> -8999999, alt |-> -3999]}
=============================================================================
