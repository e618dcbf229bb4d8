---------------------------- MODULE MCNicReceive ----------------------------
(***************************************************************************)
(* Instance of NicReceive for TLC.  Addresses 1 and 3 have the same hash.  *)
(***************************************************************************)
EXTENDS NicReceive

MCContents == {[ip |-> 1, mac |-> 7], [ip |-> 3, mac |-> 8], NotArp}
=============================================================================
