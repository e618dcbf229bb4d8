------------------------------ MODULE MCQueue ------------------------------
(***************************************************************************)
(* A FIFO and a sorted queue; two of the three entries compare equal.      *)
(***************************************************************************)
EXTENDS Queue

MCKey(d) == IF d = 3 THEN 2 ELSE 1
=============================================================================
