----------------------------- MODULE MCVConsole -----------------------------
(***************************************************************************)
(* An instance of VConsole for TLC: three rows, with the marquee's row     *)
(* above a region of two.                                                  *)
(***************************************************************************)
EXTENDS VConsole

\* a gap in the last line, and a place outside the screen
MCPlaces == {<<1, 2>>, <<2, 0>>}
=============================================================================
