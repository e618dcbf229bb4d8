------------------------------- MODULE MCSio -------------------------------
(***************************************************************************)
(* Instances of Sio for TLC.  97 and 98 are letters.                       *)
(***************************************************************************)
EXTENDS Sio

Str(s) == [buf |-> s, size |-> Len(s)]
\* shorter than, as long as and longer than the ring; a LF alone, and one in
\* the middle
MCWrites == {Str(<<97>>), Str(<<10>>), Str(<<98, 97>>), Str(<<97, 10, 98, 98>>)}

ASSUME CallsArePlain == PlainCalls
=============================================================================
