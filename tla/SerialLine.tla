----------------------------- MODULE SerialLine -----------------------------
(***************************************************************************)
(* What the serial module promises: characters received are read in order, *)
(* each once, unless they came while the buffer was full; a reader only    *)
(* waits while nothing is buffered; characters written are sent in order.  *)
(***************************************************************************)
EXTENDS Integers, Sequences, SequencesExt

CONSTANTS
  Procs,      \* processes using the line
  Input,      \* characters that arrive, as programs see them
  Sizes,      \* buffer sizes passed to read()
  Writes,     \* strings passed to write()
  BUF_SIZE    \* characters each direction can hold back

VARIABLES
  unread,     \* received and not yet read
  unsent,     \* written and not yet sent
  waiting,    \* processes blocked in read(), first come first served
  handed      \* the characters the last step gave to a process

vars == <<unread, unsent, waiting, handed>>

Least(m, n) == IF m < n THEN m ELSE n

Receive(c) ==
  /\ \/ /\ waiting # <<>>
        /\ waiting' = Tail(waiting)
        /\ handed' = <<c>>
        /\ UNCHANGED unread
     \/ /\ waiting = <<>>
        /\ unread' = IF Len(unread) < BUF_SIZE THEN Append(unread, c) ELSE unread
        /\ handed' = <<>>
        /\ UNCHANGED waiting
  /\ UNCHANGED unsent

Read(p, size) ==
  /\ ~Contains(waiting, p)
  /\ handed' = SubSeq(unread, 1, Least(size, Len(unread)))
  /\ unread = handed' \o unread'
  /\ waiting' = IF unread = <<>> THEN Append(waiting, p) ELSE waiting
  /\ UNCHANGED unsent

Kill(p) ==
  /\ Contains(waiting, p)
  /\ waiting' = RemoveFirst(waiting, p)
  /\ handed' = <<>>
  /\ UNCHANGED <<unread, unsent>>

\* as much of the string as there is room for
Write(str) ==
  /\ \E n \in 0 .. Len(str) :
       /\ unsent' = unsent \o SubSeq(str, 1, n)
       /\ n = Len(str) \/ Len(unsent') >= BUF_SIZE
  /\ handed' = <<>>
  /\ UNCHANGED <<unread, waiting>>

Send ==
  /\ unsent # <<>>
  /\ unsent' = Tail(unsent)
  /\ handed' = <<>>
  /\ UNCHANGED <<unread, waiting>>

\* something that concerns neither readers nor writers
Other == handed' = <<>> /\ UNCHANGED <<unread, unsent, waiting>>

Init == unread = <<>> /\ unsent = <<>> /\ waiting = <<>> /\ handed = <<>>

Next ==
  \/ \E c \in Input : Receive(c)
  \/ \E p \in Procs, size \in Sizes : Read(p, size)
  \/ \E p \in Procs : Kill(p)
  \/ \E str \in Writes : Write(str)
  \/ Send
  \/ Other

Spec == Init /\ [][Next]_vars
=============================================================================
