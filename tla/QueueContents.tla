--------------------------- MODULE QueueContents ---------------------------
(***************************************************************************)
(* What queue.c promises its callers: each queue is a sequence of entries, *)
(* and all queues together hold at most N_QNODES of them.                  *)
(***************************************************************************)
EXTENDS Integers, Sequences, SequencesExt

CONSTANTS
  Queues,    \* names of the queues
  Sorted,    \* those with a comparison function
  Data,      \* what is queued
  Key(_),    \* what the comparison function compares
  N_QNODES   \* entries all queues have room for

VARIABLES
  contents,  \* the entries of each queue, first to last
  room,      \* how many more entries fit
  reply      \* status of the last call, and the entry it returned

vars == <<contents, room, reply>>

Nothing == <<>>

\* the place of d in a sorted queue: after the entries that compare equal
Slot(seq, d) ==
  CHOOSE i \in 1 .. Len(seq) + 1 :
    /\ \A j \in 1 .. i - 1 : Key(seq[j]) <= Key(d)
    /\ i <= Len(seq) => Key(d) < Key(seq[i])

Place(q, d) == IF q \in Sorted THEN Slot(contents[q], d)
               ELSE Len(contents[q]) + 1

Enque(q, d) ==
  \/ /\ room > 0
     /\ reply' = <<"E_SUCCESS", Nothing>>
     /\ contents' = [contents EXCEPT ![q] = InsertAt(@, Place(q, d), d)]
     /\ room' = room - 1
  \/ /\ room = 0
     /\ reply' = <<"E_NO_QNODES", Nothing>>
     /\ UNCHANGED <<contents, room>>

Deque(q) ==
  \/ /\ contents[q] # <<>>
     /\ reply' = <<"E_SUCCESS", <<Head(contents[q])>>>>
     /\ contents' = [contents EXCEPT ![q] = Tail(@)]
     /\ room' = room + 1
  \/ /\ contents[q] = <<>>
     /\ reply' = <<"E_EMPTY_QUEUE", Nothing>>
     /\ UNCHANGED <<contents, room>>

\* the first entry that is d
Remove_(q, d) ==
  \/ /\ Contains(contents[q], d)
     /\ reply' = <<"E_SUCCESS", Nothing>>
     /\ contents' = [contents EXCEPT ![q] = RemoveFirst(@, d)]
     /\ room' = room + 1
  \/ /\ ~Contains(contents[q], d)
     /\ reply' = <<"E_NO_PROCESS", Nothing>>
     /\ UNCHANGED <<contents, room>>

Peek(q) ==
  /\ reply' = IF contents[q] = <<>> THEN <<"E_EMPTY_QUEUE", Nothing>>
              ELSE <<"E_SUCCESS", <<Head(contents[q])>>>>
  /\ UNCHANGED <<contents, room>>

Init ==
  /\ contents = [q \in Queues |-> <<>>]
  /\ room = N_QNODES
  /\ reply = <<"E_SUCCESS", Nothing>>

Next == \E q \in Queues :
  \/ Deque(q)
  \/ Peek(q)
  \/ \E d \in Data : Enque(q, d) \/ Remove_(q, d)

Spec == Init /\ [][Next]_vars
=============================================================================
