--------------------------------- MODULE Sio ---------------------------------
(***************************************************************************)
(* sio.c, with the serial half of _sys_read and _sys_write (syscall.c).    *)
(* A buffer is a record: its cells, the offsets of the pointers into it    *)
(* and the count.  Handlers run with interrupts off, so each is a step; so *)
(* is each event _sio_isr finds pending.                                   *)
(*                                                                         *)
(* _inlast and, in _sio_writec, _outlast are advanced without a bound.  An *)
(* access outside the array has no defined outcome: overrun is set and     *)
(* nothing is claimed from there on.                                       *)
(***************************************************************************)
EXTENDS Integers, Sequences, SequencesExt

CONSTANTS
  Procs,      \* processes using the line
  Received,   \* characters the line delivers
  Sizes,      \* buffer sizes passed to read()
  Writes,     \* what is passed to write(): the buffer and the size
  BUF_SIZE

LF == 10
CR == 13

ASSUME SioAssumption ==
  /\ BUF_SIZE \in Nat \ {0}
  /\ Sizes \subseteq Nat
  /\ Received \subseteq 0 .. 255
  /\ \A w \in Writes : /\ w.buf \in Seq(0 .. 255) \ {<<>>}
                       /\ w.size \in 0 .. Len(w.buf)

\* What a caller must keep to for the line to carry what it writes and to
\* wait only for input: nothing of size 0, no CR in front, and a LF in front
\* only alone, since _sio_writec would send it after the rest.
PlainCalls ==
  /\ 0 \notin Sizes
  /\ \A w \in Writes : /\ w.size >= 1
                       /\ w.buf[1] # CR
                       /\ w.buf[1] = LF => w.size = 1

Offsets == 0 .. BUF_SIZE - 1

VARIABLES
  in,        \* _inbuffer, _innext, _inlast, _incount
  out,       \* _outbuffer, _outnext, _outlast, _outcount
  sending,   \* _sending
  ier_tx,    \* UA4_IER_TX_INT_ENABLE in _ier
  txd,       \* the transmitter: <<>>, or the character it is sending
  reading,   \* _reading
  given,     \* the characters this step has handed to a process
  overrun    \* an access outside a buffer has happened

vars == <<in, out, sending, ier_tx, txd, reading, given, overrun>>

Empty == [buf |-> [i \in Offsets |-> 0], next |-> 0, last |-> 0, count |-> 0]

-----------------------------------------------------------------------------
(* Interrupts *)

\* *_inlast++ = ch, if there is room
store(c) ==
  IF in.count < BUF_SIZE
  THEN [in EXCEPT !.buf[in.last] = c, !.last = @ + 1, !.count = @ + 1]
  ELSE in

\* Mutant: the character is buffered although a reader is blocked.
sio_isr_rx_buffer(ch) ==
  /\ ~overrun
  /\ IF in.count < BUF_SIZE /\ in.last >= BUF_SIZE
     THEN overrun' = TRUE /\ UNCHANGED in
     ELSE in' = store(IF ch = CR THEN LF ELSE ch) /\ UNCHANGED overrun
  /\ given' = <<>>
  /\ UNCHANGED <<out, sending, ier_tx, txd, reading>>

\* a character comes in: for the first blocked reader, else for the buffer
sio_isr_rx(ch) ==
  /\ ~overrun
  /\ LET c == IF ch = CR THEN LF ELSE ch
     IN  IF reading # <<>>
         THEN /\ reading' = Tail(reading)
              /\ given' = <<c>>
              /\ UNCHANGED <<in, overrun>>
         ELSE /\ IF in.count < BUF_SIZE /\ in.last >= BUF_SIZE
                 THEN overrun' = TRUE /\ UNCHANGED in
                 ELSE in' = store(c) /\ UNCHANGED overrun
              /\ given' = <<>>
              /\ UNCHANGED reading
  /\ UNCHANGED <<out, sending, ier_tx, txd>>

\* the transmitter is done with its character
uart_sent ==
  /\ ~overrun
  /\ txd # <<>>
  /\ txd' = <<>>
  /\ given' = <<>>
  /\ UNCHANGED <<in, out, sending, ier_tx, reading, overrun>>

\* Mutant: TX interrupts go off with the last character, _sending stays on.
sio_isr_tx_early ==
  /\ ~overrun
  /\ ier_tx /\ txd = <<>>
  /\ IF sending /\ out.count > 0
     THEN /\ txd' = <<out.buf[out.next]>>
          /\ out' = [out EXCEPT !.next = (@ + 1) % BUF_SIZE, !.count = @ - 1]
          /\ ier_tx' = (out.count > 1)
          /\ UNCHANGED sending
     ELSE /\ out' = [Empty EXCEPT !.buf = out.buf]
          /\ sending' = FALSE
          /\ ier_tx' = FALSE
          /\ UNCHANGED txd
  /\ given' = <<>>
  /\ UNCHANGED <<in, reading, overrun>>

\* Mutant: the event is left pending while the ring has no free cell.
sio_isr_tx_full ==
  /\ ~overrun
  /\ ier_tx /\ txd = <<>>
  /\ out.count < BUF_SIZE
  /\ IF sending /\ out.count > 0
     THEN /\ txd' = <<out.buf[out.next]>>
          /\ out' = [out EXCEPT !.next = (@ + 1) % BUF_SIZE, !.count = @ - 1]
          /\ UNCHANGED <<sending, ier_tx>>
     ELSE /\ out' = [Empty EXCEPT !.buf = out.buf]
          /\ sending' = FALSE
          /\ ier_tx' = FALSE
          /\ UNCHANGED txd
  /\ given' = <<>>
  /\ UNCHANGED <<in, reading, overrun>>

\* the transmitter can take a character: the next one, or stop sending
sio_isr_tx ==
  /\ ~overrun
  /\ ier_tx /\ txd = <<>>
  /\ IF sending /\ out.count > 0
     THEN /\ txd' = <<out.buf[out.next]>>
          /\ out' = [out EXCEPT !.next = (@ + 1) % BUF_SIZE, !.count = @ - 1]
          /\ UNCHANGED <<sending, ier_tx>>
     ELSE /\ out' = [Empty EXCEPT !.buf = out.buf]
          /\ sending' = FALSE
          /\ ier_tx' = FALSE
          /\ UNCHANGED txd
  /\ given' = <<>>
  /\ UNCHANGED <<in, reading, overrun>>

-----------------------------------------------------------------------------
(* System calls *)

Least(m, n) == IF m < n THEN m ELSE n

(***************************************************************************)
(* _sio_reads, then _sys_read, which blocks when nothing was copied.       *)
(***************************************************************************)
sys_read(p, size) ==
  /\ ~overrun
  /\ ~Contains(reading, p)
  /\ LET n == Least(in.count, size)
         rest == [in EXCEPT !.next = @ + n, !.count = @ - n]
     IN  /\ in' = IF in.count > 0 /\ rest.count = 0
                  THEN [rest EXCEPT !.next = 0, !.last = 0] ELSE rest
         /\ given' = [i \in 1 .. n |-> in.buf[in.next + i - 1]]
         /\ reading' = IF n > 0 THEN reading ELSE Append(reading, p)
  /\ UNCHANGED <<out, sending, ier_tx, txd, overrun>>

\* _sys_kill takes a blocked reader off the queue
sys_kill(p) ==
  /\ ~overrun
  /\ Contains(reading, p)
  /\ reading' = RemoveFirst(reading, p)
  /\ given' = <<>>
  /\ UNCHANGED <<in, out, sending, ier_tx, txd, overrun>>

\* the loop of _sio_writes: as much of str as fits, to the tail of the ring
fits(str) == IF out.count < BUF_SIZE THEN Least(Len(str), BUF_SIZE - out.count)
             ELSE 0
filled(str) ==
  [out EXCEPT !.buf = [i \in Offsets |->
                         LET k == ((i - out.last) % BUF_SIZE) + 1
                         IN  IF k <= fits(str) THEN str[k] ELSE @[i]],
              !.last = IF fits(str) = 0 THEN @ ELSE (@ + fits(str)) % BUF_SIZE,
              !.count = @ + fits(str)]

(***************************************************************************)
(* _sys_write and _sio_writes.  While sending, the whole string goes to    *)
(* the ring; otherwise all but its first character, which _sio_writec then *)
(* sends, even when size is 0.  A first LF becomes CR, sent at once, and   *)
(* LF, put at the tail without a wrap.                                     *)
(***************************************************************************)
sys_write(w) ==
  /\ ~overrun
  /\ LET str == SubSeq(w.buf, IF sending THEN 1 ELSE 2, w.size)
         o == filled(str)
         lf == ~sending /\ w.buf[1] = LF
     IN  /\ overrun' = (fits(str) > 0 /\ out.last >= BUF_SIZE)
         /\ out' = IF lf THEN [o EXCEPT !.buf[o.last] = LF, !.last = @ + 1,
                                        !.count = @ + 1]
                   ELSE o
         /\ txd' = IF sending THEN txd ELSE IF lf THEN <<CR>> ELSE <<w.buf[1]>>
         /\ ier_tx' = IF sending THEN ier_tx ELSE TRUE
  /\ sending' = TRUE
  /\ given' = <<>>
  /\ UNCHANGED <<in, reading>>

\* past an overrun
Undefined == overrun /\ UNCHANGED vars

Init ==
  /\ in = Empty /\ out = Empty
  /\ sending = FALSE /\ ier_tx = FALSE
  /\ txd = <<>>
  /\ reading = <<>>
  /\ given = <<>>
  /\ overrun = FALSE

Next ==
  \/ \E ch \in Received : sio_isr_rx(ch)
  \/ uart_sent
  \/ sio_isr_tx
  \/ \E p \in Procs, size \in Sizes : sys_read(p, size)
  \/ \E p \in Procs : sys_kill(p)
  \/ \E w \in Writes : sys_write(w)
  \/ Undefined

\* The UART finishes a character, and a pending interrupt is delivered.
Fairness == WF_vars(uart_sent) /\ WF_vars(sio_isr_tx)

Spec == Init /\ [][Next]_vars /\ Fairness

-----------------------------------------------------------------------------
(* Properties *)

(***************************************************************************)
(* Types of the module's globals.                                          *)
(***************************************************************************)
Buffers == [buf : [Offsets -> 0 .. 255], next : 0 .. BUF_SIZE,
            last : 0 .. BUF_SIZE, count : 0 .. BUF_SIZE]
TypeOK ==
  /\ in \in Buffers /\ out \in Buffers
  /\ {sending, ier_tx, overrun} \subseteq BOOLEAN
  /\ txd = <<>> \/ \E c \in 0 .. 255 : txd = <<c>>
  /\ reading \in Seq(Procs)

(***************************************************************************)
(* Characters left in the output buffer are on their way: the module is    *)
(* sending and will be interrupted.  When it is not sending, the next      *)
(* write finds the transmitter free.                                       *)
(***************************************************************************)
TransmitterArmed ==
  /\ out.count > 0 => sending
  /\ sending <=> ier_tx
  /\ ~sending => txd = <<>>

Unread == [i \in 1 .. in.count |-> in.buf[in.next + i - 1]]
\* a CR in the transmitter is dropped: the module puts one before a LF
Unsent == (IF txd = <<CR>> THEN <<>> ELSE txd)
            \o [i \in 1 .. out.count |-> out.buf[(out.next + i - 1) % BUF_SIZE]]

Line == INSTANCE SerialLine WITH
  Input <- {IF c = CR THEN LF ELSE c : c \in Received},
  Writes <- {SubSeq(w.buf, 1, w.size) : w \in Writes},
  unread <- Unread, unsent <- Unsent, waiting <- reading, handed <- given

(***************************************************************************)
(* Up to the first overrun, the buffers, the blocked readers and what      *)
(* readers get behave as SerialLine says.                                  *)
(***************************************************************************)
BehavesAsLine ==
  Line!Init /\ [][Line!Next \/ UNCHANGED Line!vars \/ overrun']_vars

(***************************************************************************)
(* A full output buffer drains.                                            *)
(***************************************************************************)
FullDrains == out.count = BUF_SIZE ~> (out.count < BUF_SIZE \/ overrun)
=============================================================================
