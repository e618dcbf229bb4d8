------------------------------ MODULE SioProofs ------------------------------
(***************************************************************************)
(* Proofs about Sio: the transmitter is never left with characters and     *)
(* without an interrupt, and up to the first overrun the module is the     *)
(* line of SerialLine.                                                     *)
(***************************************************************************)
EXTENDS Sio, SeqLemmas

-----------------------------------------------------------------------------
(* The transmitter *)

Armed ==
  /\ sending \in BOOLEAN /\ ier_tx \in BOOLEAN
  /\ TransmitterArmed

\* Whatever is written and read.
LEMMA ArmedNext == Armed /\ [Next]_vars => Armed'
<1> SUFFICES ASSUME Armed, [Next]_vars PROVE Armed'
  OBVIOUS
<1> USE DEF Armed, TransmitterArmed
<1>1. CASE UNCHANGED vars
  BY <1>1 DEF vars
<1>2. ASSUME NEW ch \in Received, sio_isr_rx(ch) PROVE Armed'
  BY <1>2 DEF sio_isr_rx
<1>3. CASE uart_sent
  BY <1>3 DEF uart_sent
<1>4. CASE sio_isr_tx
  <2>1. CASE sending /\ out.count > 0
    BY <1>4, <2>1 DEF sio_isr_tx
  <2>2. CASE ~(sending /\ out.count > 0)
    <3>1. out'.count = 0 /\ sending' = FALSE /\ ier_tx' = FALSE /\ txd' = <<>>
      BY <1>4, <2>2 DEF sio_isr_tx, Empty
    <3>2. ~(out'.count > 0)
      BY <3>1
    <3> QED BY <3>1, <3>2, Zenon
  <2> QED BY <2>1, <2>2
<1>5. ASSUME NEW p \in Procs, NEW size \in Sizes, sys_read(p, size) PROVE Armed'
  BY <1>5 DEF sys_read
<1>6. ASSUME NEW p \in Procs, sys_kill(p) PROVE Armed'
  BY <1>6 DEF sys_kill
<1>7. ASSUME NEW w \in Writes, sys_write(w) PROVE Armed'
  <2>1. sending' = TRUE /\ ier_tx' = IF sending THEN ier_tx ELSE TRUE
    BY <1>7, Zenon DEF sys_write
  <2> QED BY <2>1
<1>8. CASE Undefined
  BY <1>8 DEF Undefined, vars
<1> QED
  BY <1>1, <1>2, <1>3, <1>4, <1>5, <1>6, <1>7, <1>8, Zenon DEF Next

(***************************************************************************)
(* Characters left in the output ring are on their way, and an idle module *)
(* finds the transmitter free: _sio_isr and _sio_writes never strand the   *)
(* rest of a string.                                                       *)
(***************************************************************************)
THEOREM TransmitterKeptArmed == Spec => []TransmitterArmed
<1>1. Init => Armed
  <2> SUFFICES ASSUME Init PROVE Armed
    OBVIOUS
  <2>1. out.count = 0 /\ sending = FALSE /\ ier_tx = FALSE /\ txd = <<>>
    BY DEF Init, Empty
  <2>2. ~(out.count > 0)
    BY <2>1
  <2> QED BY <2>1, <2>2, Zenon DEF Armed, TransmitterArmed
<1>2. Armed => TransmitterArmed
  BY DEF Armed
<1> QED
  BY <1>1, <1>2, ArmedNext, PTL DEF Spec

-----------------------------------------------------------------------------
(* The buffers *)

\* The input buffer is read from its front and filled at its end, and is
\* empty while somebody waits.
InBook ==
  /\ in.last = in.next + in.count
  /\ in.count = 0 => in.next = 0
  /\ reading # <<>> => in.count = 0

\* The output ring starts over when everything was sent.  Its tail is behind
\* its last character, or past the array after a LF filled a ring of one.
OutBook ==
  /\ out.next < BUF_SIZE
  /\ ~sending => out.next = 0 /\ out.last = 0 /\ out.count = 0
  /\ \/ overrun
     \/ out.last = (out.next + out.count) % BUF_SIZE
     \/ out.last = BUF_SIZE

IInv == TypeOK /\ Armed /\ InBook /\ OutBook

LEMMA InitIInv == Init => IInv
<1> SUFFICES ASSUME Init PROVE IInv
  OBVIOUS
<1>1. BUF_SIZE \in Nat /\ BUF_SIZE > 0
  BY SioAssumption
<1>2. Empty \in Buffers
  BY <1>1 DEF Empty, Buffers, Offsets
<1>3. TypeOK
  <2>1. reading \in Seq(Procs) /\ in \in Buffers /\ out \in Buffers
    BY <1>2 DEF Init
  <2>2. {sending, ier_tx, overrun} \subseteq BOOLEAN /\ txd = <<>>
    BY Zenon DEF Init
  <2> QED BY <2>1, <2>2, Zenon DEF TypeOK
<1>4. /\ Empty.count = 0 /\ Empty.next = 0 /\ Empty.last = 0
  BY DEF Empty
<1>5. InBook
  BY <1>4 DEF Init, InBook
<1>6. OutBook
  <2>1. (0 + 0) % BUF_SIZE = 0
    BY <1>1
  <2> QED BY <1>1, <1>4, <2>1 DEF Init, OutBook
<1>7. Armed
  <2>1. out.count = 0 /\ sending = FALSE /\ ier_tx = FALSE /\ txd = <<>>
    BY <1>4 DEF Init
  <2>2. ~(out.count > 0)
    BY <2>1
  <2> QED BY <2>1, <2>2, Zenon DEF Armed, TransmitterArmed
<1> QED
  BY <1>3, <1>5, <1>6, <1>7 DEF IInv

\* What the buffers' types say, field by field.
LEMMA Fields ==
  ASSUME TypeOK
  PROVE  /\ BUF_SIZE \in Nat /\ BUF_SIZE > 0
         /\ in = [buf |-> in.buf, next |-> in.next, last |-> in.last,
                  count |-> in.count]
         /\ out = [buf |-> out.buf, next |-> out.next, last |-> out.last,
                   count |-> out.count]
         /\ in.buf \in [Offsets -> 0 .. 255] /\ out.buf \in [Offsets -> 0 .. 255]
         /\ in.next \in 0 .. BUF_SIZE /\ in.last \in 0 .. BUF_SIZE
         /\ in.count \in 0 .. BUF_SIZE
         /\ out.next \in 0 .. BUF_SIZE /\ out.last \in 0 .. BUF_SIZE
         /\ out.count \in 0 .. BUF_SIZE
  BY SioAssumption DEF TypeOK, Buffers

\* _sio_isr buffers a character that nobody waits for.
LEMMA StoreOK ==
  ASSUME TypeOK, InBook, NEW c \in 0 .. 255,
         ~(in.count < BUF_SIZE /\ in.last >= BUF_SIZE)
  PROVE  /\ store(c) \in Buffers
         /\ store(c).last = store(c).next + store(c).count
         /\ store(c).count # 0
         /\ store(c).next = in.next
         /\ store(c).count = IF in.count < BUF_SIZE THEN in.count + 1 ELSE in.count
         /\ store(c).buf = IF in.count < BUF_SIZE THEN [in.buf EXCEPT ![in.last] = c]
                           ELSE in.buf
<1>1. CASE in.count < BUF_SIZE
  <2>1. store(c) = [buf |-> [in.buf EXCEPT ![in.last] = c], next |-> in.next,
                    last |-> in.last + 1, count |-> in.count + 1]
    BY <1>1, Fields DEF store
  <2>2. in.last + 1 \in 0 .. BUF_SIZE /\ in.count + 1 \in 0 .. BUF_SIZE
    BY <1>1, Fields DEF InBook
  <2>3. [in.buf EXCEPT ![in.last] = c] \in [Offsets -> 0 .. 255]
    BY Fields
  <2> DEFINE b == [in.buf EXCEPT ![in.last] = c]
  <2> HIDE DEF b
  <2>4. store(c) = [buf |-> b, next |-> in.next,
                    last |-> in.last + 1, count |-> in.count + 1]
    BY <2>1 DEF b
  <2>5. b \in [Offsets -> 0 .. 255]
    BY <2>3 DEF b
  <2>6. store(c) \in Buffers
    BY <2>4, <2>5, <2>2, Fields DEF Buffers
  <2>7. /\ store(c).buf = b /\ store(c).next = in.next
        /\ store(c).last = in.last + 1 /\ store(c).count = in.count + 1
    BY <2>4
  <2>8. store(c).last = store(c).next + store(c).count /\ store(c).count # 0
    <3>1. /\ in.last = in.next + in.count
          /\ in.next \in Nat /\ in.count \in Nat
      BY Fields DEF InBook
    <3> QED BY <2>7, <3>1
  <2> QED BY <2>6, <2>7, <2>8, <1>1, Zenon DEF b
<1>2. CASE ~(in.count < BUF_SIZE)
  <2>1. store(c) = in /\ in.count # 0
    BY <1>2, Fields DEF store
  <2> QED BY <2>1, <1>2, Fields DEF InBook, TypeOK
<1> QED
  BY <1>1, <1>2

\* What programs see of a received character.
LEMMA Seen ==
  ASSUME NEW ch \in Received
  PROVE  (IF ch = CR THEN LF ELSE ch) \in 0 .. 255
  BY SioAssumption DEF CR, LF

LEMMA RxIInv == ASSUME IInv, NEW ch \in Received, sio_isr_rx(ch) PROVE IInv'
<1> DEFINE c == IF ch = CR THEN LF ELSE ch
<1>1. c \in 0 .. 255
  BY Seen
<1> HIDE DEF c
<1>2. Armed'
  BY ArmedNext, Zenon DEF IInv, Next
<1>3. UNCHANGED <<out, sending, ier_tx, txd>> /\ overrun = FALSE
  BY DEF sio_isr_rx, IInv, TypeOK
<1>4. CASE reading # <<>>
  <2>1. reading' = Tail(reading) /\ in' = in /\ overrun' = overrun
    BY <1>4 DEF sio_isr_rx
  <2>2. reading' \in Seq(Procs)
    BY <2>1, <1>4 DEF IInv, TypeOK
  <2>3. TypeOK'
    BY <1>3, <2>1, <2>2 DEF IInv, TypeOK
  <2>4. InBook'
    BY <2>1, <1>4 DEF IInv, InBook
  <2>5. OutBook'
    BY <1>3, <2>1 DEF IInv, OutBook
  <2> QED BY <1>2, <2>3, <2>4, <2>5 DEF IInv
<1>5. CASE reading = <<>> /\ in.count < BUF_SIZE /\ in.last >= BUF_SIZE
  <2>1. reading' = reading /\ in' = in /\ overrun' = TRUE
    BY <1>5 DEF sio_isr_rx
  <2>3. TypeOK'
    BY <1>3, <2>1 DEF IInv, TypeOK
  <2>4. InBook'
    BY <2>1 DEF IInv, InBook
  <2>5. OutBook'
    BY <1>3, <2>1 DEF IInv, OutBook
  <2> QED BY <1>2, <2>3, <2>4, <2>5 DEF IInv
<1>6. CASE reading = <<>> /\ ~(in.count < BUF_SIZE /\ in.last >= BUF_SIZE)
  <2>1. reading' = reading /\ in' = store(c) /\ overrun' = overrun
    BY <1>6 DEF sio_isr_rx, c
  <2>2. /\ store(c) \in Buffers /\ store(c).last = store(c).next + store(c).count
        /\ store(c).count # 0
    BY <1>1, <1>6, StoreOK DEF IInv
  <2>3. TypeOK'
    BY <1>3, <2>1, <2>2 DEF IInv, TypeOK
  <2>4. InBook'
    BY <2>1, <2>2, <1>6 DEF InBook
  <2>5. OutBook'
    BY <1>3, <2>1 DEF IInv, OutBook
  <2> QED BY <1>2, <2>3, <2>4, <2>5 DEF IInv
<1> QED
  BY <1>4, <1>5, <1>6

LEMMA SentIInv == ASSUME IInv, uart_sent PROVE IInv'
<1>1. Armed'
  BY ArmedNext, Zenon DEF IInv, Next
<1>2. TypeOK'
  BY DEF uart_sent, IInv, TypeOK
<1>3. InBook' /\ OutBook'
  BY DEF uart_sent, IInv, InBook, OutBook
<1> QED
  BY <1>1, <1>2, <1>3 DEF IInv

\* The transmit interrupt takes the next character or resets the ring.
LEMMA TxIInv == ASSUME IInv, sio_isr_tx PROVE IInv'
<1>1. Armed'
  BY ArmedNext, Zenon DEF IInv, Next
<1>2. UNCHANGED <<in, reading, overrun>> /\ ~overrun
  BY DEF sio_isr_tx
<1>3. InBook'
  BY <1>2 DEF IInv, InBook
<1>4. TypeOK /\ OutBook /\ {sending', ier_tx'} \subseteq BOOLEAN
  BY <1>1 DEF IInv, Armed
<1>5. CASE sending /\ out.count > 0
  <2>1. /\ txd' = <<out.buf[out.next]>> /\ sending' = sending
        /\ out' = [out EXCEPT !.next = (@ + 1) % BUF_SIZE, !.count = @ - 1]
    BY <1>5, Zenon DEF sio_isr_tx
  <2>2. /\ out' = [buf |-> out.buf, next |-> (out.next + 1) % BUF_SIZE,
                   last |-> out.last, count |-> out.count - 1]
    BY <2>1, <1>4, Fields
  <2>3. out.next \in Offsets /\ out.buf[out.next] \in 0 .. 255
    <3>1. out.next \in 0 .. BUF_SIZE /\ out.next < BUF_SIZE /\ BUF_SIZE \in Nat
      BY <1>4, Fields DEF OutBook
    <3>2. out.next \in Offsets
      BY <3>1 DEF Offsets
    <3>3. out.buf \in [Offsets -> 0 .. 255]
      BY <1>4, Fields
    <3> QED BY <3>2, <3>3
  <2>4. /\ (out.next + 1) % BUF_SIZE \in 0 .. BUF_SIZE - 1
        /\ out.count - 1 \in 0 .. BUF_SIZE
        /\ (((out.next + 1) % BUF_SIZE) + (out.count - 1)) % BUF_SIZE
             = (out.next + out.count) % BUF_SIZE
    <3>1. /\ BUF_SIZE \in Nat /\ BUF_SIZE > 0 /\ out.next \in 0 .. BUF_SIZE - 1
          /\ out.count \in 1 .. BUF_SIZE
      BY <1>4, <1>5, <2>3, Fields DEF Offsets
    <3> DEFINE n == out.next
               k == out.count
    <3> HIDE DEF n, k
    <3>2. /\ BUF_SIZE \in Nat /\ BUF_SIZE > 0 /\ n \in 0 .. BUF_SIZE - 1
          /\ k \in 1 .. BUF_SIZE
      BY <3>1 DEF n, k
    <3>3. CASE n + 1 < BUF_SIZE
      <4>1. (n + 1) % BUF_SIZE = n + 1
        BY <3>2, <3>3
      <4> QED BY <4>1, <3>2 DEF n, k
    <3>4. CASE n + 1 = BUF_SIZE
      <4>1. (n + 1) % BUF_SIZE = 0
        BY <3>2, <3>4
      <4>2. (n + k) % BUF_SIZE = k - 1 /\ (0 + (k - 1)) % BUF_SIZE = k - 1
        BY <3>2, <3>4
      <4> QED BY <4>1, <4>2, <3>2 DEF n, k
    <3> QED BY <3>2, <3>3, <3>4
  <2> DEFINE m == (out.next + 1) % BUF_SIZE
  <2> HIDE DEF m
  <2>5. out' \in Buffers
    <3>1. out' = [buf |-> out.buf, next |-> m, last |-> out.last,
                  count |-> out.count - 1]
      BY <2>2 DEF m
    <3>2. m \in 0 .. BUF_SIZE /\ out.count - 1 \in 0 .. BUF_SIZE
      BY <2>4, <1>4, Fields DEF m
    <3> QED BY <3>1, <3>2, <1>4, Fields DEF Buffers
  <2>6. TypeOK'
    <3>1. \E ch \in 0 .. 255 : txd' = <<ch>>
      BY <2>1, <2>3
    <3> QED BY <1>2, <1>4, <2>5, <3>1, Zenon DEF TypeOK
  <2>7. OutBook'
    <3>1. /\ out'.next = (out.next + 1) % BUF_SIZE /\ out'.last = out.last
          /\ out'.count = out.count - 1
      BY <2>2
    <3>2. out'.next < BUF_SIZE
      BY <3>1, <2>4, <1>4, Fields
    <3>3. out'.last = (out'.next + out'.count) % BUF_SIZE \/ out'.last = BUF_SIZE
      BY <3>1, <2>4, <1>2, <1>4 DEF OutBook
    <3>4. sending'
      BY <2>1, <1>5
    <3> QED BY <3>2, <3>3, <3>4, Zenon DEF OutBook
  <2> QED BY <1>1, <1>3, <2>6, <2>7 DEF IInv
<1>6. CASE ~(sending /\ out.count > 0)
  <2>1. out' = [Empty EXCEPT !.buf = out.buf] /\ txd' = txd
    BY <1>6, Zenon DEF sio_isr_tx
  <2>2. out' = [buf |-> out.buf, next |-> 0, last |-> 0, count |-> 0]
    BY <2>1 DEF Empty
  <2>3. out' \in Buffers
    BY <2>2, <1>4, Fields DEF Buffers
  <2>4. TypeOK'
    BY <1>2, <1>4, <2>1, <2>3, Zenon DEF TypeOK
  <2>5. OutBook'
    <3>1. (0 + 0) % BUF_SIZE = 0
      BY <1>4, Fields
    <3> QED BY <2>2, <3>1, <1>4, Fields DEF OutBook
  <2> QED BY <1>1, <1>3, <2>4, <2>5 DEF IInv
<1> QED
  BY <1>5, <1>6

\* _sio_reads: what is left of the input buffer.
LEMMA ReadBuffer ==
  ASSUME IInv, NEW p \in Procs, NEW size \in Sizes, sys_read(p, size)
  PROVE  LET n == Least(in.count, size) IN
         /\ n \in 0 .. in.count /\ (n = size \/ n = in.count)
         /\ in' \in Buffers
         /\ in'.buf = in.buf
         /\ in'.count = in.count - n
         /\ in'.last = in'.next + in'.count
         /\ in'.count = 0 => in'.next = 0
         /\ in'.count > 0 => in'.next = in.next + n
<1> DEFINE n == Least(in.count, size)
           rest == [in EXCEPT !.next = @ + n, !.count = @ - n]
<1>1. TypeOK /\ InBook /\ size \in Nat
  BY SioAssumption DEF IInv
<1>2. n \in 0 .. in.count /\ (n = size \/ n = in.count)
  BY <1>1, Fields DEF Least
<1>3. in' = IF in.count > 0 /\ rest.count = 0
            THEN [rest EXCEPT !.next = 0, !.last = 0] ELSE rest
  BY Zenon DEF sys_read
<1> HIDE DEF n
<1>4. rest = [buf |-> in.buf, next |-> in.next + n, last |-> in.last,
              count |-> in.count - n]
  <2> DEFINE a == in.next + n
             b == in.count - n
  <2>1. rest = [in EXCEPT !.next = a, !.count = b]
    BY Zenon
  <2> HIDE DEF a, b, rest
  <2>2. rest = [buf |-> in.buf, next |-> a, last |-> in.last, count |-> b]
    BY <2>1, <1>1, Fields
  <2> QED BY <2>2 DEF a, b
<1>5. CASE in.count > 0 /\ in.count - n = 0
  <2>1. in' = [buf |-> in.buf, next |-> 0, last |-> 0, count |-> 0]
    BY <1>3, <1>4, <1>5
  <2>2. in' \in Buffers
    BY <2>1, <1>1, Fields DEF Buffers
  <2>3. in'.buf = in.buf /\ in'.count = 0 /\ in'.next = 0 /\ in'.last = 0
    BY <2>1
  <2> QED BY <2>2, <2>3, <1>2, <1>5 DEF n
<1>6. CASE ~(in.count > 0 /\ in.count - n = 0)
  <2>1. in' = [buf |-> in.buf, next |-> in.next + n, last |-> in.last,
               count |-> in.count - n]
    BY <1>3, <1>4, <1>6
  <2>2. in.next + n \in 0 .. BUF_SIZE /\ in.count - n \in 0 .. BUF_SIZE
    BY <1>1, <1>2, Fields DEF InBook
  <2>3. in' \in Buffers
    BY <2>1, <2>2, <1>1, Fields DEF Buffers
  <2>4. /\ in'.buf = in.buf /\ in'.count = in.count - n /\ in'.next = in.next + n
        /\ in'.last = in.last
    BY <2>1
  <2>5. /\ in'.last = in'.next + in'.count
        /\ in'.count = 0 => in'.next = 0
    BY <2>4, <1>1, <1>2, <1>6, Fields DEF InBook
  <2> QED BY <2>3, <2>4, <2>5, <1>2 DEF n
<1> QED
  BY <1>5, <1>6

LEMMA ReadIInv ==
  ASSUME PlainCalls, IInv, NEW p \in Procs, NEW size \in Sizes, sys_read(p, size)
  PROVE  IInv'
<1> DEFINE n == Least(in.count, size)
<1>1. /\ n \in 0 .. in.count /\ (n = size \/ n = in.count)
      /\ in' \in Buffers /\ in'.count = in.count - n
      /\ in'.last = in'.next + in'.count /\ (in'.count = 0 => in'.next = 0)
  BY ReadBuffer
<1>2. /\ reading' = IF n > 0 THEN reading ELSE Append(reading, p)
      /\ UNCHANGED <<out, sending, ier_tx, txd, overrun>>
  BY Zenon DEF sys_read
<1> HIDE DEF n
<1>3. Armed'
  BY ArmedNext, Zenon DEF IInv, Next
<1>4. size \in Nat \ {0} /\ in.count \in Nat
  BY SioAssumption, Fields DEF PlainCalls, IInv
<1>5. InBook'
  <2>1. reading # <<>> => in.count = 0
    BY DEF IInv, InBook
  <2>2. reading' # <<>> => in'.count = 0
    <3>1. CASE n > 0
      BY <3>1, <2>1, <1>1, <1>2, <1>4
    <3>2. CASE n = 0
      BY <3>2, <1>1, <1>4
    <3> QED BY <3>1, <3>2, <1>1, <1>4
  <2> QED BY <2>2, <1>1 DEF InBook
<1>6. TypeOK'
  <2>1. reading' \in Seq(Procs)
    BY <1>2 DEF IInv, TypeOK
  <2> QED BY <2>1, <1>1, <1>2 DEF IInv, TypeOK
<1>7. OutBook'
  BY <1>2 DEF IInv, OutBook
<1> QED
  BY <1>3, <1>5, <1>6, <1>7 DEF IInv

LEMMA KillIInv == ASSUME IInv, NEW p \in Procs, sys_kill(p) PROVE IInv'
<1>1. Armed'
  BY ArmedNext, Zenon DEF IInv, Next
<1>2. /\ reading' = RemoveFirst(reading, p) /\ Contains(reading, p)
      /\ UNCHANGED <<in, out, sending, ier_tx, txd, overrun>>
  BY DEF sys_kill
<1>3. reading \in Seq(Procs)
  BY DEF IInv, TypeOK
<1>4. PICK k \in 1 .. Len(reading) :
        reading[k] = p /\ \A j \in 1 .. k - 1 : reading[j] # p
  BY <1>2, <1>3, FirstPlace
<1>5. reading' = RemoveAt(reading, k)
  BY <1>2, <1>3, <1>4, RemoveFirstIsRemoveAt
<1>6. reading' \in Seq(Procs) /\ reading # <<>>
  BY <1>3, <1>5, RemoveAtEntries
<1>7. TypeOK'
  BY <1>2, <1>6 DEF IInv, TypeOK
<1>8. InBook' /\ OutBook'
  BY <1>2, <1>6 DEF IInv, InBook, OutBook
<1> QED
  BY <1>1, <1>7, <1>8 DEF IInv

\* The ring after _sio_writes: the first n characters of str behind the tail.
LEMMA FillOK ==
  ASSUME TypeOK, NEW str \in Seq(0 .. 255)
  PROVE  /\ fits(str) \in 0 .. Len(str) /\ fits(str) <= BUF_SIZE - out.count
         /\ fits(str) = Len(str) \/ fits(str) = BUF_SIZE - out.count
         /\ filled(str) \in Buffers
         /\ filled(str).next = out.next
         /\ filled(str).count = out.count + fits(str)
         /\ filled(str).last = IF fits(str) = 0 THEN out.last
                               ELSE (out.last + fits(str)) % BUF_SIZE
         /\ filled(str).buf =
              [i \in Offsets |->
                 IF ((i - out.last) % BUF_SIZE) + 1 <= fits(str)
                 THEN str[((i - out.last) % BUF_SIZE) + 1] ELSE out.buf[i]]
<1>1. /\ fits(str) \in 0 .. Len(str) /\ fits(str) <= BUF_SIZE - out.count
      /\ fits(str) = Len(str) \/ fits(str) = BUF_SIZE - out.count
  BY Fields DEF fits, Least
<1> DEFINE n == fits(str)
           b == [i \in Offsets |->
                   IF ((i - out.last) % BUF_SIZE) + 1 <= n
                   THEN str[((i - out.last) % BUF_SIZE) + 1] ELSE out.buf[i]]
           l == IF n = 0 THEN out.last ELSE (out.last + n) % BUF_SIZE
           c == out.count + n
<1>2. filled(str) = [out EXCEPT !.buf = b, !.last = l, !.count = c]
  BY Zenon DEF filled
<1>3. n \in Nat
  BY <1>1
<1>4. b \in [Offsets -> 0 .. 255]
  <2> HIDE DEF n
  <2> SUFFICES ASSUME NEW i \in Offsets
               PROVE  b[i] \in 0 .. 255
    BY Zenon
  <2>1. ((i - out.last) % BUF_SIZE) + 1 \in Nat \ {0}
    BY Fields DEF Offsets
  <2>2. out.buf[i] \in 0 .. 255
    BY Fields
  <2>3. ((i - out.last) % BUF_SIZE) + 1 <= n
          => str[((i - out.last) % BUF_SIZE) + 1] \in 0 .. 255
    <3> DEFINE k == ((i - out.last) % BUF_SIZE) + 1
    <3> HIDE DEF k
    <3>1. k \in Nat \ {0} /\ n \in 0 .. Len(str)
      BY <2>1, <1>1 DEF n, k
    <3>2. k <= n => k \in 1 .. Len(str)
      BY <3>1
    <3>3. k <= n => str[k] \in 0 .. 255
      BY <3>2, ElementOfSeq, Zenon
    <3> QED BY <3>3 DEF k
  <2> QED BY <2>2, <2>3
<1>5. l \in 0 .. BUF_SIZE /\ c \in 0 .. BUF_SIZE
  BY <1>1, Fields
<1> HIDE DEF n, b, l, c
<1>6. filled(str) = [buf |-> b, next |-> out.next, last |-> l, count |-> c]
  BY <1>2, Fields
<1>7. filled(str) \in Buffers
  BY <1>4, <1>5, <1>6, Fields DEF Buffers
<1>8. /\ filled(str).buf = b /\ filled(str).next = out.next
      /\ filled(str).last = l /\ filled(str).count = c
  BY <1>6
<1> QED
  BY <1>1, <1>7, <1>8 DEF n, b, l, c

\* What of a string _sio_writes puts into the ring.
Stored(w) == SubSeq(w.buf, IF sending THEN 1 ELSE 2, w.size)

LEMMA StoredOK ==
  ASSUME PlainCalls, NEW w \in Writes, sending \in BOOLEAN
  PROVE  /\ w.buf \in Seq(0 .. 255) /\ Len(w.buf) \in Nat
         /\ w.size \in 1 .. Len(w.buf)
         /\ Stored(w) \in Seq(0 .. 255)
         /\ sending => /\ Len(Stored(w)) = w.size
                       /\ \A i \in 1 .. w.size : Stored(w)[i] = w.buf[i]
         /\ ~sending => /\ Len(Stored(w)) = w.size - 1
                        /\ \A i \in 1 .. w.size - 1 : Stored(w)[i] = w.buf[i + 1]
<1>1. /\ w.buf \in Seq(0 .. 255) /\ Len(w.buf) \in Nat
      /\ w.size \in 1 .. Len(w.buf)
  BY SioAssumption DEF PlainCalls
<1> DEFINE b == w.buf
           n == w.size
<1> HIDE DEF b, n
<1>2. b \in Seq(0 .. 255) /\ n \in 1 .. Len(b) /\ Len(b) \in Nat
  BY <1>1 DEF b, n
<1>3. CASE sending
  <2>1. Stored(w) = SubSeq(b, 1, n)
    BY <1>3 DEF Stored, b, n
  <2>2. /\ SubSeq(b, 1, n) \in Seq(0 .. 255) /\ Len(SubSeq(b, 1, n)) = n
        /\ \A i \in 1 .. n : SubSeq(b, 1, n)[i] = b[i]
    <3>1. /\ SubSeq(b, 1, n) \in Seq(0 .. 255) /\ Len(SubSeq(b, 1, n)) = n - 1 + 1
          /\ \A i \in 1 .. n - 1 + 1 : SubSeq(b, 1, n)[i] = b[1 + i - 1]
      <4>1. 1 \in 1 .. Len(b) + 1 /\ n \in 1 - 1 .. Len(b) /\ 1 <= n + 1
        BY <1>2
      <4> QED BY <1>2, <4>1, Piece, ZenonT(40)
    <3>2. n - 1 + 1 = n /\ \A i \in 1 .. n : 1 + i - 1 = i
      BY <1>2
    <3> QED BY <3>1, <3>2
  <2> QED BY <1>1, <1>3, <2>1, <2>2 DEF b, n
<1>4. CASE ~sending
  <2>1. Stored(w) = SubSeq(b, 2, n)
    BY <1>4 DEF Stored, b, n
  <2>2. /\ SubSeq(b, 2, n) \in Seq(0 .. 255) /\ Len(SubSeq(b, 2, n)) = n - 1
        /\ \A i \in 1 .. n - 1 : SubSeq(b, 2, n)[i] = b[i + 1]
    <3>1. /\ SubSeq(b, 2, n) \in Seq(0 .. 255) /\ Len(SubSeq(b, 2, n)) = n - 2 + 1
          /\ \A i \in 1 .. n - 2 + 1 : SubSeq(b, 2, n)[i] = b[2 + i - 1]
      <4>1. 2 \in 1 .. Len(b) + 1 /\ n \in 2 - 1 .. Len(b)
        BY <1>2
      <4> QED BY <1>2, <4>1, Piece, ZenonT(40)
    <3>2. n - 2 + 1 = n - 1 /\ \A i \in 1 .. n - 1 : 2 + i - 1 = i + 1
      BY <1>2
    <3> QED BY <3>1, <3>2
  <2> QED BY <1>1, <1>4, <2>1, <2>2 DEF b, n
<1> QED BY <1>3, <1>4

\* What the ring is after a write: filled, or with the LF behind a lone CR.
LEMMA WriteOut ==
  ASSUME PlainCalls, IInv, NEW w \in Writes, sys_write(w)
  PROVE  /\ overrun' = (fits(Stored(w)) > 0 /\ out.last >= BUF_SIZE)
         /\ sending \/ w.buf[1] # LF =>
              /\ out' = filled(Stored(w))
              /\ txd' = IF sending THEN txd ELSE <<w.buf[1]>>
         /\ ~sending /\ w.buf[1] = LF =>
              /\ w.size = 1
              /\ fits(Stored(w)) = 0
              /\ out' = [buf |-> [out.buf EXCEPT ![0] = LF], next |-> 0,
                         last |-> 1, count |-> 1]
              /\ txd' = <<CR>>
         /\ sending' = TRUE /\ given' = <<>> /\ UNCHANGED <<in, reading>>
<1> DEFINE str == Stored(w)
           o == filled(str)
<1>1. /\ overrun' = (fits(str) > 0 /\ out.last >= BUF_SIZE)
      /\ sending' = TRUE /\ given' = <<>> /\ UNCHANGED <<in, reading>>
  BY Zenon DEF sys_write, Stored
<1>2. sending \/ w.buf[1] # LF =>
              /\ out' = filled(str)
              /\ txd' = IF sending THEN txd ELSE <<w.buf[1]>>
  BY Zenon DEF sys_write, Stored
<1>3. ASSUME ~sending, w.buf[1] = LF
      PROVE  /\ out' = [o EXCEPT !.buf[o.last] = LF, !.last = @ + 1, !.count = @ + 1]
             /\ txd' = <<CR>>
  BY <1>3, Zenon DEF sys_write, Stored
<1>4. TypeOK /\ sending \in BOOLEAN
  BY DEF IInv, Armed
<1>5. ASSUME ~sending, w.buf[1] = LF
      PROVE  /\ w.size = 1 /\ fits(str) = 0
             /\ out' = [buf |-> [out.buf EXCEPT ![0] = LF], next |-> 0,
                        last |-> 1, count |-> 1]
  <2>1. w.size = 1 /\ Len(str) = 0 /\ str \in Seq(0 .. 255)
    <3>1. w.size = 1
      BY <1>5 DEF PlainCalls
    <3>2. Len(str) = w.size - 1 /\ str \in Seq(0 .. 255)
      BY <1>4, <1>5, StoredOK
    <3> QED BY <3>1, <3>2
  <2>2. /\ fits(str) = 0 /\ o.next = out.next /\ o.count = out.count + fits(str)
        /\ o.last = (IF fits(str) = 0 THEN out.last
                     ELSE (out.last + fits(str)) % BUF_SIZE)
        /\ o.buf = [i \in Offsets |->
                     IF ((i - out.last) % BUF_SIZE) + 1 <= fits(str)
                     THEN str[((i - out.last) % BUF_SIZE) + 1] ELSE out.buf[i]]
        /\ o \in Buffers
    <3> HIDE DEF str
    <3>1. fits(str) \in 0 .. Len(str)
      BY <2>1, <1>4, FillOK
    <3>2. fits(str) = 0
      BY <2>1, <3>1
    <3> QED BY <2>1, <1>4, <3>2, FillOK
  <2>3. out.next = 0 /\ out.last = 0 /\ out.count = 0
    BY <1>5 DEF IInv, OutBook
  <2>4. o.buf = out.buf
    <3>1. out.buf \in [Offsets -> 0 .. 255] /\ BUF_SIZE \in Nat /\ BUF_SIZE > 0
      BY <1>4, Fields
    <3>2. \A i \in Offsets : ~(((i - out.last) % BUF_SIZE) + 1 <= 0)
      BY <3>1, <2>3 DEF Offsets
    <3>3. o.buf = [i \in Offsets |-> out.buf[i]]
      BY <2>2, <3>2
    <3> HIDE DEF o
    <3> QED BY <3>1, <3>3
  <2> HIDE DEF o, str
  <2>5. o.next = 0 /\ o.last = 0 /\ o.count = 0
    BY <2>2, <2>3
  <2>6. o = [buf |-> out.buf, next |-> 0, last |-> 0, count |-> 0]
    BY <2>2, <2>4, <2>5 DEF Buffers
  <2>7. out' = [buf |-> [out.buf EXCEPT ![0] = LF], next |-> 0,
                last |-> 1, count |-> 1]
    <3>1. out' = [o EXCEPT !.buf[0] = LF, !.last = 0 + 1, !.count = 0 + 1]
      BY <1>3, <1>5, <2>5, Zenon
    <3>2. [o EXCEPT !.buf[0] = LF] = [buf |-> [out.buf EXCEPT ![0] = LF], next |-> 0,
                                      last |-> 0, count |-> 0]
      BY <2>6
    <3> DEFINE b == [out.buf EXCEPT ![0] = LF]
    <3> HIDE DEF b
    <3>3. [o EXCEPT !.buf[0] = LF] = [buf |-> b, next |-> 0, last |-> 0, count |-> 0]
      BY <3>2 DEF b
    <3>4. out' = [[o EXCEPT !.buf[0] = LF] EXCEPT !.last = 1, !.count = 1]
      BY <3>1
    <3> QED BY <3>3, <3>4 DEF b
  <2> QED BY <2>1, <2>2, <2>7
<1> QED
  BY <1>1, <1>2, <1>3, <1>5, Zenon

LEMMA WriteIInv ==
  ASSUME PlainCalls, IInv, NEW w \in Writes, sys_write(w)
  PROVE  IInv'
<1>1. Armed'
  BY ArmedNext, Zenon DEF IInv, Next
<1> DEFINE str == Stored(w)
<1>2. TypeOK /\ sending \in BOOLEAN
  BY DEF IInv, Armed
<1>3. str \in Seq(0 .. 255) /\ w.size \in 1 .. Len(w.buf) /\ w.buf[1] \in 0 .. 255
  <2>1. /\ str \in Seq(0 .. 255) /\ w.size \in 1 .. Len(w.buf)
        /\ w.buf \in Seq(0 .. 255) /\ Len(w.buf) \in Nat
    BY <1>2, StoredOK
  <2>2. 1 \in 1 .. Len(w.buf)
    BY <2>1
  <2> QED BY <2>1, <2>2, ElementOfSeq, Zenon
<1> HIDE DEF str
<1>4. /\ overrun' = (fits(str) > 0 /\ out.last >= BUF_SIZE)
      /\ sending \/ w.buf[1] # LF =>
              /\ out' = filled(str)
              /\ txd' = IF sending THEN txd ELSE <<w.buf[1]>>
      /\ ~sending /\ w.buf[1] = LF =>
              /\ fits(str) = 0
              /\ out' = [buf |-> [out.buf EXCEPT ![0] = LF], next |-> 0,
                         last |-> 1, count |-> 1]
              /\ txd' = <<CR>>
      /\ sending' = TRUE /\ UNCHANGED <<in, reading>>
  BY WriteOut, Zenon DEF str
<1>5. InBook'
  BY <1>4 DEF IInv, InBook
<1>6. overrun' \in BOOLEAN /\ {sending', ier_tx'} \subseteq BOOLEAN
  BY <1>1, <1>4, Zenon DEF Armed
<1>7. CASE sending \/ w.buf[1] # LF
  <2>1. /\ out' \in Buffers /\ out'.next = out.next
        /\ out'.count = out.count + fits(str) /\ fits(str) \in Nat
        /\ out'.last = IF fits(str) = 0 THEN out.last
                       ELSE (out.last + fits(str)) % BUF_SIZE
    <3>1. out' = filled(str)
      BY <1>4, <1>7
    <3>2. /\ filled(str) \in Buffers /\ filled(str).next = out.next
          /\ filled(str).count = out.count + fits(str) /\ fits(str) \in 0 .. Len(str)
          /\ filled(str).last = IF fits(str) = 0 THEN out.last
                                ELSE (out.last + fits(str)) % BUF_SIZE
      BY <1>2, <1>3, FillOK, Zenon
    <3>3. fits(str) \in Nat
      BY <3>2
    <3> QED BY <3>1, <3>2, <3>3, Zenon
  <2>2. txd' = <<>> \/ \E c \in 0 .. 255 : txd' = <<c>>
    <3>1. CASE sending
      BY <3>1, <1>2, <1>4 DEF TypeOK
    <3>2. CASE ~sending
      BY <3>2, <1>3, <1>4, <1>7
    <3> QED BY <3>1, <3>2
  <2>3. TypeOK'
    BY <1>2, <1>4, <1>6, <2>1, <2>2, Zenon DEF TypeOK
  <2>4. OutBook'
    <3>1. out'.next < BUF_SIZE
      BY <2>1 DEF IInv, OutBook
    <3>2. \/ overrun'
          \/ out'.last = (out'.next + out'.count) % BUF_SIZE
          \/ out'.last = BUF_SIZE
      <4>1. ~overrun
        BY DEF sys_write
      <4>2. \/ out.last = (out.next + out.count) % BUF_SIZE
            \/ out.last = BUF_SIZE
        BY <4>1 DEF IInv, OutBook
      <4>3. CASE fits(str) = 0
        BY <4>2, <4>3, <2>1, <1>2, Fields
      <4>4. CASE fits(str) > 0 /\ out.last = BUF_SIZE
        <5>1. fits(str) > 0 /\ out.last >= BUF_SIZE
          BY <4>4, <1>2, Fields
        <5> QED BY <5>1, <1>4, Zenon
      <4>5. CASE fits(str) > 0 /\ out.last = (out.next + out.count) % BUF_SIZE
        <5> DEFINE n == out.next
                   k == out.count
                   m == fits(str)
        <5> HIDE DEF n, k, m
        <5>1. /\ n \in 0 .. BUF_SIZE - 1 /\ k \in 0 .. BUF_SIZE /\ m \in Nat
              /\ m \in 1 .. BUF_SIZE - k /\ BUF_SIZE \in Nat /\ BUF_SIZE > 0
          <6>1. n \in 0 .. BUF_SIZE /\ n < BUF_SIZE
            BY <1>2, Fields DEF IInv, OutBook, n
          <6>2. m <= BUF_SIZE - k
            BY <1>2, <1>3, FillOK DEF m, k
          <6>3. m \in Nat /\ m > 0 /\ k \in 0 .. BUF_SIZE /\ BUF_SIZE \in Nat
            BY <1>2, <2>1, <4>5, Fields DEF m, k
          <6> QED BY <6>1, <6>2, <6>3
        <5>2. (((n + k) % BUF_SIZE) + m) % BUF_SIZE = (n + (k + m)) % BUF_SIZE
          <6>1. CASE n + k < BUF_SIZE
            <7>1. (n + k) % BUF_SIZE = n + k
              BY <5>1, <6>1
            <7>2. (n + k) + m = n + (k + m)
              BY <5>1
            <7> QED BY <7>1, <7>2
          <6>2. CASE n + k >= BUF_SIZE
            <7>1. (n + k) % BUF_SIZE = n + k - BUF_SIZE
              BY <5>1, <6>2
            <7>2. /\ (n + k - BUF_SIZE) + m \in 0 .. BUF_SIZE - 1
              BY <5>1, <6>2
            <7>3. ((n + k - BUF_SIZE) + m) % BUF_SIZE = (n + k - BUF_SIZE) + m
              BY <5>1, <7>2
            <7>4. (n + (k + m)) % BUF_SIZE = (n + k - BUF_SIZE) + m
              BY <5>1, <6>2, <7>2
            <7> QED BY <7>1, <7>3, <7>4
          <6> QED BY <5>1, <6>1, <6>2
        <5>3. /\ out'.last = (((n + k) % BUF_SIZE) + m) % BUF_SIZE
              /\ out'.next + out'.count = n + (k + m)
          BY <2>1, <4>5 DEF n, k, m
        <5> QED BY <5>2, <5>3
      <4> QED BY <4>2, <4>3, <4>4, <4>5, <2>1
    <3>3. sending'
      BY <1>4
    <3> QED BY <3>1, <3>2, <3>3, Zenon DEF OutBook
  <2> QED BY <1>1, <1>5, <2>3, <2>4 DEF IInv
<1>8. CASE ~sending /\ w.buf[1] = LF
  <2> DEFINE b == [out.buf EXCEPT ![0] = LF]
  <2>1. b \in [Offsets -> 0 .. 255]
    <3>1. LF \in 0 .. 255 /\ out.buf \in [Offsets -> 0 .. 255]
      BY <1>2, Fields DEF LF
    <3> QED BY <3>1
  <2> HIDE DEF b
  <2>2. out' = [buf |-> b, next |-> 0, last |-> 1, count |-> 1] /\ txd' = <<CR>>
    BY <1>4, <1>8 DEF b
  <2>3. BUF_SIZE \in Nat /\ BUF_SIZE > 0
    BY <1>2, Fields
  <2>4. out' \in Buffers
    BY <2>1, <2>2, <2>3 DEF Buffers
  <2>5. TypeOK'
    <3>1. \E c \in 0 .. 255 : txd' = <<c>>
      BY <2>2 DEF CR
    <3> QED BY <1>2, <1>4, <1>6, <2>4, <3>1, Zenon DEF TypeOK
  <2>6. OutBook'
    <3>1. BUF_SIZE = 1 \/ (0 + 1) % BUF_SIZE = 1
      BY <2>3
    <3>2. out'.next = 0 /\ out'.last = 1 /\ out'.count = 1
      BY <2>2
    <3>3. /\ out'.next < BUF_SIZE
          /\ out'.last = (out'.next + out'.count) % BUF_SIZE \/ out'.last = BUF_SIZE
      BY <3>1, <3>2, <2>3
    <3> QED BY <3>3, <1>4, Zenon DEF OutBook
  <2> QED BY <1>1, <1>5, <2>5, <2>6 DEF IInv
<1> QED
  BY <1>7, <1>8

\* The inductive invariant.
LEMMA NextIInv == PlainCalls /\ IInv /\ [Next]_vars => IInv'
<1> SUFFICES ASSUME PlainCalls, IInv, [Next]_vars PROVE IInv'
  OBVIOUS
<1>1. CASE UNCHANGED vars
  BY <1>1 DEF vars, IInv, TypeOK, Armed, TransmitterArmed, InBook, OutBook
<1>2. CASE Undefined
  BY <1>2 DEF Undefined, vars, IInv, TypeOK, Armed, TransmitterArmed, InBook, OutBook
<1> QED
  BY <1>1, <1>2, RxIInv, SentIInv, TxIInv, ReadIInv, KillIInv, WriteIInv, Zenon
  DEF Next

-----------------------------------------------------------------------------
(* What the buffers hold *)

Chars == 0 .. 255

\* The characters of an input buffer, and of an output ring, first to last.
Linear(b) == [i \in 1 .. b.count |-> b.buf[b.next + i - 1]]
Cyclic(b) == [i \in 1 .. b.count |-> b.buf[(b.next + i - 1) % BUF_SIZE]]
\* What the transmitter still owes the line.
Held(t) == IF t = <<CR>> THEN <<>> ELSE t

LEMMA LinearOK ==
  ASSUME NEW b \in Buffers, b.next + b.count <= BUF_SIZE
  PROVE  /\ Linear(b) \in Seq(Chars) /\ Len(Linear(b)) = b.count
         /\ \A i \in 1 .. b.count : Linear(b)[i] = b.buf[b.next + i - 1]
<1>1. /\ b.count \in Nat /\ b.next \in Nat /\ b.buf \in [Offsets -> Chars]
      /\ BUF_SIZE \in Nat
  BY SioAssumption DEF Buffers, Chars
<1>2. \A i \in 1 .. b.count : b.next + i - 1 \in Offsets
  BY <1>1 DEF Offsets
<1>3. \A i \in 1 .. b.count : b.buf[b.next + i - 1] \in Chars
  BY <1>1, <1>2
<1>4. Linear(b) \in [1 .. b.count -> Chars]
  BY <1>3 DEF Linear
<1> QED
  BY <1>1, <1>4, FcnIsSeq DEF Linear

LEMMA CyclicOK ==
  ASSUME NEW b \in Buffers
  PROVE  /\ Cyclic(b) \in Seq(Chars) /\ Len(Cyclic(b)) = b.count
         /\ \A i \in 1 .. b.count :
              Cyclic(b)[i] = b.buf[(b.next + i - 1) % BUF_SIZE]
<1>1. /\ b.count \in Nat /\ b.next \in Nat /\ b.buf \in [Offsets -> Chars]
      /\ BUF_SIZE \in Nat \ {0}
  BY SioAssumption DEF Buffers, Chars
<1>2. \A i \in 1 .. b.count : (b.next + i - 1) % BUF_SIZE \in Offsets
  BY <1>1 DEF Offsets
<1>3. \A i \in 1 .. b.count : b.buf[(b.next + i - 1) % BUF_SIZE] \in Chars
  BY <1>1, <1>2
<1>4. Cyclic(b) \in [1 .. b.count -> Chars]
  BY <1>3 DEF Cyclic
<1> QED
  BY <1>1, <1>4, FcnIsSeq DEF Cyclic

LEMMA HeldOK ==
  ASSUME TypeOK
  PROVE  Held(txd) \in Seq(Chars)
<1>1. <<>> \in Seq(Chars) /\ \A c \in Chars : <<c>> \in Seq(Chars)
  OBVIOUS
<1> QED
  BY <1>1, Zenon DEF TypeOK, Held, Chars

\* The refinement mapping in these terms.
LEMMA Mapping ==
  /\ Unread = Linear(in) /\ Unread' = Linear(in')
  /\ Unsent = Held(txd) \o Cyclic(out) /\ Unsent' = Held(txd') \o Cyclic(out')
  BY Zenon DEF Unread, Unsent, Linear, Cyclic, Held

-----------------------------------------------------------------------------
(* The refinement, action by action *)

LineStep == Line!Next \/ UNCHANGED Line!vars \/ overrun'

LEMMA RxStep ==
  ASSUME IInv, NEW ch \in Received, sio_isr_rx(ch)
  PROVE  LineStep
<1> DEFINE c == IF ch = CR THEN LF ELSE ch
<1>1. c \in Chars /\ c \in {IF x = CR THEN LF ELSE x : x \in Received}
  BY Seen DEF Chars
<1> HIDE DEF c
<1>2. out' = out /\ txd' = txd /\ Unsent' = Unsent
  BY Mapping DEF sio_isr_rx
<1>3. SUFFICES ASSUME ~overrun' PROVE Line!Receive(c)
  BY <1>1, Zenon DEF LineStep, Line!Next
<1>4. CASE reading # <<>>
  <2>1. reading' = Tail(reading) /\ in' = in /\ given' = <<c>>
    BY <1>4 DEF sio_isr_rx, c
  <2>2. Unread' = Unread
    BY <2>1, Mapping
  <2> QED BY <1>2, <1>4, <2>1, <2>2 DEF Line!Receive
<1>5. CASE reading = <<>>
  <2>1. /\ ~(in.count < BUF_SIZE /\ in.last >= BUF_SIZE)
        /\ in' = store(c) /\ given' = <<>> /\ reading' = reading
    BY <1>3, <1>5 DEF sio_isr_rx, c
  <2>2. TypeOK /\ InBook
    BY DEF IInv
  <2>3. /\ in' \in Buffers /\ in'.last = in'.next + in'.count
        /\ in'.next = in.next
        /\ in'.count = IF in.count < BUF_SIZE THEN in.count + 1 ELSE in.count
        /\ in'.buf = IF in.count < BUF_SIZE THEN [in.buf EXCEPT ![in.last] = c]
                     ELSE in.buf
    BY <2>1, <2>2, <1>1, StoreOK DEF Chars
  <2>4. /\ in \in Buffers /\ in.next \in Nat /\ in.count \in Nat /\ BUF_SIZE \in Nat
        /\ in.last = in.next + in.count /\ in.last <= BUF_SIZE
        /\ in.buf \in [Offsets -> Chars]
    BY <2>2, Fields DEF InBook, TypeOK, Chars
  <2>5. /\ Unread \in Seq(Chars) /\ Len(Unread) = in.count
        /\ \A i \in 1 .. in.count : Unread[i] = in.buf[in.next + i - 1]
    BY <2>4, LinearOK, Mapping
  <2>6. CASE in.count < BUF_SIZE
    <3>1. in'.next + in'.count <= BUF_SIZE
      BY <2>1, <2>3, <2>4, <2>6
    <3>2. /\ Unread' \in Seq(Chars) /\ Len(Unread') = in.count + 1
          /\ \A i \in 1 .. in.count + 1 : Unread'[i] = in'.buf[in.next + i - 1]
      <4> DEFINE b == in'
      <4>1. b \in Buffers /\ b.next + b.count <= BUF_SIZE
        BY <2>3, <3>1
      <4>2. b.next = in.next /\ b.count = in.count + 1 /\ Unread' = Linear(b)
        BY <2>3, <2>6, Mapping
      <4> HIDE DEF b
      <4>3. /\ Linear(b) \in Seq(Chars) /\ Len(Linear(b)) = b.count
            /\ \A i \in 1 .. b.count : Linear(b)[i] = b.buf[b.next + i - 1]
        BY <4>1, LinearOK
      <4> QED BY <4>2, <4>3 DEF b
    <3>3. in'.buf = [in.buf EXCEPT ![in.last] = c]
      BY <2>3, <2>6
    <3>4. /\ Append(Unread, c) \in Seq(Chars)
          /\ Len(Append(Unread, c)) = in.count + 1
          /\ \A i \in 1 .. in.count : Append(Unread, c)[i] = Unread[i]
          /\ Append(Unread, c)[in.count + 1] = c
      BY <1>1, <2>5, AppendProperties
    <3>5. ASSUME NEW i \in 1 .. in.count + 1
          PROVE  Unread'[i] = Append(Unread, c)[i]
      <4>1. in.last \in Offsets
        BY <2>1, <2>4, <2>6 DEF Offsets
      <4>2. CASE i = in.count + 1
        <5>1. in.next + i - 1 = in.last
          BY <4>2, <2>4
        <5>2. in'.buf[in.last] = c
          BY <3>3, <4>1, <2>4
        <5> QED BY <5>1, <5>2, <3>2, <3>4, <4>2
      <4>3. CASE i \in 1 .. in.count
        <5>1. in.next + i - 1 # in.last /\ in.next + i - 1 \in Offsets
          BY <4>3, <2>1, <2>4, <2>6 DEF Offsets
        <5>2. in'.buf[in.next + i - 1] = in.buf[in.next + i - 1]
          BY <3>3, <5>1, <2>4
        <5> QED BY <5>2, <3>2, <3>4, <2>5, <4>3
      <4>4. i = in.count + 1 \/ i \in 1 .. in.count
        BY <2>4
      <4> QED BY <4>2, <4>3, <4>4
    <3>6. Unread' = Append(Unread, c)
      <4> DEFINE u == Unread'
                 v == Append(Unread, c)
      <4>1. /\ u \in Seq(Chars) /\ v \in Seq(Chars) /\ Len(u) = Len(v)
            /\ \A i \in 1 .. Len(u) : u[i] = v[i]
        BY <3>2, <3>4, <3>5
      <4> HIDE DEF u, v
      <4>2. u = v
        BY <4>1, SeqEqual
      <4> QED BY <4>2 DEF u, v
    <3> QED BY <3>6, <2>1, <2>5, <2>6, <1>2, <1>5 DEF Line!Receive
  <2>7. CASE ~(in.count < BUF_SIZE)
    <3>1. in' = in
      BY <2>1, <2>7 DEF store
    <3>2. Unread' = Unread
      BY <3>1, Mapping
    <3> QED BY <3>2, <2>1, <2>5, <2>7, <1>2, <1>5 DEF Line!Receive
  <2> QED BY <2>6, <2>7
<1> QED
  BY <1>4, <1>5

LEMMA SentStep ==
  ASSUME IInv, uart_sent
  PROVE  LineStep
<1>1. /\ UNCHANGED <<in, out, reading>> /\ txd' = <<>> /\ given' = <<>> /\ txd # <<>>
  BY DEF uart_sent
<1>2. TypeOK /\ out \in Buffers
  BY DEF IInv, TypeOK
<1> DEFINE R == Cyclic(out)
<1>3. R \in Seq(Chars)
  BY <1>2, CyclicOK
<1>4. Unread' = Unread /\ Cyclic(out') = R
  BY <1>1, Mapping
<1> HIDE DEF R
<1>5. Held(<<>>) = <<>>
  BY DEF Held
<1>6. Unsent' = R
  BY <1>1, <1>3, <1>4, <1>5, Mapping, ConcatEmptySeq
<1>7. CASE txd = <<CR>>
  <2>1. Unsent = R
    BY <1>7, <1>3, Mapping, ConcatEmptySeq DEF Held, R
  <2>2. Line!Other
    BY <2>1, <1>6, <1>4, <1>1 DEF Line!Other
  <2> QED BY <2>2 DEF LineStep, Line!Next
<1>8. CASE txd # <<CR>>
  <2>1. PICK x \in Chars : txd = <<x>>
    BY <1>1, <1>2 DEF TypeOK, Chars
  <2>2. Unsent = <<x>> \o R
    BY <1>8, <2>1, Mapping DEF Held, R
  <2>3. <<x>> \o R # <<>> /\ Tail(<<x>> \o R) = R
    BY <1>3
  <2>4. Line!Send
    BY <2>2, <2>3, <1>6, <1>4, <1>1 DEF Line!Send
  <2> QED BY <2>4 DEF LineStep, Line!Next
<1> QED BY <1>7, <1>8

LEMMA KillStep ==
  ASSUME IInv, NEW p \in Procs, sys_kill(p)
  PROVE  LineStep
<1>1. Unread' = Unread /\ Unsent' = Unsent
  BY Mapping DEF sys_kill
<1>2. Line!Kill(p)
  BY <1>1, Zenon DEF sys_kill, Line!Kill, Contains, Line!Contains, RemoveFirst,
     Line!RemoveFirst, RemoveAt, Line!RemoveAt, SelectInSeq, Line!SelectInSeq,
     Min, Line!Min
<1> QED BY <1>2 DEF LineStep, Line!Next

LEMMA ReadStep ==
  ASSUME PlainCalls, IInv, NEW p \in Procs, NEW size \in Sizes, sys_read(p, size)
  PROVE  LineStep
<1> DEFINE n == Least(in.count, size)
<1>1. /\ n \in 0 .. in.count /\ (n = size \/ n = in.count)
      /\ in' \in Buffers /\ in'.buf = in.buf /\ in'.count = in.count - n
      /\ in'.last = in'.next + in'.count
      /\ in'.count > 0 => in'.next = in.next + n
  BY ReadBuffer, Zenon
<1>2. /\ given' = [i \in 1 .. n |-> in.buf[in.next + i - 1]]
      /\ reading' = IF n > 0 THEN reading ELSE Append(reading, p)
      /\ ~Contains(reading, p)
      /\ UNCHANGED <<out, txd>>
  BY Zenon DEF sys_read
<1>3. /\ in \in Buffers /\ in.next \in Nat /\ in.count \in Nat /\ BUF_SIZE \in Nat
      /\ in.last = in.next + in.count /\ in.next + in.count <= BUF_SIZE
      /\ size \in Nat \ {0}
  BY SioAssumption, Fields DEF IInv, InBook, TypeOK, PlainCalls
<1>4. n = Line!Least(size, in.count)
  BY <1>3 DEF Least, Line!Least
<1> HIDE DEF n
<1>5. /\ Unread \in Seq(Chars) /\ Len(Unread) = in.count
      /\ \A i \in 1 .. in.count : Unread[i] = in.buf[in.next + i - 1]
  BY <1>3, LinearOK, Mapping
<1>6. /\ Unread' \in Seq(Chars) /\ Len(Unread') = in.count - n
      /\ \A i \in 1 .. in.count - n : Unread'[i] = in.buf[in.next + n + i - 1]
  <2> DEFINE b == in'
  <2>1. /\ b \in Buffers /\ b.next + b.count <= BUF_SIZE
        /\ b.buf = in.buf /\ b.count = in.count - n
        /\ b.count > 0 => b.next = in.next + n
    <3>1. in'.last <= BUF_SIZE
      BY <1>1, <1>3 DEF Buffers
    <3> QED BY <3>1, <1>1
  <2>2. Unread' = Linear(b)
    BY Mapping
  <2> HIDE DEF b
  <2>3. /\ Linear(b) \in Seq(Chars) /\ Len(Linear(b)) = b.count
        /\ \A i \in 1 .. b.count : Linear(b)[i] = b.buf[b.next + i - 1]
    BY <2>1, LinearOK
  <2>4. ASSUME NEW i \in 1 .. in.count - n
        PROVE  Linear(b)[i] = in.buf[in.next + n + i - 1]
    <3>1. b.next = in.next + n
      BY <2>1, <1>1, <1>3
    <3> QED BY <3>1, <2>1, <2>3
  <2> QED BY <2>1, <2>2, <2>3, <2>4
<1>7. /\ SubSeq(Unread, 1, n) \in Seq(Chars) /\ Len(SubSeq(Unread, 1, n)) = n
      /\ \A i \in 1 .. n : SubSeq(Unread, 1, n)[i] = Unread[i]
  <2>1. 1 \in 1 .. Len(Unread) + 1 /\ n \in 1 - 1 .. Len(Unread)
    BY <1>1, <1>3, <1>5
  <2>2. /\ SubSeq(Unread, 1, n) \in Seq(Chars)
        /\ Len(SubSeq(Unread, 1, n)) = n - 1 + 1
        /\ \A i \in 1 .. n - 1 + 1 : SubSeq(Unread, 1, n)[i] = Unread[1 + i - 1]
    BY <2>1, <1>5, Piece, ZenonT(40)
  <2>3. n - 1 + 1 = n /\ \A i \in 1 .. n : 1 + i - 1 = i
    BY <1>1, <1>3
  <2> QED BY <2>2, <2>3
<1>8. given' = SubSeq(Unread, 1, n)
  <2> DEFINE u == given'
             v == SubSeq(Unread, 1, n)
  <2>1. u \in [1 .. n -> Chars] /\ \A i \in 1 .. n : u[i] = v[i]
    <3>1. \A i \in 1 .. n : i \in 1 .. in.count
      BY <1>1, <1>3
    <3>2. \A i \in 1 .. n : v[i] = in.buf[in.next + i - 1] /\ v[i] \in Chars
      BY <3>1, <1>5, <1>7, ElementOfSeq
    <3> QED BY <3>2, <1>2
  <2>2. u \in Seq(Chars) /\ Len(u) = n /\ v \in Seq(Chars) /\ Len(v) = n
    BY <2>1, <1>1, <1>3, <1>7, FcnIsSeq
  <2> HIDE DEF u, v
  <2>3. u = v
    BY <2>1, <2>2, SeqEqual
  <2> QED BY <2>3 DEF u, v
<1>9. Unread = given' \o Unread'
  <2> DEFINE g == given'
             r == Unread'
             u == Unread
  <2>1. /\ g \in Seq(Chars) /\ Len(g) = n /\ r \in Seq(Chars) /\ Len(r) = in.count - n
        /\ u \in Seq(Chars) /\ Len(u) = in.count
    BY <1>5, <1>6, <1>7, <1>8
  <2>2. \A i \in 1 .. n : g[i] = u[i]
    BY <1>7, <1>8
  <2>3. ASSUME NEW i \in 1 .. in.count, i > n PROVE r[i - n] = u[i]
    <3>1. i - n \in 1 .. in.count - n /\ in.next + n + (i - n) - 1 = in.next + i - 1
      BY <2>3, <1>1, <1>3
    <3> QED BY <3>1, <1>5, <1>6
  <2> HIDE DEF g, r, u
  <2>4. /\ g \o r \in Seq(Chars) /\ Len(g \o r) = in.count
        /\ \A i \in 1 .. in.count : (g \o r)[i] = IF i <= n THEN g[i] ELSE r[i - n]
    <3>1. Len(g) + Len(r) = in.count
      BY <2>1, <1>1, <1>3
    <3>2. /\ g \o r \in Seq(Chars) /\ Len(g \o r) = Len(g) + Len(r)
          /\ \A i \in 1 .. Len(g) + Len(r) :
               (g \o r)[i] = IF i <= Len(g) THEN g[i] ELSE r[i - Len(g)]
      BY <2>1, ConcatProperties, ZenonT(40)
    <3> QED BY <2>1, <3>1, <3>2, Zenon
  <2>5. \A i \in 1 .. in.count : (g \o r)[i] = u[i]
    <3> SUFFICES ASSUME NEW i \in 1 .. in.count PROVE (g \o r)[i] = u[i]
      OBVIOUS
    <3>1. CASE i <= n
      BY <3>1, <2>4, <2>2, <1>1
    <3>2. CASE i > n
      <4>1. ~(i <= n)
        BY <3>2, <1>1
      <4> QED BY <4>1, <3>2, <2>4, <2>3
    <3>3. i <= n \/ i > n
      BY <1>1, <1>3
    <3> QED BY <3>1, <3>2, <3>3
  <2>6. u = g \o r
    BY <2>1, <2>4, <2>5, SeqEqual
  <2> QED BY <2>6 DEF g, r, u
<1>10. reading' = IF Unread = <<>> THEN Append(reading, p) ELSE reading
  <2>1. Unread = <<>> <=> n = 0
    BY <1>1, <1>3, <1>5
  <2> QED BY <2>1, <1>1, <1>2, <1>3
<1>11. Unsent' = Unsent
  BY <1>2, Mapping
<1>12. ~Line!Contains(reading, p)
  BY <1>2, Zenon DEF Contains, Line!Contains
<1>13. Line!Read(p, size)
  BY <1>4, <1>5, <1>8, <1>9, <1>10, <1>11, <1>12, Zenon DEF Line!Read
<1> QED
  BY <1>13 DEF LineStep, Line!Next

\* The ring after its first character went to the transmitter.
LEMMA CyclicPop ==
  ASSUME NEW b \in Buffers, b.count > 0, b.next < BUF_SIZE, NEW d \in Buffers,
         d.buf = b.buf, d.next = (b.next + 1) % BUF_SIZE, d.count = b.count - 1
  PROVE  Cyclic(b) = <<b.buf[b.next]>> \o Cyclic(d) /\ b.buf[b.next] \in Chars
<1>1. /\ b.next \in 0 .. BUF_SIZE - 1 /\ b.count \in 1 .. BUF_SIZE
      /\ BUF_SIZE \in Nat /\ BUF_SIZE > 0 /\ b.buf \in [Offsets -> Chars]
  BY SioAssumption DEF Buffers, Chars
<1>2. b.buf[b.next] \in Chars
  BY <1>1 DEF Offsets
<1> DEFINE x == b.buf[b.next]
           u == Cyclic(b)
           r == Cyclic(d)
<1>3. /\ u \in Seq(Chars) /\ Len(u) = b.count
      /\ \A i \in 1 .. b.count : u[i] = b.buf[(b.next + i - 1) % BUF_SIZE]
  BY CyclicOK
<1>4. /\ r \in Seq(Chars) /\ Len(r) = b.count - 1
      /\ \A i \in 1 .. b.count - 1 : r[i] = b.buf[(d.next + i - 1) % BUF_SIZE]
  BY CyclicOK
<1>5. /\ <<x>> \in Seq(Chars) /\ Len(<<x>>) = 1 /\ <<x>>[1] = x
  BY <1>2
<1> HIDE DEF u, r, x
<1>6. /\ <<x>> \o r \in Seq(Chars) /\ Len(<<x>> \o r) = b.count
      /\ \A i \in 1 .. b.count : (<<x>> \o r)[i] = IF i <= 1 THEN x ELSE r[i - 1]
  <2>1. 1 + Len(r) = b.count
    BY <1>1, <1>4
  <2>2. /\ <<x>> \o r \in Seq(Chars) /\ Len(<<x>> \o r) = Len(<<x>>) + Len(r)
        /\ \A i \in 1 .. Len(<<x>>) + Len(r) :
             (<<x>> \o r)[i] = IF i <= Len(<<x>>) THEN <<x>>[i] ELSE r[i - Len(<<x>>)]
    BY <1>4, <1>5, ConcatProperties, ZenonT(40)
  <2> DEFINE z == <<x>>
  <2> HIDE DEF z
  <2>3. /\ z \o r \in Seq(Chars) /\ Len(z \o r) = b.count
        /\ \A i \in 1 .. b.count : (z \o r)[i] = IF i <= 1 THEN z[i] ELSE r[i - 1]
    BY <2>1, <2>2, <1>5 DEF z
  <2>4. \A i \in 1 .. b.count : i <= 1 => z[i] = x
    BY <1>5 DEF z
  <2> QED BY <2>3, <2>4 DEF z
<1>7. ASSUME NEW i \in 1 .. b.count PROVE u[i] = (<<x>> \o r)[i]
  <2>1. CASE i = 1
    <3>1. (b.next + i - 1) % BUF_SIZE = b.next
      BY <1>1, <2>1
    <3> QED BY <3>1, <2>1, <1>3, <1>6 DEF x
  <2>2. CASE i > 1
    <3>1. i - 1 \in 1 .. b.count - 1 /\ ~(i <= 1)
      BY <1>1, <2>2
    <3>2. (d.next + (i - 1) - 1) % BUF_SIZE = (b.next + i - 1) % BUF_SIZE
      <4> DEFINE m == b.next
                 k == b.count
      <4> HIDE DEF m, k
      <4>1. /\ m \in 0 .. BUF_SIZE - 1 /\ k \in 1 .. BUF_SIZE /\ i \in 2 .. k
            /\ BUF_SIZE \in Nat /\ BUF_SIZE > 0 /\ d.next = (m + 1) % BUF_SIZE
        BY <1>1, <2>2 DEF m, k
      <4>2. CASE m + 1 < BUF_SIZE
        <5>1. d.next = m + 1
          BY <4>1, <4>2
        <5>2. d.next + (i - 1) - 1 = m + i - 1
          BY <5>1, <4>1
        <5> QED BY <5>2 DEF m
      <4>3. CASE m + 1 = BUF_SIZE
        <5>1. d.next = 0
          BY <4>1, <4>3
        <5>2. (0 + (i - 1) - 1) % BUF_SIZE = i - 2
          BY <4>1
        <5>3. (m + i - 1) % BUF_SIZE = i - 2
          BY <4>1, <4>3
        <5> QED BY <5>1, <5>2, <5>3 DEF m
      <4> QED BY <4>1, <4>2, <4>3
    <3> QED BY <3>1, <3>2, <1>3, <1>4, <1>6
  <2>3. i = 1 \/ i > 1
    BY <1>1
  <2> QED BY <2>1, <2>2, <2>3
<1>8. u = <<x>> \o r
  BY <1>3, <1>6, <1>7, SeqEqual
<1> QED
  BY <1>2, <1>8 DEF u, r, x

LEMMA TxStep ==
  ASSUME IInv, sio_isr_tx
  PROVE  LineStep
<1>1. /\ in' = in /\ reading' = reading /\ given' = <<>> /\ txd = <<>>
      /\ Unread' = Unread
  BY Mapping DEF sio_isr_tx
<1>2. TypeOK /\ OutBook /\ out \in Buffers
  BY DEF IInv, TypeOK
<1>3. out' \in Buffers
  BY TxIInv DEF IInv, TypeOK
<1>4. /\ Cyclic(out) \in Seq(Chars) /\ Cyclic(out') \in Seq(Chars)
  <2> DEFINE d == out'
  <2>1. d \in Buffers
    BY <1>3
  <2> HIDE DEF d
  <2>2. Cyclic(d) \in Seq(Chars)
    BY <2>1, CyclicOK
  <2> QED BY <1>2, <2>2, CyclicOK DEF d
<1>5. Held(<<>>) = <<>>
  BY DEF Held
<1>6. Unsent = Cyclic(out)
  BY <1>1, <1>4, <1>5, Mapping, ConcatEmptySeq
<1>7. CASE sending /\ out.count > 0
  <2> DEFINE x == out.buf[out.next]
  <2>1. /\ txd' = <<x>>
        /\ out' = [out EXCEPT !.next = (@ + 1) % BUF_SIZE, !.count = @ - 1]
    BY <1>7, Zenon DEF sio_isr_tx
  <2>2. out' = [buf |-> out.buf, next |-> (out.next + 1) % BUF_SIZE,
                last |-> out.last, count |-> out.count - 1]
    BY <2>1, <1>2, Fields
  <2>3. Cyclic(out) = <<x>> \o Cyclic(out') /\ x \in Chars
    <3> DEFINE d == out'
    <3>1. /\ d \in Buffers /\ d.buf = out.buf /\ d.next = (out.next + 1) % BUF_SIZE
          /\ d.count = out.count - 1
      BY <2>2, <1>3
    <3>2. out.next < BUF_SIZE
      BY <1>2 DEF OutBook
    <3> HIDE DEF d
    <3>3. Cyclic(out) = <<out.buf[out.next]>> \o Cyclic(d) /\ out.buf[out.next] \in Chars
      BY <3>1, <3>2, <1>2, <1>7, CyclicPop
    <3> QED BY <3>3 DEF d
  <2> HIDE DEF x
  <2>4. CASE x = CR
    <3>1. Unsent' = Cyclic(out')
      BY <2>1, <2>4, <1>4, Mapping, ConcatEmptySeq DEF Held
    <3>2. <<x>> \o Cyclic(out') # <<>> /\ Tail(<<x>> \o Cyclic(out')) = Cyclic(out')
      BY <1>4, <2>3
    <3>3. Line!Send
      BY <1>1, <1>6, <2>3, <3>1, <3>2, Zenon DEF Line!Send
    <3> QED BY <3>3 DEF LineStep, Line!Next
  <2>5. CASE x # CR
    <3>1. <<x>> # <<CR>>
      BY <2>5
    <3>2. Unsent' = <<x>> \o Cyclic(out')
      BY <2>1, <3>1, Mapping, Zenon DEF Held
    <3>3. Line!Other
      BY <1>1, <1>6, <2>3, <3>2, Zenon DEF Line!Other
    <3> QED BY <3>3 DEF LineStep, Line!Next
  <2> QED BY <2>4, <2>5
<1>8. CASE ~(sending /\ out.count > 0)
  <2>1. out' = [Empty EXCEPT !.buf = out.buf] /\ txd' = txd
    BY <1>8, Zenon DEF sio_isr_tx
  <2>2. out'.count = 0 /\ out.count = 0
    BY <2>1, <1>2, <1>8, Fields DEF Empty, OutBook
  <2>3. Cyclic(out) = <<>> /\ Cyclic(out') = <<>>
    <3>1. \A b : b.count = 0 => Cyclic(b) = <<>>
      BY DEF Cyclic
    <3> QED BY <3>1, <2>2, Zenon
  <2>4. Unsent' = Unsent
    BY <2>1, <2>3, Mapping, Zenon
  <2>5. Line!Other
    BY <1>1, <2>4 DEF Line!Other
  <2> QED BY <2>5 DEF LineStep, Line!Next
<1> QED BY <1>7, <1>8

\* The cells of the ring, counted from its tail.
LEMMA Distance ==
  ASSUME NEW B \in Nat \ {0}, NEW n \in 0 .. B - 1, NEW k \in 0 .. B,
         NEW i \in 1 .. B
  PROVE  /\ i <= k => ((((n + i - 1) % B) - ((n + k) % B)) % B) + 1 = B + i - k
         /\ i > k => ((((n + i - 1) % B) - ((n + k) % B)) % B) + 1 = i - k
<1> DEFINE a == (n + i - 1) % B
           b == (n + k) % B
<1>1. a = (IF n + i - 1 < B THEN n + i - 1 ELSE n + i - 1 - B)
  <2>1. CASE n + i - 1 < B
    BY <2>1
  <2>2. CASE ~(n + i - 1 < B)
    BY <2>2
  <2> QED BY <2>1, <2>2
<1>2. b = (IF n + k < B THEN n + k ELSE n + k - B)
  <2>1. CASE n + k < B
    BY <2>1
  <2>2. CASE ~(n + k < B)
    BY <2>2
  <2> QED BY <2>1, <2>2
<1> HIDE DEF a, b
<1>3. ASSUME i <= k PROVE ((a - b) % B) + 1 = B + i - k
  <2>1. \/ a - b = i - 1 - k
        \/ a - b = B + i - 1 - k
    BY <1>1, <1>2, <1>3
  <2>2. (i - 1 - k) % B = B + i - 1 - k
    BY <1>3
  <2>3. (B + i - 1 - k) % B = B + i - 1 - k
    BY <1>3
  <2> QED BY <2>1, <2>2, <2>3
<1>4. ASSUME i > k PROVE ((a - b) % B) + 1 = i - k
  <2>1. \/ a - b = i - 1 - k
        \/ a - b = i - 1 - k - B
    BY <1>1, <1>2, <1>4
  <2>2. (i - 1 - k) % B = i - 1 - k
    BY <1>4
  <2>3. (i - 1 - k - B) % B = i - 1 - k
    BY <1>4
  <2> QED BY <2>1, <2>2, <2>3
<1> QED
  BY <1>3, <1>4 DEF a, b

\* The loop of _sio_writes puts what fits behind what is there.
LEMMA FillCyclic ==
  ASSUME IInv, ~overrun, NEW str \in Seq(Chars),
         ~(fits(str) > 0 /\ out.last >= BUF_SIZE)
  PROVE  Cyclic(filled(str)) = Cyclic(out) \o SubSeq(str, 1, fits(str))
<1> DEFINE n == fits(str)
           o == filled(str)
           k == out.count
           B == BUF_SIZE
<1>1. TypeOK /\ OutBook /\ str \in Seq(0 .. 255) /\ out \in Buffers
  BY DEF IInv, TypeOK, Chars
<1>2. /\ n \in 0 .. Len(str) /\ n <= B - k /\ o \in Buffers
      /\ o.next = out.next /\ o.count = k + n
      /\ o.buf = [i \in Offsets |->
                   IF ((i - out.last) % B) + 1 <= n
                   THEN str[((i - out.last) % B) + 1] ELSE out.buf[i]]
  BY <1>1, FillOK, Zenon
<1>3. /\ B \in Nat \ {0} /\ k \in 0 .. B /\ out.next \in 0 .. B - 1
      /\ out.last \in 0 .. B /\ Len(str) \in Nat
  BY <1>1, Fields DEF OutBook
<1>4. n > 0 => out.last = (out.next + k) % B
  BY <1>2, <1>3, <1>1 DEF OutBook
<1> HIDE DEF n, o
<1>5. /\ Cyclic(o) \in Seq(Chars) /\ Len(Cyclic(o)) = k + n
      /\ \A i \in 1 .. k + n : Cyclic(o)[i] = o.buf[(out.next + i - 1) % B]
  <2>1. o \in Buffers /\ o.next = out.next /\ o.count = k + n
    BY <1>2, Zenon
  <2>2. /\ Cyclic(o) \in Seq(Chars) /\ Len(Cyclic(o)) = o.count
        /\ \A i \in 1 .. o.count : Cyclic(o)[i] = o.buf[(o.next + i - 1) % B]
    BY <2>1, CyclicOK
  <2> QED BY <2>1, <2>2, ZenonT(40)
<1>6. /\ Cyclic(out) \in Seq(Chars) /\ Len(Cyclic(out)) = k
      /\ \A i \in 1 .. k : Cyclic(out)[i] = out.buf[(out.next + i - 1) % B]
  BY <1>1, CyclicOK
<1>7. /\ SubSeq(str, 1, n) \in Seq(Chars) /\ Len(SubSeq(str, 1, n)) = n
      /\ \A i \in 1 .. n : SubSeq(str, 1, n)[i] = str[i]
  <2>1. 1 \in 1 .. Len(str) + 1 /\ n \in 1 - 1 .. Len(str)
    BY <1>2, <1>3
  <2>2. /\ SubSeq(str, 1, n) \in Seq(Chars) /\ Len(SubSeq(str, 1, n)) = n - 1 + 1
        /\ \A i \in 1 .. n - 1 + 1 : SubSeq(str, 1, n)[i] = str[1 + i - 1]
    BY <2>1, Piece, ZenonT(40)
  <2>3. n - 1 + 1 = n /\ \A i \in 1 .. n : 1 + i - 1 = i
    BY <1>2
  <2> QED BY <2>2, <2>3
<1> DEFINE u == Cyclic(out)
           v == SubSeq(str, 1, n)
           r == Cyclic(o)
<1>8. ASSUME NEW i \in 1 .. k + n
      PROVE  r[i] = IF i <= k THEN u[i] ELSE v[i - k]
  <2> DEFINE c == (out.next + i - 1) % B
  <2>1. c \in Offsets /\ i \in 1 .. B /\ n \in Nat
    <3>1. n \in Nat /\ n <= B - k
      BY <1>2, <1>3
    <3>2. i \in 1 .. B
      BY <3>1, <1>3
    <3>3. c \in Offsets
      BY <3>2, <1>3 DEF Offsets
    <3> QED BY <3>1, <3>2, <3>3
  <2>2. o.buf[c] = IF ((c - out.last) % B) + 1 <= n
                   THEN str[((c - out.last) % B) + 1] ELSE out.buf[c]
    BY <2>1, <1>2, Zenon
  <2>3. CASE i <= k
    <3>1. ~(((c - out.last) % B) + 1 <= n)
      <4>1. CASE n = 0
        <5> HIDE DEF c
        <5>1. c \in Int
          BY <2>1, <1>3 DEF Offsets
        <5> QED BY <5>1, <4>1, <1>3
      <4>2. CASE n > 0
        <5>1. ((c - out.last) % B) + 1 = B + i - k
          <6>1. B \in Nat \ {0} /\ out.next \in 0 .. B - 1 /\ k \in 0 .. B /\ i \in 1 .. B
            BY <1>3, <2>1, Zenon
          <6>2. ((((out.next + i - 1) % B) - ((out.next + k) % B)) % B) + 1 = B + i - k
            BY <6>1, <2>3, Distance, ZenonT(40)
          <6> QED BY <6>2, <4>2, <1>4, Zenon
        <5>2. PICK y \in Int : y = B + i - k
          BY <1>3, <2>1
        <5>3. n <= B - k
          BY <1>2, Zenon
        <5>4. ~(y <= n)
          BY <5>2, <5>3, <1>3, <2>1
        <5> QED BY <5>1, <5>2, <5>4, Zenon
      <4> QED BY <4>1, <4>2, <2>1
    <3>2. i \in 1 .. k
      BY <2>1, <2>3, <1>3
    <3> QED BY <3>1, <3>2, <2>2, <1>5, <1>6
  <2>4. CASE ~(i <= k)
    <3>1. n > 0 /\ i > k /\ i - k \in 1 .. n
      BY <2>4, <1>2, <1>3
    <3>2. ((c - out.last) % B) + 1 = i - k
      <4>1. B \in Nat \ {0} /\ out.next \in 0 .. B - 1 /\ k \in 0 .. B /\ i \in 1 .. B
        BY <1>3, <2>1, Zenon
      <4>2. ((((out.next + i - 1) % B) - ((out.next + k) % B)) % B) + 1 = i - k
        BY <4>1, <3>1, Distance, ZenonT(40)
      <4> QED BY <4>2, <3>1, <1>4, Zenon
    <3>3. o.buf[c] = str[i - k]
      BY <3>1, <3>2, <2>2, <2>1
    <3> QED BY <3>1, <3>3, <1>5, <1>7, <2>4
  <2> QED BY <2>3, <2>4
<1> HIDE DEF u, v, r
<1>9. /\ u \in Seq(Chars) /\ v \in Seq(Chars) /\ r \in Seq(Chars)
      /\ Len(u) = k /\ Len(v) = n /\ Len(r) = k + n
  BY <1>5, <1>6, <1>7 DEF u, v, r
<1>10. /\ u \o v \in Seq(Chars) /\ Len(u \o v) = k + n
       /\ \A i \in 1 .. k + n : (u \o v)[i] = IF i <= k THEN u[i] ELSE v[i - k]
  <2>1. /\ u \o v \in Seq(Chars) /\ Len(u \o v) = Len(u) + Len(v)
        /\ \A i \in 1 .. Len(u) + Len(v) :
               (u \o v)[i] = IF i <= Len(u) THEN u[i] ELSE v[i - Len(u)]
    BY <1>9, ConcatProperties, ZenonT(40)
  <2> QED BY <2>1, <1>9, ZenonT(40)
<1>11. r = u \o v
  <2>1. PICK x : x = u \o v
    OBVIOUS
  <2>2. x \in Seq(Chars) /\ Len(x) = Len(r)
    BY <1>9, <1>10, <2>1, Zenon
  <2>3. \A i \in 1 .. Len(r) : r[i] = x[i]
    BY <1>8, <1>9, <1>10, <2>1, Zenon
  <2>4. r = x
    BY <1>9, <2>2, <2>3, SeqEqual
  <2> QED BY <2>1, <2>4
<1> QED
  BY <1>11 DEF u, v, r, n, o

LEMMA WriteStep ==
  ASSUME PlainCalls, IInv, NEW w \in Writes, sys_write(w)
  PROVE  LineStep
<1> DEFINE all == SubSeq(w.buf, 1, w.size)
           str == Stored(w)
           n == fits(str)
<1>1. /\ overrun' = (n > 0 /\ out.last >= BUF_SIZE)
      /\ sending \/ w.buf[1] # LF =>
              /\ out' = filled(str)
              /\ txd' = IF sending THEN txd ELSE <<w.buf[1]>>
      /\ ~sending /\ w.buf[1] = LF =>
              /\ w.size = 1
              /\ out' = [buf |-> [out.buf EXCEPT ![0] = LF], next |-> 0,
                         last |-> 1, count |-> 1]
              /\ txd' = <<CR>>
      /\ given' = <<>> /\ UNCHANGED <<in, reading>>
  BY WriteOut, Zenon
<1>2. TypeOK /\ OutBook /\ sending \in BOOLEAN /\ ~overrun /\ out \in Buffers
  BY DEF IInv, TypeOK, Armed, sys_write
<1>3. /\ w.buf \in Seq(Chars) /\ Len(w.buf) \in Nat
      /\ w.size \in 1 .. Len(w.buf) /\ str \in Seq(Chars) /\ Len(str) \in Nat
      /\ sending => /\ Len(str) = w.size
                    /\ \A i \in 1 .. w.size : str[i] = w.buf[i]
      /\ ~sending => /\ Len(str) = w.size - 1
                     /\ \A i \in 1 .. w.size - 1 : str[i] = w.buf[i + 1]
  <2>1. w.buf \in Seq(Chars) /\ Len(w.buf) \in Nat /\ w.size \in 1 .. Len(w.buf)
        /\ str \in Seq(Chars)
    BY <1>2, StoredOK DEF Chars
  <2>2. Len(str) \in Nat
    BY <2>1, LenProperties
  <2> QED BY <1>2, <2>1, <2>2, StoredOK
<1>4. /\ all \in Seq(Chars) /\ Len(all) = w.size
      /\ \A i \in 1 .. w.size : all[i] = w.buf[i]
  <2>1. 1 \in 1 .. Len(w.buf) + 1 /\ w.size \in 1 - 1 .. Len(w.buf)
    BY <1>3
  <2>2. /\ all \in Seq(Chars) /\ Len(all) = w.size - 1 + 1
        /\ \A i \in 1 .. w.size - 1 + 1 : all[i] = w.buf[1 + i - 1]
    BY <2>1, <1>3, Piece, ZenonT(40)
  <2>3. w.size - 1 + 1 = w.size /\ \A i \in 1 .. w.size : 1 + i - 1 = i
    BY <1>3
  <2> HIDE DEF all
  <2> QED BY <2>2, <2>3
<1>5. all \in {SubSeq(x.buf, 1, x.size) : x \in Writes}
  OBVIOUS
<1>6. Unread' = Unread
  BY <1>1, Mapping
<1>7. SUFFICES ASSUME ~overrun'
               PROVE  \E m \in 0 .. Len(all) :
                        /\ Unsent' = Unsent \o SubSeq(all, 1, m)
                        /\ m = Len(all) \/ Len(Unsent') >= BUF_SIZE
  <2>1. CASE overrun'
    BY <2>1 DEF LineStep
  <2>2. CASE ~overrun'
    <3>1. Line!Write(all)
      BY <1>1, <1>6, <1>7, <2>2, Zenon DEF Line!Write
    <3> QED BY <3>1, <1>5, Zenon DEF LineStep, Line!Next
  <2> QED BY <2>1, <2>2
<1>8. /\ n \in 0 .. Len(str)
      /\ n = Len(str) \/ n = BUF_SIZE - out.count
      /\ filled(str) \in Buffers /\ filled(str).count = out.count + n
      /\ Cyclic(filled(str)) = Cyclic(out) \o SubSeq(str, 1, n)
  <2>1. ~(n > 0 /\ out.last >= BUF_SIZE)
    BY <1>1, <1>7, Zenon
  <2> HIDE DEF str
  <2>2. Cyclic(filled(str)) = Cyclic(out) \o SubSeq(str, 1, n)
    BY <2>1, <1>2, <1>3, FillCyclic
  <2>3. str \in Seq(0 .. 255)
    BY <1>3 DEF Chars
  <2> QED BY <2>2, <2>3, <1>2, FillOK, Zenon
<1>8a. n \in 0 .. Len(str) /\ Len(str) \in Nat /\ n \in Nat /\ n <= Len(str)
  <2> HIDE DEF n, str
  <2>1. n \in 0 .. Len(str)
    BY <1>8, Zenon
  <2>2. Len(str) \in Nat
    BY <1>3, Zenon
  <2> QED BY <2>1, <2>2
<1>9. /\ Cyclic(out) \in Seq(Chars) /\ Len(Cyclic(out)) = out.count
      /\ Held(txd) \in Seq(Chars)
  BY <1>2, CyclicOK, HeldOK
<1>10. /\ SubSeq(str, 1, n) \in Seq(Chars) /\ Len(SubSeq(str, 1, n)) = n
       /\ \A i \in 1 .. n : SubSeq(str, 1, n)[i] = str[i]
  <2> HIDE DEF str, n
  <2>1. 1 \in 1 .. Len(str) + 1 /\ n \in 1 - 1 .. Len(str)
    BY <1>8a
  <2>2. /\ SubSeq(str, 1, n) \in Seq(Chars) /\ Len(SubSeq(str, 1, n)) = n - 1 + 1
        /\ \A i \in 1 .. n - 1 + 1 : SubSeq(str, 1, n)[i] = str[1 + i - 1]
    BY <2>1, <1>3, Piece, ZenonT(40)
  <2>3. n - 1 + 1 = n /\ \A i \in 1 .. n : 1 + i - 1 = i
    BY <1>8a
  <2> QED BY <2>2, <2>3
<1>11. BUF_SIZE \in Nat \ {0} /\ out.count \in 0 .. BUF_SIZE
  BY <1>2, Fields
<1> HIDE DEF all, str, n
<1>12. CASE sending
  <2>1. str = all
    BY <1>3, <1>4, <1>12, SeqEqual
  <2>2. Unsent' = Held(txd) \o (Cyclic(out) \o SubSeq(str, 1, n))
    BY <1>1, <1>8, <1>12, Mapping, Zenon
  <2>3. Unsent' = Unsent \o SubSeq(all, 1, n)
    <3>1. (Held(txd) \o Cyclic(out)) \o SubSeq(str, 1, n)
            = Held(txd) \o (Cyclic(out) \o SubSeq(str, 1, n))
      <4> DEFINE a == Held(txd)
                 b == Cyclic(out)
                 c == SubSeq(str, 1, n)
      <4>1. a \in Seq(Chars) /\ b \in Seq(Chars) /\ c \in Seq(Chars)
        BY <1>9, <1>10
      <4> HIDE DEF a, b, c
      <4>2. (a \o b) \o c = a \o (b \o c)
        BY <4>1, ConcatAssociative
      <4> QED BY <4>2 DEF a, b, c
    <3> QED BY <3>1, <2>1, <2>2, Mapping, Zenon
  <2>4. n \in 0 .. Len(all)
    BY <1>8a, <2>1, Zenon
  <2>5. n = Len(all) \/ Len(Unsent') >= BUF_SIZE
    <3> DEFINE h == Held(txd)
               t == Cyclic(filled(str))
    <3>1. h \in Seq(Chars) /\ t \in Seq(Chars) /\ Len(t) = out.count + n
      BY <1>8, <1>9, CyclicOK
    <3>2. Unsent' = h \o t
      BY <1>8, <2>2
    <3> HIDE DEF h, t
    <3>3. Len(h \o t) = Len(h) + Len(t) /\ Len(h) \in Nat
      BY <3>1
    <3>4. n = BUF_SIZE - out.count => Len(h \o t) >= BUF_SIZE
      BY <3>1, <3>3, <1>11
    <3> QED BY <3>2, <3>4, <1>8, <2>1
  <2> QED BY <2>3, <2>4, <2>5
<1>13. ASSUME ~sending
       PROVE  /\ out.count = 0 /\ Unsent = <<>> /\ Cyclic(out) = <<>>
  <2>1. out.count = 0 /\ txd = <<>>
    BY <1>13 DEF IInv, OutBook, Armed, TransmitterArmed
  <2>2. Cyclic(out) = <<>>
    BY <1>9, <2>1
  <2>3. Held(txd) = <<>>
    BY <2>1 DEF Held
  <2> QED BY <2>1, <2>2, <2>3, Mapping
<1>14. CASE ~sending /\ w.buf[1] # LF
  <2> DEFINE x == w.buf[1]
             t == SubSeq(str, 1, n)
  <2>1. x \in Chars /\ x # CR
    <3>1. 1 \in 1 .. Len(w.buf)
      BY <1>3
    <3> QED BY <3>1, <1>3, ElementOfSeq DEF PlainCalls
  <2>2. t \in Seq(Chars) /\ Len(t) = n /\ n \in 0 .. w.size - 1 /\ w.size \in Nat
        /\ \A i \in 1 .. n : t[i] = w.buf[i + 1]
    <3>1. n \in 0 .. w.size - 1 /\ w.size \in Nat /\ 1 .. n \subseteq 1 .. w.size - 1
      <4>1. Len(str) = w.size - 1 /\ w.size \in 1 .. Len(w.buf) /\ Len(w.buf) \in Nat
        BY <1>3, <1>14, Zenon
      <4> QED BY <4>1, <1>8a
    <3> QED BY <3>1, <1>3, <1>10, <1>14
  <2> HIDE DEF x, t
  <2>3. Unsent' = <<x>> \o t
    <3>1. txd' = <<x>> /\ out' = filled(str)
      BY <1>1, <1>14 DEF x
    <3>2. Held(<<x>>) = <<x>>
      BY <2>1 DEF Held
    <3>3. Cyclic(filled(str)) = t
      BY <1>8, <1>13, <1>14, <2>2, ConcatEmptySeq DEF t
    <3> QED BY <3>1, <3>2, <3>3, Mapping, Zenon
  <2>4. /\ <<x>> \o t \in Seq(Chars) /\ Len(<<x>> \o t) = n + 1
        /\ \A i \in 1 .. n + 1 : (<<x>> \o t)[i] = w.buf[i]
    <3> DEFINE z == <<x>>
    <3>1. z \in Seq(Chars) /\ Len(z) = 1 /\ z[1] = x
      BY <2>1
    <3> HIDE DEF z
    <3>2. /\ z \o t \in Seq(Chars) /\ Len(z \o t) = Len(z) + Len(t)
          /\ \A i \in 1 .. Len(z) + Len(t) :
               (z \o t)[i] = IF i <= Len(z) THEN z[i] ELSE t[i - Len(z)]
      BY <2>2, <3>1, ConcatProperties, ZenonT(40)
    <3>3. /\ z \o t \in Seq(Chars) /\ Len(z \o t) = n + 1
          /\ \A i \in 1 .. n + 1 : (z \o t)[i] = IF i <= 1 THEN z[i] ELSE t[i - 1]
      <4>1. Len(z) + Len(t) = n + 1
        BY <2>2, <3>1
      <4> QED BY <3>1, <3>2, <4>1, Zenon
    <3>4. ASSUME NEW i \in 1 .. n + 1 PROVE (z \o t)[i] = w.buf[i]
      <4>1. CASE i = 1
        BY <4>1, <3>1, <3>3 DEF x
      <4>2. CASE i > 1
        <5>1. i - 1 \in 1 .. n /\ (i - 1) + 1 = i /\ ~(i <= 1)
          BY <4>2, <2>2
        <5> QED BY <5>1, <3>3, <2>2
      <4>3. i = 1 \/ i > 1
        BY <2>2
      <4> QED BY <4>1, <4>2, <4>3
    <3> QED BY <3>3, <3>4 DEF z
  <2> DEFINE m == n + 1
             s == SubSeq(all, 1, m)
  <2>5. m \in 0 .. Len(all) /\ m \in 1 .. w.size
    BY <1>4, <2>2
  <2>6. /\ s \in Seq(Chars) /\ Len(s) = n + 1
        /\ \A i \in 1 .. n + 1 : s[i] = w.buf[i]
    <3>1. 1 \in 1 .. Len(all) + 1 /\ m \in 1 - 1 .. Len(all)
      BY <1>4, <2>5
    <3>2. /\ s \in Seq(Chars) /\ Len(s) = m - 1 + 1
          /\ \A i \in 1 .. m - 1 + 1 : s[i] = all[1 + i - 1]
      BY <3>1, <1>4, Piece, ZenonT(40)
    <3> HIDE DEF s
    <3>3. m - 1 + 1 = n + 1 /\ \A i \in 1 .. n + 1 : 1 + i - 1 = i /\ i \in 1 .. w.size
      BY <2>2
    <3> QED BY <3>2, <3>3, <1>4
  <2> HIDE DEF s
  <2>7. Unsent' = s
    <3> DEFINE y == <<x>> \o t
    <3>1. y \in Seq(Chars) /\ Len(y) = Len(s) /\ \A i \in 1 .. Len(y) : y[i] = s[i]
      BY <2>4, <2>6
    <3> HIDE DEF y
    <3>2. y = s
      BY <3>1, <2>6, SeqEqual
    <3> QED BY <3>2, <2>3 DEF y
  <2>8. Unsent' = Unsent \o s
    BY <2>6, <2>7, <1>13, <1>14, ConcatEmptySeq
  <2>9. m = Len(all) \/ Len(Unsent') >= BUF_SIZE
    <3>1. Len(Unsent') = n + 1
      BY <2>6, <2>7
    <3>2. n = w.size - 1 \/ n = BUF_SIZE
      BY <1>3, <1>8, <1>11, <1>13, <1>14
    <3> QED BY <3>1, <3>2, <1>4, <1>11, <2>2
  <2> QED BY <2>5, <2>8, <2>9 DEF s
<1>15. CASE ~sending /\ w.buf[1] = LF
  <2>1. /\ w.size = 1 /\ txd' = <<CR>>
        /\ out' = [buf |-> [out.buf EXCEPT ![0] = LF], next |-> 0, last |-> 1, count |-> 1]
    BY <1>1, <1>15
  <2>2. all = <<LF>>
    <3>1. all \in Seq(Chars) /\ Len(all) = 1 /\ all[1] = LF
      BY <1>4, <1>15, <2>1
    <3> QED BY <3>1
  <2>3. out'.count = 1 /\ out'.next = 0 /\ out'.buf = [out.buf EXCEPT ![0] = LF]
    BY <2>1
  <2>4. out'.buf[0] = LF
    <3>1. out.buf \in [Offsets -> 0 .. 255]
      BY <1>2, Fields
    <3>2. 0 \in Offsets
      BY <1>11 DEF Offsets
    <3> QED BY <3>1, <3>2, <2>3
  <2>5. Cyclic(out') = <<LF>>
    <3>1. (0 + 1 - 1) % BUF_SIZE = 0
      BY <1>11
    <3>2. Cyclic(out') = [i \in 1 .. 1 |-> out'.buf[(0 + i - 1) % BUF_SIZE]]
      BY <2>3, Zenon DEF Cyclic
    <3>3. \A i \in 1 .. 1 : out'.buf[(0 + i - 1) % BUF_SIZE] = LF
      BY <2>4, <3>1
    <3>4. Cyclic(out') = [i \in 1 .. 1 |-> LF]
      BY <3>2, <3>3
    <3> QED BY <3>4
  <2>6. Unsent' = <<LF>>
    <3>1. Held(txd') = <<>>
      BY <2>1 DEF Held
    <3>2. <<>> \o <<LF>> = <<LF>>
      OBVIOUS
    <3> QED BY <3>1, <3>2, <2>5, Mapping, Zenon
  <2>7. Unsent' = Unsent \o SubSeq(all, 1, 1)
    <3>1. <<>> \o SubSeq(<<LF>>, 1, 1) = <<LF>>
      <4>1. <<LF>> \in Seq(Chars) /\ Len(<<LF>>) = 1
        BY DEF LF, Chars
      <4>2. SubSeq(<<LF>>, 1, 1) = <<LF>>
        BY <4>1, SubSeqFull
      <4> QED BY <4>1, <4>2, ConcatEmptySeq
    <3> QED BY <3>1, <2>2, <2>6, <1>13, <1>15, Zenon
  <2>8. 1 \in 0 .. Len(all) /\ 1 = Len(all)
    BY <2>2
  <2> QED BY <2>7, <2>8, Zenon
<1> QED
  BY <1>12, <1>14, <1>15

(***************************************************************************)
(* For every size of the buffers, every set of processes and all calls a   *)
(* careful caller makes, sio.c does what SerialLine says until an access   *)
(* outside a buffer: received characters reach one reader each, in order;  *)
(* a reader waits only for lack of input; what is written is sent in       *)
(* order.                                                                  *)
(***************************************************************************)
THEOREM SioIsLine == PlainCalls => (Spec => BehavesAsLine)
<1> SUFFICES ASSUME PlainCalls PROVE Spec => BehavesAsLine
  OBVIOUS
<1>1. Init => Line!Init
  <2> SUFFICES ASSUME Init PROVE Line!Init
    OBVIOUS
  <2>1. /\ in.count = 0 /\ out.count = 0 /\ txd = <<>> /\ reading = <<>>
        /\ given = <<>>
    BY DEF Init, Empty
  <2>2. Unread = <<>> /\ Unsent = <<>>
    BY <2>1 DEF Unread, Unsent
  <2> QED BY <2>1, <2>2 DEF Line!Init
<1>2. IInv /\ [Next]_vars => [LineStep]_vars
  <2> SUFFICES ASSUME IInv, Next PROVE LineStep \/ UNCHANGED vars
    BY Zenon
  <2>1. CASE Undefined
    BY <2>1 DEF Undefined
  <2> QED
    BY <2>1, RxStep, SentStep, TxStep, ReadStep, KillStep, WriteStep, Zenon DEF Next
<1>3. IInv /\ [Next]_vars => IInv'
  BY NextIInv
<1> QED
  BY <1>1, <1>2, <1>3, InitIInv, PTL DEF Spec, BehavesAsLine, LineStep

(***************************************************************************)
(* Types, for the same calls: neither count passes BUF_SIZE and no offset  *)
(* leaves its buffer by more than one, however long the strings are.       *)
(***************************************************************************)
THEOREM SioTypes == PlainCalls => (Spec => []TypeOK)
<1> SUFFICES ASSUME PlainCalls PROVE Spec => []TypeOK
  OBVIOUS
<1>1. IInv /\ [Next]_vars => IInv'
  BY NextIInv
<1>2. IInv => TypeOK
  BY DEF IInv
<1> QED
  BY <1>1, <1>2, InitIInv, PTL DEF Spec
=============================================================================
