-------------------------- MODULE NicTransmitProofs --------------------------
(***************************************************************************)
(* Proofs about NicTransmit, for any number of senders and any length of   *)
(* the ring.  The invariant says for every place in the code what holds    *)
(* there of the ring, the block in hand and the command unit.              *)
(***************************************************************************)
EXTENDS NicTransmit, FiniteSetTheorems, TLAPS

\* how far b is behind a in the ring
Gap(a, b) == IF b >= a THEN b - a ELSE b - a + (TOTAL_CB + 1)
Used == Gap(cb_to_check, next_cb)

Recycling == {"recycle", "clear", "load", "increment", "next"}
Holding == {"available", "decrement", "fill", "data", "status", "start", "command"}
Holds(p) == pc[p].at \in Holding
Alone(p) == \A q \in Procs \ {p} : ~InBooks(q)

\* where a process can be, and what it still may send
Placed(p) ==
  /\ p = TxDaemon => pc[p].at \in Recycling \cup {"sleep"} /\ pc[p].ret = "sleep"
  /\ p \in Senders =>
       /\ pc[p].at # "sleep"
       /\ pc[p].at \in Recycling => pc[p].ret = "retest"
       /\ pc[p].at \in Books \cup {"fill", "data"} => accepted[p] < MaxPackets

\* nobody has anything to do with block b
Clean(b) ==
  /\ command[b] = NoCommand /\ b \notin complete
  /\ ~(cu.active /\ cu.at = b)
  /\ \A p \in Procs : Holds(p) => pc[p].cb # b

FreeClean == \A b \in Blocks : Gap(cb_to_check, b) >= Used => Clean(b)

\* the books of a process that keeps them alone
Kept(p) ==
  LET at == pc[p].at IN
  /\ at \in {"recycle", "clear", "load", "increment", "retest", "take", "advance"}
       => Used = TOTAL_CB - avail_cb
  /\ at \in {"next", "available", "decrement"} => Used = TOTAL_CB - avail_cb + 1
  /\ at \in {"increment", "decrement"} => pc[p].reg = avail_cb
  /\ at \in {"take", "advance", "available", "decrement"} => avail_cb > 0
  /\ at = "advance" => pc[p].cb = next_cb
  /\ at = "clear" => cb_to_check \in complete
  /\ at \in {"load", "increment", "next"} => Used > 0 /\ Clean(cb_to_check)

BooksKept ==
  /\ (\A p \in Procs : ~InBooks(p)) => Used = TOTAL_CB - avail_cb
  /\ \A p \in Procs : InBooks(p) /\ Alone(p) => Kept(p)

\* the block in the hand of p
InHand(p) ==
  LET at == pc[p].at
      cb == pc[p].cb IN
  /\ cb \notin complete /\ ~(cu.active /\ cu.at = cb)
  /\ \A q \in Procs \ {p} : Holds(q) => pc[q].cb # cb
  /\ at \in {"available", "decrement", "fill"} => command[cb] = NoCommand
  /\ at = "data" => command[cb] = Command("tx", TRUE, NoPacket)
  /\ at \in {"status", "start", "command"} => command[cb] = Command("tx", TRUE, <<p, accepted[p]>>)
  /\ at \in {"start", "command"} => ~cu.active

AllInHand == \A p \in Procs : Holds(p) => InHand(p)

\* what the CU works on; only the first block is not the end of the list
CuBusy ==
  cu.active =>
    /\ command[cu.at].op # "nop"
    /\ command[cu.at].op = "tx" => command[cu.at].packet # NoPacket
    /\ cu.at \notin complete
    /\ ~command[cu.at].el => /\ cu.at = 0 /\ cb_to_check = 0 /\ 1 \notin complete
                             /\ command[0].op = "cfg"
                             /\ command[1] = Command("ia", TRUE, NoPacket)

\* packets of p among the first that were sent have a number below n
SentBelow(p, n) == \A i \in DOMAIN sent : sent[i][1] = p => sent[i][2] < n

Numbered ==
  /\ \A i \in DOMAIN sent : sent[i][2] <= accepted[sent[i][1]]
  /\ \A p \in Senders : pc[p].at \in {"status", "start", "command"} => SentBelow(p, accepted[p])
  /\ cu.active /\ command[cu.at].op = "tx" =>
       LET k == command[cu.at].packet IN
       /\ k[2] <= accepted[k[1]] /\ SentBelow(k[1], k[2])
       /\ pc[k[1]].at \in {"status", "start", "command"} => k[2] < accepted[k[1]]

IInv ==
  /\ TypeOK /\ \A p \in Procs : Placed(p)
  /\ FreeClean /\ BooksKept /\ AllInHand /\ CuBusy /\ Numbered /\ SentInOrder

-----------------------------------------------------------------------------
(* The ring *)

\* link() goes round.
LEMMA LinkIs ==
  ASSUME NEW b \in Blocks
  PROVE  link(b) \in Blocks /\ link(b) = IF b = TOTAL_CB THEN 0 ELSE b + 1
BY NicTransmitAssumption DEF link, Blocks

\* The distance in the ring, without the modulus.
LEMMA GapIs ==
  ASSUME NEW a \in Blocks, NEW b \in Blocks
  PROVE  (b - a) % (TOTAL_CB + 1) = Gap(a, b) /\ Gap(a, b) \in 0 .. TOTAL_CB
BY NicTransmitAssumption DEF Gap, Blocks

\* One step of either pointer, and the blocks in between.
LEMMA GapSteps ==
  ASSUME NEW a \in Blocks, NEW b \in Blocks
  PROVE  /\ Gap(a, b) < TOTAL_CB => Gap(a, link(b)) = Gap(a, b) + 1
         /\ Gap(a, b) > 0 => Gap(link(a), b) = Gap(a, b) - 1
         /\ Gap(a, a) = 0 /\ (Gap(a, b) = 0 => b = a)
         /\ Gap(a, b) > 0 =>
              \A c \in Blocks : Gap(link(a), c) = IF c = a THEN TOTAL_CB ELSE Gap(a, c) - 1
         /\ \A c \in Blocks : Gap(a, c) = Gap(a, b) => c = b
BY LinkIs, NicTransmitAssumption DEF Gap, Blocks

\* As many blocks are in use as the pointers are apart.
LEMMA InUseCount ==
  ASSUME TypeOK
  PROVE  Cardinality(InUse) = Used /\ InUse = {b \in Blocks : Gap(cb_to_check, b) < Used}
<1> DEFINE a == cb_to_check
           b == next_cb
<1>1. a \in Blocks /\ b \in Blocks /\ a \in Int /\ b \in Int /\ TOTAL_CB \in Int
  BY NicTransmitAssumption DEF TypeOK, Blocks
<1>2. InUse = {c \in Blocks : Gap(a, c) < Gap(a, b)}
  BY <1>1, GapIs DEF InUse
<1>3. CASE a <= b
  <2>1. InUse = a .. b - 1
    BY <1>1, <1>2, <1>3 DEF Gap, Blocks
  <2>2. Cardinality(a .. b - 1) = IF a > b - 1 THEN 0 ELSE (b - 1) - a + 1
    BY <1>1, FS_Interval
  <2>3. Cardinality(InUse) = b - a
    BY <1>1, <1>3, <2>1, <2>2
  <2> QED BY <1>1, <1>2, <1>3, <2>3 DEF Used, Gap
<1>4. CASE a > b
  <2> DEFINE L == a .. TOTAL_CB
             R == 0 .. b - 1
  <2>1. InUse = L \cup R /\ L \cap R = {}
    BY <1>1, <1>2, <1>4 DEF Gap, Blocks
  <2>2. /\ IsFiniteSet(L) /\ IsFiniteSet(R)
        /\ Cardinality(L) = TOTAL_CB - a + 1 /\ Cardinality(R) = b
    <3>1. /\ IsFiniteSet(L)
          /\ Cardinality(L) = IF a > TOTAL_CB THEN 0 ELSE TOTAL_CB - a + 1
      BY <1>1, FS_Interval
    <3> DEFINE e == b - 1
    <3>2. e \in Int /\ 0 \in Int /\ R = 0 .. e
      BY <1>1
    <3> HIDE DEF L, R, e
    <3>3. /\ IsFiniteSet(R)
          /\ Cardinality(R) = IF 0 > e THEN 0 ELSE e - 0 + 1
      BY <3>2, FS_Interval
    <3> QED BY <1>1, <3>1, <3>3 DEF Blocks, e
  <2> HIDE DEF L, R
  <2>3. Cardinality(L \cup R) = Cardinality(L) + Cardinality(R) - Cardinality({})
    BY <2>1, <2>2, FS_Union
  <2>4. Cardinality(InUse) = b - a + (TOTAL_CB + 1)
    BY <1>1, <2>1, <2>2, <2>3, FS_EmptySet
  <2> QED BY <1>1, <1>2, <1>4, <2>4 DEF Used, Gap
<1> QED BY <1>1, <1>3, <1>4

-----------------------------------------------------------------------------
(* Steps that only move a process *)

PcRecords == [at : Places, cb : Blocks, reg : 0 .. TOTAL_CB, ret : {"sleep", "retest"}]

\* p is the only process that moves
Moves(p) ==
  p \in Procs /\ pc' \in [Procs -> PcRecords] /\ \A q \in Procs \ {p} : pc'[q] = pc[q]

\* Who keeps the books keeps them alone, or the model stops.
LEMMA BooksMove ==
  ASSUME IInv, ~Clash, NEW p, Moves(p), InBooks(p),
         InBooks(p)' => (Kept(p) => Kept(p)'),
         ~InBooks(p)' => (Kept(p) => (Used = TOTAL_CB - avail_cb)')
  PROVE  BooksKept' /\ Kept(p)
<1>1. Alone(p) /\ p \in Procs
  BY DEF Clash, Alone, Moves
<1>2. Kept(p)
  BY <1>1 DEF IInv, BooksKept
<1>3. \A q \in Procs \ {p} : ~InBooks(q)'
  BY <1>1 DEF Alone, InBooks, Moves
<1> QED BY <1>1, <1>2, <1>3 DEF BooksKept

\* A process that starts on the books has them alone, or the model stops.
LEMMA BooksEnter ==
  ASSUME IInv, NEW p, Moves(p), ~InBooks(p), InBooks(p)', UNCHANGED Ring,
         Used = TOTAL_CB - avail_cb => Kept(p)'
  PROVE  BooksKept'
<1> SUFFICES ASSUME NEW q \in Procs, InBooks(q)', Alone(q)'
             PROVE  Kept(q)'
  BY DEF BooksKept, Moves
<1>1. q = p
  BY DEF Alone, Moves
<1>2. \A r \in Procs : ~InBooks(r)
  BY <1>1 DEF Alone, InBooks, Moves
<1> QED BY <1>1, <1>2 DEF IInv, BooksKept

\* Other steps leave the books to whoever keeps them.
LEMMA BooksOut ==
  ASSUME IInv, NEW p, Moves(p), ~InBooks(p), ~InBooks(p)', UNCHANGED Ring,
         \A q \in Procs \ {p} : InBooks(q) /\ Kept(q) => Kept(q)'
  PROVE  BooksKept'
<1>1. \A q \in Procs : InBooks(q)' <=> InBooks(q)
  BY DEF InBooks, Moves
<1>2. \A q \in Procs : Alone(q)' => Alone(q)
  BY <1>1 DEF Alone
<1>3. Used' = Used /\ avail_cb' = avail_cb
  BY DEF Used, Gap, Ring
<1> QED BY <1>1, <1>2, <1>3 DEF IInv, BooksKept

\* A step that changes no block, no pointer and nothing that is in hand.
LEMMA MoveOK ==
  ASSUME IInv, NEW p, Moves(p), BooksKept', Placed(p)',
         UNCHANGED <<command, complete, next_cb, cb_to_check, cu, accepted, sent, stranded>>,
         avail_cb' \in 0 .. TOTAL_CB, gen_ptr' \in Pointers,
         Holds(p)' <=> Holds(p), Holds(p) => pc'[p].cb = pc[p].cb,
         pc[p].at \notin {"data", "status", "start", "command"},
         pc'[p].at \notin {"data", "status", "start", "command"}
  PROVE  IInv'
<1>1. TypeOK'
  BY DEF IInv, TypeOK, Moves, PcRecords, Places, Filling
<1>2. \A q \in Procs : Placed(q)'
  <2>1. \A q \in Procs \ {p} : Placed(q)'
    BY DEF IInv, Placed, Moves
  <2> QED BY <2>1
<1>3. \A q \in Procs : (Holds(q)' <=> Holds(q)) /\ (Holds(q) => pc'[q].cb = pc[q].cb)
  BY DEF Holds, Moves
<1>4. \A b \in Blocks : Clean(b) => Clean(b)'
  BY <1>3 DEF Clean
<1>5. FreeClean'
  BY <1>4 DEF IInv, FreeClean, Used, Gap
<1>6. AllInHand'
  <2>1. ASSUME NEW q \in Procs, Holds(q)' PROVE InHand(q)'
    <3>1. Holds(q) /\ InHand(q) /\ pc'[q].cb = pc[q].cb
      BY <1>3, <2>1 DEF IInv, AllInHand
    <3>2. CASE q = p
      <4>1. pc[p].at \in {"available", "decrement", "fill"}
            /\ pc'[p].at \in {"available", "decrement", "fill"}
        BY <2>1, <3>1, <3>2 DEF Holds, Holding
      <4> QED BY <1>3, <3>1, <3>2, <4>1 DEF InHand
    <3>3. CASE q # p
      BY <1>3, <3>1, <3>3 DEF InHand, Moves
    <3> QED BY <3>2, <3>3
  <2> QED BY <2>1 DEF AllInHand
<1>7. CuBusy'
  BY DEF IInv, CuBusy
<1>8. Numbered'
  <2>1. \A q \in Procs : pc'[q].at \in {"status", "start", "command"} <=> pc[q].at \in {"status", "start", "command"}
    BY DEF Moves
  <2>2. \A q, n : SentBelow(q, n)' <=> SentBelow(q, n)
    BY DEF SentBelow
  <2>3. cu.active /\ command[cu.at].op = "tx" => command[cu.at].packet[1] \in Procs
    BY DEF IInv, TypeOK, Commands, CuBusy, Procs
  <2> QED BY <2>1, <2>2, <2>3 DEF IInv, Numbered, Procs
<1>9. SentInOrder'
  BY DEF IInv, SentInOrder
<1> QED BY <1>1, <1>2, <1>5, <1>6, <1>7, <1>8, <1>9 DEF IInv

-----------------------------------------------------------------------------
(* recycle_command_blocks *)

\* What is known of p where it stands.
LEMMA Standing ==
  ASSUME IInv, NEW p \in Procs
  PROVE  /\ pc \in [Procs -> PcRecords] /\ pc[p] \in PcRecords /\ Placed(p)
         /\ avail_cb \in 0 .. TOTAL_CB /\ TOTAL_CB \in Nat /\ Used \in 0 .. TOTAL_CB
         /\ cb_to_check \in Blocks /\ next_cb \in Blocks /\ gen_ptr \in Pointers
BY GapIs, NicTransmitAssumption DEF IInv, TypeOK, PcRecords, Places, Filling, Used

\* nic_tx_daemon wakes up.
LEMMA TxDaemonOK ==
  ASSUME IInv, tx_daemon
  PROVE  IInv'
<1> DEFINE p == TxDaemon
<1>1. p \in Procs
  BY DEF Procs
<1>2. /\ Moves(p) /\ pc'[p].at = "recycle" /\ pc'[p].ret = "sleep" /\ pc[p].at = "sleep"
  BY <1>1, Standing DEF tx_daemon, At, Moves, PcRecords, Places, Filling, Books
<1>3. Placed(p)'
  BY <1>2, NicTransmitAssumption DEF Placed, Recycling
<1>4. BooksKept'
  <2>1. ~InBooks(p) /\ InBooks(p)' /\ UNCHANGED Ring
    BY <1>2 DEF InBooks, Books, tx_daemon
  <2>2. Used = TOTAL_CB - avail_cb => Kept(p)'
    BY <1>2, <2>1 DEF Kept, Used, Gap, Ring
  <2> QED BY <1>2, <2>1, <2>2, BooksEnter
<1>5. ~Holds(p) /\ ~Holds(p)'
  BY <1>2 DEF Holds, Holding
<1> QED
  BY <1>1, <1>2, <1>3, <1>4, <1>5, Standing, MoveOK DEF tx_daemon, Ring, History

\* Is the next block complete?
LEMMA TestOK ==
  ASSUME IInv, ~Clash, NEW p \in Procs, recycle_test(p)
  PROVE  IInv'
<1>1. pc[p].at = "recycle" /\ pc[p].ret = IF p = TxDaemon THEN "sleep" ELSE "retest"
  BY Standing DEF recycle_test, At, Placed, Recycling, Procs
<1>2. /\ Moves(p) /\ pc'[p].ret = pc[p].ret
      /\ pc'[p].at = IF cb_to_check \in complete THEN "clear" ELSE pc[p].ret
  BY <1>1, Standing DEF recycle_test, Goto, Moves, PcRecords, Places, Filling, Books
<1>3. Placed(p)'
  <2>1. Placed(p) /\ accepted' = accepted
    BY Standing DEF recycle_test, History
  <2> QED BY <1>1, <1>2, <2>1, NicTransmitAssumption DEF Placed, Recycling, Books
<1>4. UNCHANGED <<command, complete, next_cb, cb_to_check, avail_cb, cu, gen_ptr, accepted, sent, stranded>>
  BY DEF recycle_test, Ring, History
<1>5. BooksKept'
  <2>1. InBooks(p)
    BY <1>1 DEF InBooks, Books
  <2>2. Used' = Used
    BY <1>4 DEF Used, Gap
  <2>3. Kept(p) => Kept(p)'
    BY <1>1, <1>2, <1>4, <2>2 DEF Kept
  <2>4. Kept(p) => (Used = TOTAL_CB - avail_cb)'
    BY <1>1, <1>4, <2>2 DEF Kept
  <2> QED BY <1>2, <2>1, <2>3, <2>4, BooksMove
<1>6. ~Holds(p) /\ ~Holds(p)' /\ pc'[p].at \notin {"data", "status", "start", "command"}
  BY <1>1, <1>2 DEF Holds, Holding
<1> QED
  BY <1>1, <1>2, <1>3, <1>4, <1>5, <1>6, Standing, MoveOK

\* avail_cb is loaded ...
LEMMA LoadOK ==
  ASSUME IInv, ~Clash, NEW p \in Procs, recycle_load(p)
  PROVE  IInv'
<1>1. pc[p].at = "load"
  BY DEF recycle_load, At
<1>2. /\ Moves(p) /\ pc'[p].ret = pc[p].ret /\ pc'[p].at = "increment"
      /\ pc'[p].reg = avail_cb
  BY <1>1, Standing DEF recycle_load, Moves, PcRecords, Places, Filling, Books
<1>3. Placed(p)'
  <2>1. Placed(p) /\ accepted' = accepted
    BY Standing DEF recycle_load, History
  <2> QED BY <1>1, <1>2, <2>1 DEF Placed, Recycling, Books
<1>4. UNCHANGED <<command, complete, next_cb, cb_to_check, avail_cb, cu, gen_ptr, accepted, sent, stranded>>
  BY DEF recycle_load, Ring, History
<1>5. ~Holds(p) /\ ~Holds(p)'
  BY <1>1, <1>2 DEF Holds, Holding
<1>6. BooksKept'
  <2>1. InBooks(p) /\ InBooks(p)'
    BY <1>1, <1>2 DEF InBooks, Books
  <2>2. Used' = Used
    BY <1>4 DEF Used, Gap
  <2>3. Clean(cb_to_check) => Clean(cb_to_check)'
    BY <1>2, <1>4, <1>5 DEF Clean, Holds, Moves
  <2>4. Kept(p) => Kept(p)'
    BY <1>1, <1>2, <1>4, <2>2, <2>3 DEF Kept
  <2> QED BY <1>2, <2>1, <2>4, BooksMove
<1> QED
  BY <1>1, <1>2, <1>3, <1>4, <1>5, <1>6, Standing, MoveOK

\* ... and stored one higher.
LEMMA IncrementOK ==
  ASSUME IInv, ~Clash, NEW p \in Procs, recycle_increment(p)
  PROVE  IInv'
<1>1. pc[p].at = "increment"
  BY DEF recycle_increment, At
<1>2. /\ Moves(p) /\ pc'[p].ret = pc[p].ret /\ pc'[p].at = "next"
  BY <1>1, Standing DEF recycle_increment, Goto, Moves, PcRecords, Places, Filling, Books
<1>3. Placed(p)'
  <2>1. Placed(p) /\ accepted' = accepted
    BY Standing DEF recycle_increment, History
  <2> QED BY <1>1, <1>2, <2>1 DEF Placed, Recycling, Books
<1>4. /\ UNCHANGED <<command, complete, next_cb, cb_to_check, cu, gen_ptr, accepted, sent, stranded>>
      /\ avail_cb' = pc[p].reg + 1
  BY DEF recycle_increment, History
<1>5. ~Holds(p) /\ ~Holds(p)'
  BY <1>1, <1>2 DEF Holds, Holding
<1>6. BooksKept' /\ Kept(p)
  <2>1. InBooks(p) /\ InBooks(p)'
    BY <1>1, <1>2 DEF InBooks, Books
  <2>2. Used' = Used
    BY <1>4 DEF Used, Gap
  <2>3. Clean(cb_to_check) => Clean(cb_to_check)'
    BY <1>2, <1>4, <1>5 DEF Clean, Holds, Moves
  <2>4. Kept(p) => Kept(p)'
    <3>1. avail_cb \in Int /\ TOTAL_CB \in Int
      BY Standing
    <3> QED BY <1>1, <1>2, <1>4, <2>2, <2>3, <3>1 DEF Kept
  <2> QED BY <1>2, <2>1, <2>4, BooksMove
<1>7. avail_cb' \in 0 .. TOTAL_CB
  <2>1. Used = TOTAL_CB - avail_cb /\ Used > 0 /\ pc[p].reg = avail_cb
    BY <1>1, <1>6 DEF Kept
  <2>2. avail_cb \in 0 .. TOTAL_CB /\ TOTAL_CB \in Nat
    BY Standing
  <2> QED BY <1>4, <2>1, <2>2
<1> QED
  BY <1>1, <1>2, <1>3, <1>4, <1>5, <1>6, <1>7, Standing, MoveOK

\* The status and the command of a complete block are cleared.
LEMMA ClearOK ==
  ASSUME IInv, ~Clash, NEW p \in Procs, recycle_clear(p)
  PROVE  IInv'
<1> DEFINE c == cb_to_check
<1>1. pc[p].at = "clear"
  BY DEF recycle_clear, At
<1>2. /\ Moves(p) /\ pc'[p].ret = pc[p].ret /\ pc'[p].at = "load"
  BY <1>1, Standing DEF recycle_clear, Goto, Moves, PcRecords, Places, Filling, Books
<1>3. /\ UNCHANGED <<next_cb, cb_to_check, avail_cb, cu, gen_ptr, accepted, sent, stranded>>
      /\ complete' = complete \ {c}
      /\ \A b \in Blocks : command'[b] = IF b = c THEN NoCommand ELSE command[b]
      /\ command' \in [Blocks -> Commands] /\ c \in Blocks
  <2>1. NoCommand \in Commands
    BY DEF NoCommand, Command, Commands
  <2> QED BY <2>1 DEF recycle_clear, Ring, History, IInv, TypeOK
<1>4. ~Holds(p) /\ ~Holds(p)' /\ InBooks(p) /\ InBooks(p)'
  BY <1>1, <1>2 DEF Holds, Holding, InBooks, Books
<1>5. \A q \in Procs : (Holds(q)' <=> Holds(q)) /\ (Holds(q) => pc'[q] = pc[q])
  BY <1>2, <1>4 DEF Holds, Moves
<1>6. c \in complete
  <2>1. Alone(p)
    BY <1>4 DEF Clash, Alone
  <2> QED BY <1>1, <1>4, <2>1 DEF IInv, BooksKept, Kept
<1>7. /\ \A q \in Procs : Holds(q) => pc[q].cb # c /\ pc[q].cb \in Blocks
      /\ cu.active => cu.at # c /\ cu.at \in Blocks
  BY <1>6, Standing DEF IInv, AllInHand, InHand, CuBusy, PcRecords, TypeOK
<1>8. \A b \in Blocks : Clean(b) \/ b = c => Clean(b)'
  BY <1>3, <1>5, <1>7 DEF Clean
<1>9. Used' = Used /\ Used \in Int
  BY <1>3, Standing DEF Used, Gap
<1>10. Used > 0
  <2>1. Gap(c, c) = 0
    BY <1>3, GapSteps
  <2>2. Gap(c, c) >= Used => Clean(c)
    BY <1>3 DEF IInv, FreeClean
  <2> QED BY <1>6, <1>9, <2>1, <2>2 DEF Clean
<1>11. BooksKept'
  <2>1. Kept(p) => Kept(p)'
    BY <1>1, <1>2, <1>3, <1>8, <1>9, <1>10 DEF Kept
  <2> QED BY <1>2, <1>4, <2>1, BooksMove
<1>12. TypeOK'
  BY <1>2, <1>3 DEF IInv, TypeOK, Moves, PcRecords, Places, Filling
<1>13. \A q \in Procs : Placed(q)'
  BY <1>1, <1>2, <1>3 DEF IInv, Placed, Moves, Recycling, Books
<1>14. FreeClean'
  BY <1>3, <1>8, <1>9 DEF IInv, FreeClean, Gap
<1>15. AllInHand'
  <2>1. ASSUME NEW q \in Procs, Holds(q)' PROVE InHand(q)'
    <3>1. Holds(q) /\ InHand(q) /\ pc'[q] = pc[q] /\ pc[q].cb \in Blocks \ {c}
      BY <1>5, <1>7, <2>1 DEF IInv, AllInHand
    <3>2. command'[pc[q].cb] = command[pc[q].cb]
      BY <1>3, <3>1
    <3> QED BY <1>3, <1>5, <3>1, <3>2 DEF InHand
  <2> QED BY <2>1 DEF AllInHand
<1>16. CuBusy'
  <2> SUFFICES ASSUME cu.active PROVE CuBusy'
    BY <1>3 DEF CuBusy
  <2>1. command'[cu.at] = command[cu.at] /\ cu.at \notin complete'
    BY <1>3, <1>7 DEF IInv, CuBusy
  <2>2. ~command[cu.at].el => /\ cu.at = 0 /\ c = 0
    BY DEF IInv, CuBusy
  <2>3. command[cu.at].el
    BY <1>7, <2>2 DEF IInv, TypeOK, Commands
  <2> QED BY <1>3, <2>1, <2>3 DEF IInv, CuBusy
<1>17. Numbered' /\ SentInOrder'
  <2>1. \A q \in Procs : pc'[q].at \in {"status", "start", "command"} <=> pc[q].at \in {"status", "start", "command"}
    BY <1>1, <1>2 DEF Moves
  <2>2. \A q, n : SentBelow(q, n)' <=> SentBelow(q, n)
    BY <1>3 DEF SentBelow
  <2>3. cu.active /\ command[cu.at].op = "tx" => command[cu.at].packet[1] \in Procs
    BY DEF IInv, TypeOK, Commands, CuBusy, Procs
  <2>4. cu.active => command'[cu.at] = command[cu.at]
    BY <1>3, <1>7
  <2> QED BY <1>3, <2>1, <2>2, <2>3, <2>4 DEF IInv, Numbered, SentInOrder, Procs
<1> QED BY <1>11, <1>12, <1>13, <1>14, <1>15, <1>16, <1>17 DEF IInv

\* cb_to_check moves on, over a block that is clean by now.
LEMMA NextOK ==
  ASSUME IInv, ~Clash, NEW p \in Procs, recycle_next(p)
  PROVE  IInv'
<1> DEFINE c == cb_to_check
<1>1. pc[p].at = "next"
  BY DEF recycle_next, At
<1>2. /\ Moves(p) /\ pc'[p].ret = pc[p].ret /\ pc'[p].at = "recycle"
  BY <1>1, Standing DEF recycle_next, Goto, Moves, PcRecords, Places, Filling, Books
<1>3. /\ UNCHANGED <<command, complete, next_cb, avail_cb, cu, gen_ptr, accepted, sent, stranded>>
      /\ cb_to_check' = link(c) /\ c \in Blocks /\ link(c) \in Blocks /\ next_cb \in Blocks
  BY LinkIs DEF recycle_next, Ring, History, IInv, TypeOK
<1>4. ~Holds(p) /\ ~Holds(p)' /\ InBooks(p) /\ InBooks(p)'
  BY <1>1, <1>2 DEF Holds, Holding, InBooks, Books
<1>5. \A q \in Procs : (Holds(q)' <=> Holds(q)) /\ (Holds(q) => pc'[q] = pc[q])
  BY <1>2, <1>4 DEF Holds, Moves
<1>6. Used > 0 /\ Clean(c) /\ Used = TOTAL_CB - avail_cb + 1
  <2>1. Alone(p)
    BY <1>4 DEF Clash, Alone
  <2> QED BY <1>1, <1>4, <2>1 DEF IInv, BooksKept, Kept
<1>7. Used' = Used - 1 /\ Used \in Int /\ avail_cb \in Int /\ TOTAL_CB \in Int
  BY <1>3, <1>6, GapSteps, Standing DEF Used
<1>8. \A b \in Blocks : Clean(b) => Clean(b)'
  BY <1>3, <1>5 DEF Clean
<1>9. FreeClean'
  <2>1. \A b \in Blocks : Gap(link(c), b) = IF b = c THEN TOTAL_CB ELSE Gap(c, b) - 1
    BY <1>3, <1>6, GapSteps DEF Used
  <2>2. \A b \in Blocks : Gap(c, b) \in Int
    BY <1>3, GapIs
  <2>3. \A b \in Blocks : Gap(c, b) >= Used => Clean(b)
    BY DEF IInv, FreeClean
  <2>4. ASSUME NEW b \in Blocks, Gap(link(c), b) >= Used - 1 PROVE Clean(b)
    <3>1. CASE b = c
      BY <1>6, <3>1
    <3>2. CASE b # c
      <4>1. Gap(c, b) >= Used
        BY <1>7, <2>1, <2>2, <2>4, <3>2
      <4> QED BY <2>3, <4>1
    <3> QED BY <3>1, <3>2
  <2>5. \A b : Gap(cb_to_check, b)' = Gap(link(c), b)
    BY <1>3 DEF Gap
  <2> QED BY <1>7, <1>8, <2>4, <2>5 DEF FreeClean
<1>10. BooksKept'
  <2>1. Kept(p) => Kept(p)'
    BY <1>1, <1>2, <1>3, <1>7 DEF Kept
  <2> QED BY <1>2, <1>4, <2>1, BooksMove
<1>11. TypeOK'
  BY <1>2, <1>3 DEF IInv, TypeOK, Moves, PcRecords, Places, Filling
<1>12. \A q \in Procs : Placed(q)'
  BY <1>1, <1>2, <1>3 DEF IInv, Placed, Moves, Recycling, Books
<1>13. AllInHand'
  BY <1>3, <1>5, ZenonT(60) DEF IInv, AllInHand, InHand
<1>14. CuBusy'
  BY <1>3, <1>6 DEF IInv, CuBusy, Clean
<1>15. Numbered' /\ SentInOrder'
  <2>1. \A q \in Procs : pc'[q].at \in {"status", "start", "command"} <=> pc[q].at \in {"status", "start", "command"}
    BY <1>1, <1>2 DEF Moves
  <2>2. \A q, n : SentBelow(q, n)' <=> SentBelow(q, n)
    BY <1>3 DEF SentBelow
  <2>3. cu.active /\ command[cu.at].op = "tx" => command[cu.at].packet[1] \in Procs
    BY DEF IInv, TypeOK, Commands, CuBusy, Procs
  <2> QED BY <1>3, <2>1, <2>2, <2>3 DEF IInv, Numbered, SentInOrder, Procs
<1> QED BY <1>9, <1>10, <1>11, <1>12, <1>13, <1>14, <1>15 DEF IInv

-----------------------------------------------------------------------------
(* get_next_cb *)

\* send_packet finds a block available, or recycles first.
LEMMA SendOK ==
  ASSUME IInv, NEW p \in Senders, send_packet(p)
  PROVE  IInv'
<1>1. pc[p].at = "idle" /\ p \in Procs /\ p # TxDaemon
  BY NicTransmitAssumption DEF send_packet, At, Procs
<1>2. /\ Moves(p) /\ pc'[p].at = IF avail_cb = 0 THEN "recycle" ELSE "take"
      /\ avail_cb = 0 => pc'[p].ret = "retest"
  <2>1. pc \in [Procs -> PcRecords]
    BY <1>1, Standing
  <2> QED BY <1>1, <2>1, ZenonT(60) DEF send_packet, Moves, PcRecords, Places, Filling, Books
<1>3. UNCHANGED <<command, complete, next_cb, cb_to_check, avail_cb, cu, gen_ptr, accepted, sent, stranded>>
  BY DEF send_packet, Ring, History
<1>4. Placed(p)'
  BY <1>1, <1>2, <1>3 DEF Placed, Recycling, Books, send_packet
<1>5. ~Holds(p) /\ ~Holds(p)' /\ ~InBooks(p) /\ InBooks(p)'
  BY <1>1, <1>2 DEF Holds, Holding, InBooks, Books
<1>6. avail_cb \in 0 .. TOTAL_CB
  BY <1>1, Standing
<1>7. BooksKept'
  <2>1. Used' = Used /\ UNCHANGED Ring
    BY <1>3 DEF Used, Gap, Ring
  <2>2. Used = TOTAL_CB - avail_cb => Kept(p)'
    BY <1>2, <1>3, <1>6, <2>1 DEF Kept
  <2> QED BY <1>2, <1>5, <2>1, <2>2, BooksEnter
<1> QED BY <1>1, <1>2, <1>3, <1>4, <1>5, <1>6, <1>7, Standing, MoveOK

\* After recycling it looks again.
LEMMA RetestOK ==
  ASSUME IInv, ~Clash, NEW p \in Senders, get_next_cb_retest(p)
  PROVE  IInv'
<1>1. pc[p].at = "retest" /\ p \in Procs /\ p # TxDaemon
  BY NicTransmitAssumption DEF get_next_cb_retest, At, Procs
<1>2. /\ Moves(p) /\ pc'[p].at = IF avail_cb = 0 THEN "idle" ELSE "take"
  <2>1. pc \in [Procs -> PcRecords]
    BY <1>1, Standing
  <2> QED BY <1>1, <2>1 DEF get_next_cb_retest, Goto, Moves, PcRecords, Places, Filling, Books
<1>3. UNCHANGED <<command, complete, next_cb, cb_to_check, avail_cb, cu, gen_ptr, accepted, sent, stranded>>
  BY DEF get_next_cb_retest, Ring, History
<1>4. Placed(p)'
  <2>1. Placed(p)
    BY <1>1, Standing
  <2> QED BY <1>1, <1>2, <1>3, <2>1 DEF Placed, Recycling, Books
<1>5. ~Holds(p) /\ ~Holds(p)' /\ InBooks(p)
  BY <1>1, <1>2 DEF Holds, Holding, InBooks, Books
<1>6. avail_cb \in 0 .. TOTAL_CB
  BY <1>1, Standing
<1>7. BooksKept'
  <2>1. Used' = Used
    BY <1>3 DEF Used, Gap
  <2>2. Kept(p) => Kept(p)'
    BY <1>1, <1>2, <1>3, <1>6, <2>1 DEF Kept
  <2>3. Kept(p) => (Used = TOTAL_CB - avail_cb)'
    BY <1>1, <1>3, <2>1 DEF Kept
  <2> QED BY <1>2, <1>5, <2>2, <2>3, BooksMove
<1> QED BY <1>1, <1>2, <1>3, <1>4, <1>5, <1>6, <1>7, Standing, MoveOK

\* It takes the block at next_cb ...
LEMMA TakeOK ==
  ASSUME IInv, ~Clash, NEW p \in Senders, get_next_cb_take(p)
  PROVE  IInv'
<1>1. pc[p].at = "take" /\ p \in Procs /\ p # TxDaemon
  BY NicTransmitAssumption DEF get_next_cb_take, At, Procs
<1>2. /\ Moves(p) /\ pc'[p].at = "advance" /\ pc'[p].cb = next_cb
  <2>1. pc \in [Procs -> PcRecords] /\ next_cb \in Blocks
    BY <1>1, Standing
  <2> QED BY <1>1, <2>1, ZenonT(60) DEF get_next_cb_take, Moves, PcRecords, Places, Filling, Books
<1>3. UNCHANGED <<command, complete, next_cb, cb_to_check, avail_cb, cu, gen_ptr, accepted, sent, stranded>>
  BY DEF get_next_cb_take, Ring, History
<1>4. Placed(p)'
  <2>1. Placed(p)
    BY <1>1, Standing
  <2> QED BY <1>1, <1>2, <1>3, <2>1 DEF Placed, Recycling, Books
<1>5. ~Holds(p) /\ ~Holds(p)' /\ InBooks(p) /\ InBooks(p)'
  BY <1>1, <1>2 DEF Holds, Holding, InBooks, Books
<1>6. avail_cb \in 0 .. TOTAL_CB
  BY <1>1, Standing
<1>7. BooksKept'
  <2>1. Used' = Used
    BY <1>3 DEF Used, Gap
  <2>2. Kept(p) => Kept(p)'
    BY <1>1, <1>2, <1>3, <2>1 DEF Kept
  <2> QED BY <1>2, <1>5, <2>2, BooksMove
<1> QED BY <1>1, <1>2, <1>3, <1>4, <1>5, <1>6, <1>7, Standing, MoveOK

\* ... moves next_cb past it ...
LEMMA AdvanceOK ==
  ASSUME IInv, ~Clash, NEW p \in Senders, get_next_cb_advance(p)
  PROVE  IInv'
<1> DEFINE n == next_cb
<1>1. pc[p].at = "advance" /\ p \in Procs /\ p # TxDaemon
  BY NicTransmitAssumption DEF get_next_cb_advance, At, Procs
<1>2. /\ Moves(p) /\ pc'[p].at = "available" /\ pc'[p].cb = pc[p].cb
  <2>1. pc \in [Procs -> PcRecords]
    BY <1>1, Standing
  <2> QED BY <1>1, <2>1 DEF get_next_cb_advance, Goto, Moves, PcRecords, Places, Filling, Books
<1>3. ~Holds(p) /\ Holds(p)' /\ InBooks(p) /\ InBooks(p)'
  BY <1>1, <1>2 DEF Holds, Holding, InBooks, Books
<1>4. Used = TOTAL_CB - avail_cb /\ avail_cb > 0 /\ pc[p].cb = n
  <2>1. Alone(p)
    BY <1>1, <1>3 DEF Clash, Alone
  <2> QED BY <1>1, <1>3, <2>1 DEF IInv, BooksKept, Kept
<1>5. /\ UNCHANGED <<command, complete, cb_to_check, avail_cb, cu, gen_ptr, accepted, sent, stranded>>
      /\ next_cb' = link(n) /\ n \in Blocks /\ link(n) \in Blocks /\ cb_to_check \in Blocks
  BY <1>4, LinkIs DEF get_next_cb_advance, Ring, History, IInv, TypeOK
<1>6. Used' = Used + 1 /\ Used \in Int /\ avail_cb \in Int /\ TOTAL_CB \in Int
  <2>1. Used < TOTAL_CB /\ Used \in Int /\ avail_cb \in Int /\ TOTAL_CB \in Int
    BY <1>1, <1>4, Standing
  <2> QED BY <1>5, <2>1, GapSteps DEF Used
<1>7. Clean(n)
  BY <1>5, <1>6 DEF IInv, FreeClean, Used
<1>8. \A q \in Procs \ {p} : /\ Holds(q)' <=> Holds(q)
                             /\ pc'[q] = pc[q] /\ (Holds(q) => pc[q].cb # n)
  BY <1>2, <1>7 DEF Holds, Moves, Clean
<1>9. FreeClean'
  <2>1. ASSUME NEW b \in Blocks, (Gap(cb_to_check, b) >= Used)' PROVE Clean(b)'
    <3>1. Gap(cb_to_check, b) >= Used + 1 /\ Gap(cb_to_check, b) \in Int
      BY <1>5, <1>6, <2>1, GapIs DEF Gap
    <3>2. b # n /\ Clean(b)
      BY <1>5, <1>6, <3>1 DEF IInv, FreeClean, Used
    <3> QED BY <1>2, <1>4, <1>5, <1>8, <3>2 DEF Clean
  <2> QED BY <2>1 DEF FreeClean
<1>10. BooksKept'
  <2>1. Kept(p) => Kept(p)'
    BY <1>1, <1>2, <1>4, <1>5, <1>6 DEF Kept
  <2> QED BY <1>2, <1>3, <2>1, BooksMove
<1>11. TypeOK'
  BY <1>2, <1>5 DEF IInv, TypeOK, Moves, PcRecords, Places, Filling
<1>12. \A q \in Procs : Placed(q)'
  BY <1>1, <1>2, <1>5 DEF IInv, Placed, Moves, Recycling, Books
<1>13. AllInHand'
  <2>1. InHand(p)'
    BY <1>2, <1>4, <1>5, <1>7, <1>8 DEF InHand, Clean
  <2>2. ASSUME NEW q \in Procs \ {p}, Holds(q)' PROVE InHand(q)'
    <3>1. Holds(q) /\ InHand(q)
      BY <1>8, <2>2 DEF IInv, AllInHand
    <3>2. \A r \in Procs \ {q} : Holds(r)' => pc'[r].cb # pc[q].cb
      BY <1>2, <1>4, <1>8, <3>1 DEF InHand
    <3> QED BY <1>5, <1>8, <3>1, <3>2 DEF InHand
  <2> QED BY <2>1, <2>2 DEF AllInHand
<1>14. CuBusy'
  BY <1>5 DEF IInv, CuBusy
<1>15. Numbered' /\ SentInOrder'
  <2>1. \A q \in Procs : pc'[q].at \in {"status", "start", "command"} <=> pc[q].at \in {"status", "start", "command"}
    BY <1>1, <1>2 DEF Moves
  <2>2. \A q, m : SentBelow(q, m)' <=> SentBelow(q, m)
    BY <1>5 DEF SentBelow
  <2>3. cu.active /\ command[cu.at].op = "tx" => command[cu.at].packet[1] \in Procs
    BY DEF IInv, TypeOK, Commands, CuBusy, Procs
  <2> QED BY <1>5, <2>1, <2>2, <2>3 DEF IInv, Numbered, SentInOrder, Procs
<1> QED BY <1>9, <1>10, <1>11, <1>12, <1>13, <1>14, <1>15 DEF IInv

\* ... loads avail_cb ...
LEMMA AvailableOK ==
  ASSUME IInv, ~Clash, NEW p \in Senders, get_next_cb_load(p)
  PROVE  IInv'
<1>1. pc[p].at = "available" /\ p \in Procs /\ p # TxDaemon
  BY NicTransmitAssumption DEF get_next_cb_load, At, Procs
<1>2. /\ Moves(p) /\ pc'[p].at = "decrement" /\ pc'[p].cb = pc[p].cb /\ pc'[p].reg = avail_cb
  <2>1. pc \in [Procs -> PcRecords] /\ avail_cb \in 0 .. TOTAL_CB
    BY <1>1, Standing
  <2> QED BY <1>1, <2>1 DEF get_next_cb_load, Moves, PcRecords, Places, Filling, Books
<1>3. UNCHANGED <<command, complete, next_cb, cb_to_check, avail_cb, cu, gen_ptr, accepted, sent, stranded>>
  BY DEF get_next_cb_load, Ring, History
<1>4. Placed(p)'
  <2>1. Placed(p)
    BY <1>1, Standing
  <2> QED BY <1>1, <1>2, <1>3, <2>1 DEF Placed, Recycling, Books
<1>5. Holds(p) /\ Holds(p)' /\ InBooks(p) /\ InBooks(p)'
  BY <1>1, <1>2 DEF Holds, Holding, InBooks, Books
<1>6. avail_cb \in 0 .. TOTAL_CB
  BY <1>1, Standing
<1>7. BooksKept'
  <2>1. Used' = Used
    BY <1>3 DEF Used, Gap
  <2>2. Kept(p) => Kept(p)'
    BY <1>1, <1>2, <1>3, <2>1 DEF Kept
  <2> QED BY <1>2, <1>5, <2>2, BooksMove
<1> QED BY <1>1, <1>2, <1>3, <1>4, <1>5, <1>6, <1>7, Standing, MoveOK

\* ... and stores it one lower: now it has its block, and the books are done.
LEMMA DecrementOK ==
  ASSUME IInv, ~Clash, NEW p \in Senders, get_next_cb_decrement(p)
  PROVE  IInv'
<1>1. pc[p].at = "decrement" /\ p \in Procs /\ p # TxDaemon
  BY NicTransmitAssumption DEF get_next_cb_decrement, At, Procs
<1>2. /\ Moves(p) /\ pc'[p].at = "fill" /\ pc'[p].cb = pc[p].cb
  <2>1. pc \in [Procs -> PcRecords]
    BY <1>1, Standing
  <2> QED BY <1>1, <2>1 DEF get_next_cb_decrement, Goto, Moves, PcRecords, Places, Filling, Books
<1>3. /\ UNCHANGED <<command, complete, next_cb, cb_to_check, cu, gen_ptr, accepted, sent, stranded>>
      /\ avail_cb' = pc[p].reg - 1
  BY DEF get_next_cb_decrement, History
<1>4. Placed(p)'
  <2>1. Placed(p)
    BY <1>1, Standing
  <2> QED BY <1>1, <1>2, <1>3, <2>1 DEF Placed, Recycling, Books
<1>5. Holds(p) /\ Holds(p)' /\ InBooks(p) /\ ~InBooks(p)'
  BY <1>1, <1>2 DEF Holds, Holding, InBooks, Books
<1>6. avail_cb \in 0 .. TOTAL_CB /\ TOTAL_CB \in Nat
  BY <1>1, Standing
<1>7. BooksKept' /\ Kept(p)
  <2>1. Used' = Used
    BY <1>3 DEF Used, Gap
  <2>2. Kept(p) => (Used = TOTAL_CB - avail_cb)'
    BY <1>1, <1>3, <1>6, <2>1 DEF Kept
  <2> QED BY <1>2, <1>5, <2>2, BooksMove
<1>8. avail_cb' \in 0 .. TOTAL_CB
  <2>1. pc[p].reg = avail_cb /\ avail_cb > 0
    BY <1>1, <1>7 DEF Kept
  <2> QED BY <1>3, <1>6, <2>1
<1> QED BY <1>1, <1>2, <1>3, <1>4, <1>5, <1>7, <1>8, Standing, MoveOK

-----------------------------------------------------------------------------
(* send_packet with a block in hand *)

\* What p does to its own block disturbs nobody.
LEMMA OwnBlock ==
  ASSUME IInv, NEW p \in Senders, Moves(p), Holds(p), ~InBooks(p), ~InBooks(p)',
         Holds(p)' => pc'[p].cb = pc[p].cb,
         UNCHANGED <<complete, next_cb, cb_to_check, avail_cb, cu, sent>>, gen_ptr' \in Pointers,
         command' \in [Blocks -> Commands],
         \A b \in Blocks \ {pc[p].cb} : command'[b] = command[b],
         stranded' \subseteq Blocks, accepted' \in [Senders -> 0 .. MaxPackets],
         \A q \in Senders \ {p} : accepted'[q] = accepted[q]
  PROVE  /\ TypeOK' /\ FreeClean' /\ BooksKept' /\ CuBusy' /\ SentInOrder'
         /\ \A q \in Procs \ {p} : Placed(q)' /\ (Holds(q)' => InHand(q)')
         /\ cu.active => cu.at # pc[p].cb /\ command'[cu.at] = command[cu.at]
<1> DEFINE c == pc[p].cb
<1>1. p \in Procs /\ c \in Blocks /\ InHand(p)
  <2>1. p \in Procs
    BY DEF Procs
  <2> QED BY <2>1, Standing DEF IInv, AllInHand, PcRecords
<1>2. \A q \in Procs \ {p} : /\ Holds(q)' <=> Holds(q)
                             /\ pc'[q] = pc[q] /\ (Holds(q) => pc[q].cb # c)
  BY <1>1 DEF Holds, Moves, InHand
<1>3. \A b \in Blocks : Clean(b) => b # c /\ Clean(b)'
  <2>1. ASSUME NEW b \in Blocks, Clean(b) PROVE b # c /\ Clean(b)'
    <3>1. b # c
      BY <1>1, <2>1 DEF Clean
    <3> QED BY <1>1, <1>2, <2>1, <3>1 DEF Clean
  <2> QED BY <2>1
<1>4. Used' = Used
  BY DEF Used, Gap
<1>5. FreeClean'
  BY <1>3, <1>4 DEF IInv, FreeClean, Gap
<1>6. BooksKept'
  <2>1. UNCHANGED Ring /\ cb_to_check \in Blocks
    BY DEF Ring, IInv, TypeOK
  <2>2. \A q \in Procs \ {p} : InBooks(q) /\ Kept(q) => Kept(q)'
    BY <1>2, <1>3, <1>4, <2>1 DEF Kept
  <2> QED BY <2>1, <2>2, BooksOut
<1>7. cu.active => cu.at # c /\ command'[cu.at] = command[cu.at]
  BY <1>1 DEF InHand, IInv, TypeOK
<1>8. CuBusy'
  <2>1. command[c].op # "ia"
    BY <1>1 DEF InHand, Holds, Holding, NoCommand, Command
  <2>2. command[1] = Command("ia", TRUE, NoPacket) => command'[1] = command[1]
    <3>1. 1 \in Blocks
      BY NicTransmitAssumption DEF Blocks
    <3> QED BY <2>1, <3>1 DEF Command
  <2> QED BY <1>7, <2>2 DEF IInv, CuBusy
<1>9. ASSUME NEW q \in Procs \ {p} PROVE Placed(q)' /\ (Holds(q)' => InHand(q)')
  <2>1. pc'[q] = pc[q] /\ (q \in Senders => accepted'[q] = accepted[q]) /\ Placed(q)
    BY <1>2 DEF IInv
  <2>2. Placed(q)'
    BY <2>1 DEF Placed
  <2>3. ASSUME Holds(q)' PROVE InHand(q)'
    <3>1. Holds(q) /\ InHand(q) /\ pc[q].cb # c /\ pc[q].cb \in Blocks /\ q \in Senders
      <4>1. Holds(q) /\ InHand(q) /\ pc[q].cb # c /\ pc[q].cb \in Blocks
        BY <1>2, <2>3, Standing DEF IInv, AllInHand, PcRecords
      <4>2. q # TxDaemon
        BY <2>1, <4>1 DEF Placed, Holds, Holding, Recycling
      <4> QED BY <4>1, <4>2 DEF Procs
    <3>2. command'[pc[q].cb] = command[pc[q].cb] /\ accepted'[q] = accepted[q]
      BY <2>1, <3>1
    <3>3. \A r \in Procs \ {q} : Holds(r)' => pc'[r].cb # pc[q].cb
      BY <1>2, <3>1 DEF InHand
    <3> QED BY <2>1, <3>1, <3>2, <3>3 DEF InHand
  <2> QED BY <2>2, <2>3
<1>10. TypeOK'
  BY DEF IInv, TypeOK, Moves, PcRecords, Places, Filling
<1>11. SentInOrder'
  BY DEF IInv, SentInOrder
<1> QED BY <1>5, <1>6, <1>7, <1>8, <1>9, <1>10, <1>11

\* The command is written.
LEMMA FillCommandOK ==
  ASSUME IInv, NEW p \in Senders, fill_command(p)
  PROVE  IInv'
<1> DEFINE c == pc[p].cb
           tx == Command("tx", TRUE, NoPacket)
<1>1. pc[p].at = "fill" /\ p \in Procs /\ p # TxDaemon /\ c \in Blocks
  <2>1. pc[p].at = "fill" /\ p \in Procs /\ p # TxDaemon
    BY NicTransmitAssumption DEF fill_command, At, Procs
  <2> QED BY <2>1, Standing DEF PcRecords
<1>2. Moves(p) /\ pc'[p].at = "data" /\ pc'[p].cb = c
  <2>1. pc \in [Procs -> PcRecords]
    BY <1>1, Standing
  <2> QED BY <1>1, <2>1 DEF fill_command, Goto, Moves, PcRecords, Places, Filling, Books
<1>3. /\ UNCHANGED <<complete, next_cb, cb_to_check, avail_cb, cu, gen_ptr, accepted, sent, stranded>>
      /\ command' = [command EXCEPT ![c] = tx]
  BY DEF fill_command, Ring, History
<1>4. /\ command' \in [Blocks -> Commands] /\ command'[c] = tx
      /\ \A b \in Blocks \ {c} : command'[b] = command[b]
  <2>1. tx \in Commands
    BY DEF Command, Commands
  <2> HIDE DEF tx
  <2> QED BY <1>1, <1>3, <2>1 DEF IInv, TypeOK
<1>5. Holds(p) /\ Holds(p)' /\ ~InBooks(p) /\ ~InBooks(p)'
  BY <1>1, <1>2 DEF Holds, Holding, InBooks, Books
<1>6. /\ stranded' \subseteq Blocks /\ gen_ptr' \in Pointers /\ accepted' \in [Senders -> 0 .. MaxPackets]
      /\ \A q \in Senders \ {p} : accepted'[q] = accepted[q]
  BY <1>3 DEF IInv, TypeOK
<1>7. /\ TypeOK' /\ FreeClean' /\ BooksKept' /\ CuBusy' /\ SentInOrder'
      /\ \A q \in Procs \ {p} : Placed(q)' /\ (Holds(q)' => InHand(q)')
      /\ cu.active => cu.at # pc[p].cb /\ command'[cu.at] = command[cu.at]
  BY <1>2, <1>3, <1>4, <1>5, <1>6, OwnBlock
<1>8. Placed(p)'
  <2>1. Placed(p)
    BY <1>1, Standing
  <2> QED BY <1>1, <1>2, <1>3, <2>1 DEF Placed, Recycling, Books
<1>9. InHand(p)'
  <2>1. InHand(p)
    BY <1>1, <1>5 DEF IInv, AllInHand
  <2>2. \A q \in Procs \ {p} : pc'[q] = pc[q] /\ (Holds(q)' <=> Holds(q))
    BY <1>2 DEF Moves, Holds
  <2> QED BY <1>2, <1>3, <1>4, <2>1, <2>2 DEF InHand
<1>10. Numbered'
  <2>1. \A q \in Procs : pc'[q].at \in {"status", "start", "command"} <=> pc[q].at \in {"status", "start", "command"}
    BY <1>1, <1>2 DEF Moves
  <2>2. \A q, m : SentBelow(q, m)' <=> SentBelow(q, m)
    BY <1>3 DEF SentBelow
  <2>3. cu.active /\ command[cu.at].op = "tx" => command[cu.at].packet[1] \in Procs
    BY DEF IInv, TypeOK, Commands, CuBusy, Procs
  <2> QED BY <1>3, <1>7, <2>1, <2>2, <2>3 DEF IInv, Numbered, Procs
<1>11. AllInHand' /\ \A q \in Procs : Placed(q)'
  BY <1>7, <1>8, <1>9 DEF AllInHand
<1> QED BY <1>7, <1>10, <1>11 DEF IInv

\* The frame is copied.
LEMMA FillDataOK ==
  ASSUME IInv, NEW p \in Senders, fill_data(p)
  PROVE  IInv'
<1> DEFINE c == pc[p].cb
           n == accepted[p] + 1
           tx == Command("tx", TRUE, <<p, n>>)
<1>1. pc[p].at = "data" /\ p \in Procs /\ p # TxDaemon /\ c \in Blocks /\ Placed(p)
  <2>1. pc[p].at = "data" /\ p \in Procs /\ p # TxDaemon
    BY NicTransmitAssumption DEF fill_data, At, Procs
  <2> QED BY <2>1, Standing DEF PcRecords
<1>2. Moves(p) /\ pc'[p].at = "status" /\ pc'[p].cb = c
  <2>1. pc \in [Procs -> PcRecords]
    BY <1>1, Standing
  <2> QED BY <1>1, <2>1 DEF fill_data, Goto, Moves, PcRecords, Places, Filling, Books
<1>3. /\ UNCHANGED <<complete, next_cb, cb_to_check, avail_cb, cu, gen_ptr, sent, stranded>>
      /\ command' = [command EXCEPT ![c].packet = <<p, n>>]
      /\ accepted' = [accepted EXCEPT ![p] = n]
  BY DEF fill_data, Ring
<1>4. n \in 1 .. MaxPackets /\ accepted \in [Senders -> 0 .. MaxPackets]
  <2>1. accepted[p] < MaxPackets
    BY <1>1 DEF Placed
  <2>2. accepted[p] \in 0 .. MaxPackets /\ accepted \in [Senders -> 0 .. MaxPackets]
    BY DEF IInv, TypeOK
  <2> QED BY <2>1, <2>2, NicTransmitAssumption
<1>5. Holds(p) /\ Holds(p)' /\ ~InBooks(p) /\ ~InBooks(p)'
  BY <1>1, <1>2 DEF Holds, Holding, InBooks, Books
<1>6. InHand(p)
  BY <1>1, <1>5 DEF IInv, AllInHand
<1>7. /\ command' \in [Blocks -> Commands] /\ command'[c] = tx
      /\ \A b \in Blocks \ {c} : command'[b] = command[b]
  <2>1. tx \in Commands
    BY <1>4 DEF Command, Commands
  <2>2. command \in [Blocks -> Commands] /\ command[c] = Command("tx", TRUE, NoPacket)
    BY <1>1, <1>6 DEF IInv, TypeOK, InHand
  <2>3. [command[c] EXCEPT !.packet = <<p, n>>] = tx
    <3> DEFINE k == <<p, n>>
               el == TRUE
    <3>1. command[c] = Command("tx", el, NoPacket) /\ tx = Command("tx", el, k)
      BY <2>2
    <3> HIDE DEF k, el
    <3>2. [Command("tx", el, NoPacket) EXCEPT !.packet = k] = Command("tx", el, k)
      BY DEF Command
    <3>3. [command[c] EXCEPT !.packet = k] = tx
      BY <3>1, <3>2
    <3> QED BY <3>3 DEF k
  <2>4. command' = [command EXCEPT ![c] = tx]
    BY <1>3, <2>3
  <2> HIDE DEF tx
  <2> QED BY <1>1, <2>1, <2>2, <2>4
<1>8. /\ stranded' \subseteq Blocks /\ gen_ptr' \in Pointers /\ accepted' \in [Senders -> 0 .. MaxPackets]
      /\ accepted'[p] = n
      /\ \A q \in Senders \ {p} : accepted'[q] = accepted[q]
  BY <1>3, <1>4 DEF IInv, TypeOK
<1>9. /\ TypeOK' /\ FreeClean' /\ BooksKept' /\ CuBusy' /\ SentInOrder'
      /\ \A q \in Procs \ {p} : Placed(q)' /\ (Holds(q)' => InHand(q)')
      /\ cu.active => cu.at # pc[p].cb /\ command'[cu.at] = command[cu.at]
  BY <1>2, <1>3, <1>5, <1>7, <1>8, OwnBlock
<1>10. Placed(p)'
  BY <1>1, <1>2 DEF Placed, Recycling, Books
<1>11. InHand(p)'
  <2>1. \A q \in Procs \ {p} : pc'[q] = pc[q] /\ (Holds(q)' <=> Holds(q))
    BY <1>2 DEF Moves, Holds
  <2> QED BY <1>2, <1>3, <1>6, <1>7, <1>8, <2>1 DEF InHand
<1>12. Numbered'
  <2>1. \A q \in Procs \ {p} : pc'[q] = pc[q]
    BY <1>2 DEF Moves
  <2>2. \A q, m : SentBelow(q, m)' <=> SentBelow(q, m)
    BY <1>3 DEF SentBelow
  <2>3. /\ accepted[p] < accepted'[p]
        /\ \A q \in Senders : /\ accepted[q] \in Int /\ accepted'[q] \in Int
                              /\ accepted[q] <= accepted'[q]
    BY <1>4, <1>8
  <2>4. \A i \in DOMAIN sent : /\ sent[i][1] \in Senders /\ sent[i][2] \in Int
                               /\ sent[i][2] <= accepted[sent[i][1]]
    <3>1. sent \in Seq(Senders \X (1 .. MaxPackets))
      BY DEF IInv, TypeOK
    <3> QED BY <3>1 DEF IInv, Numbered
  <2>5. SentBelow(p, n)
    BY <1>4, <1>8, <2>3, <2>4 DEF SentBelow
  <2>6. \A q \in Senders : pc'[q].at \in {"status", "start", "command"} => SentBelow(q, accepted'[q])
    BY <1>8, <2>1, <2>5 DEF IInv, Numbered, Procs
  <2>7. ASSUME cu.active, command[cu.at].op = "tx"
        PROVE  LET k == command[cu.at].packet IN
               /\ k[2] <= accepted'[k[1]] /\ SentBelow(k[1], k[2])
               /\ pc'[k[1]].at \in {"status", "start", "command"} => k[2] < accepted'[k[1]]
    <3> DEFINE k == command[cu.at].packet
    <3>1. k[1] \in Senders /\ k[2] \in Int
      BY <2>7 DEF IInv, TypeOK, Commands, CuBusy
    <3>2. /\ k[2] <= accepted[k[1]] /\ SentBelow(k[1], k[2])
          /\ pc[k[1]].at \in {"status", "start", "command"} => k[2] < accepted[k[1]]
      BY <2>7 DEF IInv, Numbered
    <3> HIDE DEF k
    <3>3. CASE k[1] = p
      BY <2>3, <3>1, <3>2, <3>3 DEF k
    <3>4. CASE k[1] # p
      BY <1>8, <2>1, <3>1, <3>2, <3>4 DEF k, Procs
    <3> QED BY <3>3, <3>4
  <2>8. \A i \in DOMAIN sent : sent[i][2] <= accepted'[sent[i][1]]
    BY <2>3, <2>4
  <2> QED BY <1>3, <1>9, <2>2, <2>6, <2>7, <2>8 DEF Numbered
<1>13. AllInHand' /\ \A q \in Procs : Placed(q)'
  BY <1>9, <1>10, <1>11 DEF AllInHand
<1> QED BY <1>9, <1>12, <1>13 DEF IInv

\* The CU is found idle, or the block is left to it.
LEMMA ReadStatusOK ==
  ASSUME IInv, NEW p \in Senders, read_status(p)
  PROVE  IInv'
<1> DEFINE c == pc[p].cb
<1>1. pc[p].at = "status" /\ p \in Procs /\ p # TxDaemon /\ c \in Blocks
  <2>1. pc[p].at = "status" /\ p \in Procs /\ p # TxDaemon
    BY NicTransmitAssumption DEF read_status, At, Procs
  <2> QED BY <2>1, Standing DEF PcRecords
<1>2. Moves(p) /\ pc'[p].at = (IF cu.active THEN "idle" ELSE "start") /\ pc'[p].cb = c
  <2>1. pc \in [Procs -> PcRecords]
    BY <1>1, Standing
  <2> QED BY <1>1, <2>1 DEF read_status, Goto, Moves, PcRecords, Places, Filling, Books
<1>3. UNCHANGED <<command, complete, next_cb, cb_to_check, avail_cb, cu, gen_ptr, accepted, sent>>
  BY DEF read_status, Ring
<1>4. Holds(p) /\ (Holds(p)' <=> ~cu.active) /\ ~InBooks(p) /\ ~InBooks(p)'
  BY <1>1, <1>2 DEF Holds, Holding, InBooks, Books
<1>5. /\ stranded' \subseteq Blocks /\ gen_ptr' \in Pointers /\ accepted' \in [Senders -> 0 .. MaxPackets]
      /\ command' \in [Blocks -> Commands]
      /\ \A b \in Blocks \ {c} : command'[b] = command[b]
      /\ \A q \in Senders \ {p} : accepted'[q] = accepted[q]
  <2>1. stranded' \subseteq Blocks
    BY <1>1 DEF read_status, IInv, TypeOK
  <2> QED BY <1>3, <2>1 DEF IInv, TypeOK
<1>6. /\ TypeOK' /\ FreeClean' /\ BooksKept' /\ CuBusy' /\ SentInOrder'
      /\ \A q \in Procs \ {p} : Placed(q)' /\ (Holds(q)' => InHand(q)')
  BY <1>2, <1>3, <1>4, <1>5, OwnBlock
<1>7. Placed(p)'
  BY <1>1, <1>2 DEF Placed, Recycling, Books
<1>8. Holds(p)' => InHand(p)'
  <2>1. InHand(p)
    BY <1>1, <1>4 DEF IInv, AllInHand
  <2>2. \A q \in Procs \ {p} : pc'[q] = pc[q] /\ (Holds(q)' <=> Holds(q))
    BY <1>2 DEF Moves, Holds
  <2> QED BY <1>1, <1>2, <1>3, <1>4, <2>1, <2>2 DEF InHand
<1>9. Numbered'
  <2>1. \A q \in Procs : pc'[q].at \in {"status", "start", "command"} => pc[q].at \in {"status", "start", "command"}
    BY <1>1, <1>2 DEF Moves
  <2>2. \A q, m : SentBelow(q, m)' <=> SentBelow(q, m)
    BY <1>3 DEF SentBelow
  <2>3. cu.active /\ command[cu.at].op = "tx" => command[cu.at].packet[1] \in Procs
    BY DEF IInv, TypeOK, Commands, CuBusy, Procs
  <2> QED BY <1>3, <2>1, <2>2, <2>3 DEF IInv, Numbered, Procs
<1>10. AllInHand' /\ \A q \in Procs : Placed(q)'
  BY <1>6, <1>7, <1>8 DEF AllInHand
<1> QED BY <1>6, <1>9, <1>10 DEF IInv

\* The address of the block is written to the card.
LEMMA GenPtrOK ==
  ASSUME IInv, NEW p \in Senders, write_gen_ptr(p)
  PROVE  IInv'
<1> DEFINE c == pc[p].cb
<1>1. pc[p].at = "start" /\ p \in Procs /\ p # TxDaemon /\ c \in Blocks
  <2>1. pc[p].at = "start" /\ p \in Procs /\ p # TxDaemon
    BY NicTransmitAssumption DEF write_gen_ptr, At, Procs
  <2> QED BY <2>1, Standing DEF PcRecords
<1>2. Moves(p) /\ pc'[p].at = "command" /\ pc'[p].cb = c
  <2>1. pc \in [Procs -> PcRecords]
    BY <1>1, Standing
  <2> QED BY <1>1, <2>1 DEF write_gen_ptr, Goto, Moves, PcRecords, Places, Filling, Books
<1>3. UNCHANGED <<command, complete, next_cb, cb_to_check, avail_cb, cu, accepted, sent>>
  BY DEF write_gen_ptr, Ring, History
<1>4. Holds(p) /\ Holds(p)' /\ ~InBooks(p) /\ ~InBooks(p)'
  BY <1>1, <1>2 DEF Holds, Holding, InBooks, Books
<1>5. /\ stranded' \subseteq Blocks /\ gen_ptr' \in Pointers /\ accepted' \in [Senders -> 0 .. MaxPackets]
      /\ command' \in [Blocks -> Commands]
      /\ \A b \in Blocks \ {c} : command'[b] = command[b]
      /\ \A q \in Senders \ {p} : accepted'[q] = accepted[q]
  <2>1. stranded' \subseteq Blocks /\ gen_ptr' \in Pointers
    BY <1>1 DEF write_gen_ptr, History, IInv, TypeOK, Pointers
  <2> QED BY <1>3, <2>1 DEF IInv, TypeOK
<1>6. /\ TypeOK' /\ FreeClean' /\ BooksKept' /\ CuBusy' /\ SentInOrder'
      /\ \A q \in Procs \ {p} : Placed(q)' /\ (Holds(q)' => InHand(q)')
  BY <1>2, <1>3, <1>4, <1>5, OwnBlock
<1>7. Placed(p)'
  BY <1>1, <1>2 DEF Placed, Recycling, Books
<1>8. Holds(p)' => InHand(p)'
  <2>1. InHand(p)
    BY <1>1, <1>4 DEF IInv, AllInHand
  <2>2. \A q \in Procs \ {p} : pc'[q] = pc[q] /\ (Holds(q)' <=> Holds(q))
    BY <1>2 DEF Moves, Holds
  <2> QED BY <1>1, <1>2, <1>3, <1>4, <2>1, <2>2 DEF InHand
<1>9. Numbered'
  <2>1. \A q \in Procs : pc'[q].at \in {"status", "start", "command"} => pc[q].at \in {"status", "start", "command"}
    BY <1>1, <1>2 DEF Moves
  <2>2. \A q, m : SentBelow(q, m)' <=> SentBelow(q, m)
    BY <1>3 DEF SentBelow
  <2>3. cu.active /\ command[cu.at].op = "tx" => command[cu.at].packet[1] \in Procs
    BY DEF IInv, TypeOK, Commands, CuBusy, Procs
  <2> QED BY <1>3, <2>1, <2>2, <2>3 DEF IInv, Numbered, Procs
<1>10. AllInHand' /\ \A q \in Procs : Placed(q)'
  BY <1>6, <1>7, <1>8 DEF AllInHand
<1> QED BY <1>6, <1>9, <1>10 DEF IInv

\* The receive daemon writes its own pointer, and its command.
LEMMA EnableRxOK ==
  ASSUME IInv, enable_rx_gen_ptr \/ enable_rx_command
  PROVE  IInv'
<1> DEFINE p == RxDaemon
<1>1. p \in Senders /\ p \in Procs /\ p # TxDaemon /\ pc[p].at \in {"enable", "ruc_start"}
  BY NicTransmitAssumption DEF Procs, enable_rx_gen_ptr, enable_rx_command, At
<1>2. Moves(p) /\ pc'[p].at \in {"ruc_start", "idle"}
  <2>1. pc \in [Procs -> PcRecords]
    BY <1>1, Standing
  <2> QED
    BY <1>1, <2>1 DEF enable_rx_gen_ptr, enable_rx_command, Goto, Moves, PcRecords, Places
<1>3. /\ UNCHANGED <<command, complete, next_cb, cb_to_check, avail_cb, cu, accepted, sent, stranded>>
      /\ gen_ptr' \in Pointers /\ avail_cb' \in 0 .. TOTAL_CB /\ UNCHANGED Ring
  BY <1>1, Standing DEF enable_rx_gen_ptr, enable_rx_command, Ring, History, Pointers
<1>4. ~Holds(p) /\ ~Holds(p)' /\ ~InBooks(p) /\ ~InBooks(p)'
  BY <1>1, <1>2 DEF Holds, Holding, InBooks, Books
<1>5. Placed(p)'
  BY <1>1, <1>2 DEF Placed, Recycling, Books
<1>6. BooksKept'
  <2>1. \A q \in Procs : Holds(q)' <=> Holds(q)
    BY <1>2, <1>4 DEF Moves, Holds
  <2>2. \A b : Clean(b) => Clean(b)'
    BY <1>2, <1>3, <1>4, <2>1 DEF Clean, Moves, Holds
  <2>3. Used' = Used
    BY <1>3 DEF Used, Gap
  <2>4. \A q \in Procs \ {p} : InBooks(q) /\ Kept(q) => Kept(q)'
    BY <1>2, <1>3, <2>2, <2>3 DEF Kept, Moves
  <2> QED BY <1>2, <1>3, <1>4, <2>4, BooksOut
<1>7. /\ pc[p].at \notin {"data", "status", "start", "command"}
      /\ pc'[p].at \notin {"data", "status", "start", "command"}
  BY <1>1, <1>2
<1> QED BY <1>2, <1>3, <1>4, <1>5, <1>6, <1>7, MoveOK

\* The CU is started at the block.
LEMMA StartCuOK ==
  ASSUME IInv, ~Clash, NEW p \in Senders, start_cu(p)
  PROVE  IInv'
<1> DEFINE c == pc[p].cb
<1>1. pc[p].at = "command" /\ p \in Procs /\ p # TxDaemon /\ c \in Blocks
  <2>1. pc[p].at = "command" /\ p \in Procs /\ p # TxDaemon
    BY NicTransmitAssumption DEF start_cu, At, Procs
  <2> QED BY <2>1, Standing DEF PcRecords
<1>2. Moves(p) /\ pc'[p].at = "idle"
  <2>1. pc \in [Procs -> PcRecords]
    BY <1>1, Standing
  <2> QED BY <1>1, <2>1 DEF start_cu, Goto, Moves, PcRecords, Places, Filling, Books
<1>3. /\ UNCHANGED <<command, complete, next_cb, cb_to_check, avail_cb, gen_ptr, accepted, sent,
                   stranded>>
      /\ cu' = [active |-> TRUE, at |-> c]
  <2>1. gen_ptr = c
    BY <1>1 DEF Clash, Overwritten, At
  <2> QED BY <2>1 DEF start_cu, Ring, History
<1>4. Holds(p) /\ ~Holds(p)' /\ ~InBooks(p) /\ ~InBooks(p)'
  BY <1>1, <1>2 DEF Holds, Holding, InBooks, Books
<1>5. InHand(p) /\ command[c] = Command("tx", TRUE, <<p, accepted[p]>>) /\ c \notin complete
  BY <1>1, <1>4 DEF IInv, AllInHand, InHand
<1>6. \A q \in Procs \ {p} : /\ Holds(q)' <=> Holds(q)
                             /\ pc'[q] = pc[q] /\ pc[q].at \notin {"start", "command"}
                             /\ Holds(q) => pc[q].cb # c
  BY <1>1, <1>2, <1>5 DEF Holds, Moves, InHand, Clash, Starting
<1>7. \A b \in Blocks : Clean(b) => Clean(b)'
  <2>1. ASSUME NEW b \in Blocks, Clean(b) PROVE b # c /\ Clean(b)'
    <3>1. b # c
      BY <1>1, <1>4, <2>1 DEF Clean
    <3> QED BY <1>3, <1>4, <1>6, <2>1, <3>1 DEF Clean
  <2> QED BY <2>1
<1>8. Used' = Used
  BY <1>3 DEF Used, Gap
<1>9. FreeClean'
  BY <1>3, <1>7, <1>8 DEF IInv, FreeClean, Gap
<1>10. BooksKept'
  <2>1. UNCHANGED Ring /\ cb_to_check \in Blocks
    BY <1>3 DEF Ring, IInv, TypeOK
  <2>2. \A q \in Procs \ {p} : InBooks(q) /\ Kept(q) => Kept(q)'
    BY <1>3, <1>6, <1>7, <1>8, <2>1 DEF Kept
  <2> QED BY <1>2, <1>4, <2>1, <2>2, BooksOut
<1>11. TypeOK'
  BY <1>1, <1>2, <1>3 DEF IInv, TypeOK, Moves, PcRecords, Places, Filling
<1>12. \A q \in Procs : Placed(q)'
  BY <1>1, <1>2, <1>3 DEF IInv, Placed, Moves, Recycling, Books
<1>13. AllInHand'
  <2>1. ASSUME NEW q \in Procs, Holds(q)' PROVE InHand(q)'
    <3>1. q # p /\ Holds(q) /\ InHand(q)
      BY <1>4, <1>6, <2>1 DEF IInv, AllInHand
    <3>2. pc'[q] = pc[q] /\ pc[q].at \notin {"start", "command"} /\ pc[q].cb # c
      BY <1>6, <3>1
    <3>3. \A r \in Procs \ {q} : Holds(r)' => pc'[r].cb # pc[q].cb
      BY <1>4, <1>6, <3>1 DEF InHand
    <3> QED BY <1>3, <3>1, <3>2, <3>3 DEF InHand
  <2> QED BY <2>1 DEF AllInHand
<1>14. cu'.active /\ cu'.at = c /\ command'[c] = Command("tx", TRUE, <<p, accepted[p]>>)
  BY <1>3, <1>5
<1>15. CuBusy'
  <2>1. /\ Command("tx", TRUE, <<p, accepted[p]>>).op = "tx"
        /\ Command("tx", TRUE, <<p, accepted[p]>>).el = TRUE
        /\ Command("tx", TRUE, <<p, accepted[p]>>).packet # NoPacket
    BY DEF Command, NoPacket
  <2> QED BY <1>3, <1>5, <1>14, <2>1 DEF CuBusy
<1>16. Numbered' /\ SentInOrder'
  <2>1. \A q \in Procs : pc'[q].at \in {"status", "start", "command"} => pc[q].at \in {"status", "start", "command"}
    BY <1>2 DEF Moves
  <2>2. \A q, m : SentBelow(q, m)' <=> SentBelow(q, m)
    BY <1>3 DEF SentBelow
  <2>3. /\ Command("tx", TRUE, <<p, accepted[p]>>).packet[1] = p
        /\ Command("tx", TRUE, <<p, accepted[p]>>).packet[2] = accepted[p]
    BY DEF Command
  <2>4. accepted[p] \in Int /\ SentBelow(p, accepted[p])
    BY <1>1, NicTransmitAssumption DEF IInv, TypeOK, Numbered
  <2> DEFINE k == command[cu.at].packet
  <2>5. /\ (k[2] <= accepted[k[1]])' /\ SentBelow(k[1], k[2])'
        /\ (pc[k[1]].at \in {"status", "start", "command"} => k[2] < accepted[k[1]])'
    <3>1. k'[1] = p /\ k'[2] = accepted[p] /\ accepted'[p] = accepted[p]
      BY <1>3, <1>14, <2>3
    <3> HIDE DEF k
    <3>2. SentBelow(k[1], k[2])'
      BY <1>3, <2>4, <3>1 DEF SentBelow
    <3>3. (k[2] <= accepted[k[1]])'
      BY <2>4, <3>1
    <3>4. ~(pc'[k'[1]].at \in {"status", "start", "command"})
      BY <1>2, <3>1
    <3> QED BY <3>2, <3>3, <3>4
  <2>6. \A q \in Senders : pc'[q].at \in {"status", "start", "command"} => SentBelow(q, accepted[q])'
    BY <1>3, <2>1, <2>2 DEF IInv, Numbered, Procs
  <2>7. \A i \in DOMAIN sent' : sent'[i][2] <= accepted'[sent'[i][1]]
    BY <1>3 DEF IInv, Numbered
  <2>8. SentInOrder'
    BY <1>3 DEF IInv, SentInOrder
  <2> QED BY <2>5, <2>6, <2>7, <2>8 DEF Numbered
<1> QED BY <1>9, <1>10, <1>11, <1>12, <1>13, <1>15, <1>16 DEF IInv

-----------------------------------------------------------------------------
(* The card *)

\* The CU carries out a block.
LEMMA CuExecuteOK ==
  ASSUME IInv, cu_execute
  PROVE  IInv'
<1> DEFINE c == cu.at
           k == command[c].packet
<1>1. /\ UNCHANGED <<command, next_cb, cb_to_check, avail_cb, gen_ptr, pc, accepted, stranded>>
      /\ cu.active /\ c \in Blocks /\ complete' = complete \cup {c}
  BY DEF cu_execute, Ring, IInv, TypeOK
<1>2. /\ command[c].op # "nop" /\ c \notin complete
      /\ command[c].op = "tx" => k # NoPacket
      /\ ~command[c].el => /\ c = 0 /\ cb_to_check = 0 /\ 1 \notin complete
                           /\ command[0].op = "cfg"
                           /\ command[1] = Command("ia", TRUE, NoPacket)
  BY <1>1 DEF IInv, CuBusy
<1>3. /\ command[c].el => ~cu'.active /\ cu'.at = c
      /\ ~command[c].el => cu'.active /\ cu'.at = 1
      /\ cu' \in [active : BOOLEAN, at : Blocks]
  <2>1. cu \in [active : BOOLEAN, at : Blocks] /\ link(0) = 1 /\ 1 \in Blocks
    BY NicTransmitAssumption, LinkIs DEF IInv, TypeOK, Blocks
  <2>2. CASE command[c].el
    <3>1. cu' = [cu EXCEPT !.active = FALSE]
      BY <2>2 DEF cu_execute
    <3> QED BY <2>1, <2>2, <3>1
  <2>3. CASE ~command[c].el
    <3>1. cu' = [cu EXCEPT !.at = 1]
      BY <1>2, <2>1, <2>3 DEF cu_execute
    <3> QED BY <1>1, <2>1, <2>3, <3>1
  <2> QED BY <2>2, <2>3
<1>4. \A q : (Holds(q)' <=> Holds(q)) /\ (InBooks(q)' <=> InBooks(q))
  BY <1>1 DEF Holds, InBooks
<1>5. \A b \in Blocks : Clean(b) => Clean(b)'
  <2>1. ASSUME NEW b \in Blocks, Clean(b) PROVE Clean(b)'
    <3>1. b # c
      BY <1>1, <2>1 DEF Clean
    <3>2. ~(cu'.active /\ cu'.at = b)
      BY <1>2, <1>3, <2>1 DEF Clean, NoCommand, Command
    <3> QED BY <1>1, <1>4, <2>1, <3>1, <3>2 DEF Clean
  <2> QED BY <2>1
<1>6. Used' = Used
  BY <1>1 DEF Used, Gap
<1>7. FreeClean'
  BY <1>1, <1>5, <1>6 DEF IInv, FreeClean, Gap
<1>8. BooksKept'
  <2>1. \A q \in Procs : Alone(q)' => Alone(q)
    BY <1>4 DEF Alone
  <2>2. cb_to_check \in Blocks
    BY DEF IInv, TypeOK
  <2>3. \A q \in Procs : Kept(q) => Kept(q)'
    BY <1>1, <1>5, <1>6, <2>2 DEF Kept
  <2> QED BY <1>1, <1>4, <1>6, <2>1, <2>3 DEF IInv, BooksKept
<1>9. \A q \in Procs : Placed(q)'
  BY <1>1 DEF IInv, Placed
<1>10. AllInHand'
  <2>1. ASSUME NEW q \in Procs, Holds(q)' PROVE InHand(q)'
    <3>1. Holds(q) /\ InHand(q)
      BY <1>4, <2>1 DEF IInv, AllInHand
    <3>2. pc[q].cb # c /\ pc[q].at \notin {"start", "command"}
      BY <1>1, <3>1 DEF InHand
    <3>3. command[pc[q].cb].op # "ia"
      BY <3>1 DEF InHand, Holds, Holding, NoCommand, Command
    <3>4. ~(cu'.active /\ cu'.at = pc[q].cb)
      BY <1>2, <1>3, <3>3 DEF Command
    <3> QED BY <1>1, <1>4, <3>1, <3>2, <3>4 DEF InHand
  <2> QED BY <2>1 DEF AllInHand
<1>11. CuBusy'
  <2>1. CASE command[c].el
    BY <1>3, <2>1 DEF CuBusy
  <2>2. CASE ~command[c].el
    <3>1. cu'.at = 1 /\ c = 0 /\ command[1] = Command("ia", TRUE, NoPacket) /\ 1 \notin complete
      BY <1>2, <1>3, <2>2
    <3>2. Command("ia", TRUE, NoPacket).op = "ia" /\ Command("ia", TRUE, NoPacket).el = TRUE
      BY DEF Command
    <3>3. command'[1] = Command("ia", TRUE, NoPacket) /\ 1 \notin complete'
      BY <1>1, <3>1
    <3> QED BY <3>1, <3>2, <3>3 DEF CuBusy
  <2> QED BY <2>1, <2>2
<1>12. sent' \in Seq(Senders \X (1 .. MaxPackets)) /\ Numbered' /\ SentInOrder'
  <2> DEFINE P == Senders \X (1 .. MaxPackets)
  <2>1. sent \in Seq(P) /\ command[c] \in Commands
    BY <1>1 DEF IInv, TypeOK
  <2>2. ~(cu'.active /\ command'[cu'.at].op = "tx")
    <3>1. Command("ia", TRUE, NoPacket).op = "ia"
      BY DEF Command
    <3>2. CASE command[c].el
      BY <1>3, <3>2
    <3>3. CASE ~command[c].el
      BY <1>1, <1>2, <1>3, <3>1, <3>3
    <3> QED BY <3>2, <3>3
  <2>3. CASE command[c].op # "tx"
    <3>1. sent' = sent
      BY <2>3 DEF cu_execute
    <3>2. \A q, m : SentBelow(q, m)' <=> SentBelow(q, m)
      BY <3>1 DEF SentBelow
    <3>3. Numbered'
      BY <1>1, <2>2, <3>1, <3>2 DEF IInv, Numbered
    <3> QED BY <2>1, <3>1, <3>3 DEF IInv, SentInOrder
  <2>4. CASE command[c].op = "tx"
    <3>1. k \in P
      BY <1>2, <2>1, <2>4 DEF Commands
    <3>2. sent' = Append(sent, k)
      BY <2>4 DEF cu_execute
    <3>3. /\ k[2] <= accepted[k[1]] /\ SentBelow(k[1], k[2])
          /\ pc[k[1]].at \in {"status", "start", "command"} => k[2] < accepted[k[1]]
      BY <1>1, <2>4 DEF IInv, Numbered
    <3> HIDE DEF P, k
    <3>4. /\ Len(sent) \in Nat /\ DOMAIN sent = 1 .. Len(sent)
          /\ sent' \in Seq(P) /\ Len(sent') = Len(sent) + 1 /\ DOMAIN sent' = 1 .. Len(sent) + 1
          /\ \A i \in 1 .. Len(sent) : sent'[i] = sent[i] /\ sent[i] \in P
          /\ sent'[Len(sent) + 1] = k
      BY <2>1, <3>1, <3>2
    <3>5. \A q, m : SentBelow(q, m) /\ (k[1] = q => k[2] < m) => SentBelow(q, m)'
      BY <3>4 DEF SentBelow
    <3>6. Numbered'
      <4>1. \A i \in DOMAIN sent' : sent'[i][2] <= accepted'[sent'[i][1]]
        BY <1>1, <3>3, <3>4 DEF IInv, Numbered
      <4>2. \A q \in Senders : pc'[q].at \in {"status", "start", "command"} => SentBelow(q, accepted[q])'
        BY <1>1, <3>3, <3>5 DEF IInv, Numbered, SentBelow
      <4> QED BY <2>2, <4>1, <4>2 DEF Numbered
    <3>7. SentInOrder'
      <4>1. ASSUME NEW i \in 1 .. Len(sent'), NEW j \in 1 .. Len(sent'),
                   i < j, sent'[i][1] = sent'[j][1]
            PROVE  sent'[i][2] < sent'[j][2]
        <5>1. i \in 1 .. Len(sent)
          BY <3>4, <4>1
        <5>2. CASE j = Len(sent) + 1
          BY <3>3, <3>4, <4>1, <5>1, <5>2 DEF SentBelow
        <5>3. CASE j \in 1 .. Len(sent)
          BY <3>4, <4>1, <5>1, <5>3 DEF IInv, SentInOrder
        <5> QED BY <3>4, <5>2, <5>3
      <4> QED BY <4>1 DEF SentInOrder
    <3> QED BY <3>4, <3>6, <3>7 DEF P
  <2> QED BY <2>3, <2>4
<1>13. TypeOK'
  <2>1. complete' \subseteq Blocks
    BY <1>1 DEF IInv, TypeOK
  <2> QED BY <1>1, <1>3, <1>12, <2>1 DEF IInv, TypeOK
<1> QED BY <1>7, <1>8, <1>9, <1>10, <1>11, <1>12, <1>13 DEF IInv

-----------------------------------------------------------------------------
(* The invariant and what follows from it *)

\* As intel_nic_init leaves the ring, it holds.
LEMMA InitOK ==
  ASSUME Init
  PROVE  IInv
<1>1. TOTAL_CB \in Nat /\ TOTAL_CB >= 2 /\ next_cb = 2 /\ cb_to_check = 0
      /\ 0 \in Blocks /\ 1 \in Blocks /\ 2 \in Blocks
  <2>1. next_cb = 2 % (TOTAL_CB + 1) /\ cb_to_check = 0
    BY DEF Init
  <2>2. TOTAL_CB \in Nat /\ TOTAL_CB >= 2 /\ 0 \in Blocks /\ 1 \in Blocks /\ 2 \in Blocks
    BY NicTransmitAssumption DEF Blocks
  <2>3. link(1) = 2 % (TOTAL_CB + 1)
    BY DEF link
  <2>4. link(1) = 2
    BY <2>2, LinkIs
  <2> QED BY <2>1, <2>2, <2>3, <2>4
<1>2. Used = 2 /\ \A b \in Blocks : Gap(cb_to_check, b) >= Used => b # 0 /\ b # 1
  <2>1. Used = 2
    BY <1>1 DEF Used, Gap
  <2>2. \A b \in Blocks : Gap(0, b) = b
    BY <1>1 DEF Gap, Blocks
  <2> QED BY <1>1, <2>1, <2>2 DEF Blocks
<1>3. /\ command[0] = Command("cfg", FALSE, NoPacket)
      /\ command[1] = Command("ia", TRUE, NoPacket)
      /\ \A b \in Blocks : b # 0 /\ b # 1 => command[b] = NoCommand
      /\ command \in [Blocks -> Commands]
  <2>1. /\ Command("cfg", FALSE, NoPacket) \in Commands
        /\ Command("ia", TRUE, NoPacket) \in Commands /\ NoCommand \in Commands
    BY DEF Command, NoCommand, Commands
  <2> DEFINE C == Command("cfg", FALSE, NoPacket)
             I == Command("ia", TRUE, NoPacket)
  <2>2. command = [b \in Blocks |-> CASE b = 0 -> C [] b = 1 -> I [] OTHER -> NoCommand]
    BY DEF Init
  <2> HIDE DEF C, I
  <2>3. /\ command[0] = C /\ command[1] = I
        /\ \A b \in Blocks : b # 0 /\ b # 1 => command[b] = NoCommand
    BY <1>1, <2>2
  <2>4. \A b \in Blocks : b = 0 \/ b = 1 \/ command[b] = NoCommand
    BY <2>3
  <2>5. command \in [Blocks -> Commands]
    BY <2>1, <2>2, <2>3, <2>4 DEF C, I
  <2> QED BY <2>3, <2>5 DEF C, I
<1>4. \A p \in Procs : /\ pc[p].at \in IF p = TxDaemon THEN {"sleep"} ELSE {"enable", "idle"}
                       /\ pc[p].ret = "sleep"
  BY NicTransmitAssumption DEF Init
<1>5. TypeOK
  <2>1. pc \in [Procs -> PcRecords]
    BY <1>1 DEF Init, PcRecords, Places, Filling
  <2>2. avail_cb \in 0 .. TOTAL_CB
    BY <1>1 DEF Init
  <2>3. accepted \in [Senders -> 0 .. MaxPackets]
    BY NicTransmitAssumption DEF Init
  <2>4. complete \subseteq Blocks /\ stranded \subseteq Blocks /\ sent \in Seq(Senders \X (1 .. MaxPackets))
    BY DEF Init
  <2>5. cu \in [active : BOOLEAN, at : Blocks] /\ gen_ptr \in Pointers
    BY <1>1 DEF Init, Pointers
  <2> QED BY <1>1, <1>3, <2>1, <2>2, <2>3, <2>4, <2>5 DEF TypeOK, PcRecords, Places, Filling
<1>6. \A p \in Procs : Placed(p) /\ ~Holds(p) /\ ~InBooks(p)
  BY <1>4, NicTransmitAssumption DEF Placed, Holds, Holding, InBooks, Books, Recycling
<1>7. cu.active /\ cu.at = 0 /\ complete = {} /\ sent = <<>> /\ avail_cb = TOTAL_CB - 2
  BY DEF Init
<1>8. FreeClean
  BY <1>2, <1>3, <1>6, <1>7 DEF FreeClean, Clean
<1>9. BooksKept
  BY <1>1, <1>2, <1>6, <1>7 DEF BooksKept
<1>10. AllInHand
  BY <1>6 DEF AllInHand
<1>11. command[0].op = "cfg" /\ ~command[0].el
  BY <1>3 DEF Command
<1>12. CuBusy
  BY <1>1, <1>3, <1>7, <1>11 DEF CuBusy
<1>13. Numbered /\ SentInOrder
  <2>1. DOMAIN sent = {} /\ Len(sent) = 0
    BY <1>7
  <2> QED BY <1>7, <1>11, <2>1 DEF Numbered, SentInOrder, SentBelow
<1> QED BY <1>5, <1>6, <1>8, <1>9, <1>10, <1>12, <1>13 DEF IInv

\* Every step keeps it.
LEMMA StepOK ==
  ASSUME IInv, [Next]_vars
  PROVE  IInv'
<1>1. ASSUME ~Clash, NEW p \in Procs, Recycle(p) PROVE IInv'
  BY <1>1, TestOK, ClearOK, LoadOK, IncrementOK, NextOK DEF Recycle
<1>2. ASSUME ~Clash, NEW p \in Senders, Send(p) PROVE IInv'
  BY <1>2, SendOK, RetestOK, TakeOK, AdvanceOK, AvailableOK, DecrementOK,
     FillCommandOK, FillDataOK, ReadStatusOK, GenPtrOK, StartCuOK DEF Send
<1>3. ASSUME UNCHANGED vars PROVE IInv'
  <2>1. UNCHANGED <<command, complete, next_cb, cb_to_check, avail_cb, cu, gen_ptr, pc, accepted, sent,
                    stranded>>
    BY <1>3 DEF vars
  <2>2. TypeOK' /\ CuBusy' /\ SentInOrder' /\ \A p \in Procs : Placed(p)'
    BY <2>1 DEF IInv, TypeOK, CuBusy, SentInOrder, Placed
  <2>3. /\ \A p : (Holds(p)' <=> Holds(p)) /\ (InBooks(p)' <=> InBooks(p))
        /\ Used' = Used /\ \A b : (Gap(cb_to_check, b)' = Gap(cb_to_check, b))
        /\ \A p, m : SentBelow(p, m)' <=> SentBelow(p, m)
    BY <2>1 DEF Holds, InBooks, Used, Gap, SentBelow
  <2>4. \A b : Clean(b)' <=> Clean(b)
    BY <2>1, <2>3 DEF Clean
  <2>5. \A p : (InHand(p)' <=> InHand(p)) /\ (Kept(p)' <=> Kept(p)) /\ (Alone(p)' <=> Alone(p))
    BY <2>1, <2>3, <2>4, ZenonT(60) DEF InHand, Kept, Alone
  <2>6. AllInHand' /\ FreeClean' /\ BooksKept' /\ Numbered'
    BY <2>1, <2>3, <2>4, <2>5 DEF IInv, AllInHand, FreeClean, BooksKept, Numbered
  <2> QED BY <2>2, <2>6 DEF IInv
<1>4. ASSUME ~Clash, Daemon PROVE IInv'
  BY <1>1, <1>4, TxDaemonOK DEF Daemon, Procs
<1>5. ASSUME ~Clash, NEW p \in Senders, Sender(p) PROVE IInv'
  BY <1>1, <1>2, <1>5 DEF Sender, Procs
<1>6. ASSUME ~Clash, EnableRx PROVE IInv'
  BY <1>6, EnableRxOK DEF EnableRx
<1> QED BY <1>3, <1>4, <1>5, <1>6, CuExecuteOK DEF Next

\* It always holds.
LEMMA Invariance == Spec => []IInv
BY InitOK, StepOK, PTL DEF Spec

\* Outside of get_next_cb and recycle_command_blocks, avail_cb agrees with the
\* pointers, and an available block belongs to nobody.
THEOREM RingAlwaysBooked == Spec => []RingBooks
<1>1. IInv => RingBooks
  <2> SUFFICES ASSUME IInv, \A p \in Procs : ~InBooks(p)
               PROVE  /\ Cardinality(InUse) = TOTAL_CB - avail_cb
                      /\ \A b \in Blocks \ InUse :
                           /\ command[b] = NoCommand /\ b \notin complete
                           /\ ~(cu.active /\ cu.at = b)
                           /\ \A p \in Senders : pc[p].at \in Filling
                                                   => pc[p].cb # b
    BY DEF RingBooks
  <2>1. Cardinality(InUse) = Used /\ InUse = {b \in Blocks : Gap(cb_to_check, b) < Used}
    BY InUseCount DEF IInv
  <2>2. Used = TOTAL_CB - avail_cb
    BY DEF IInv, BooksKept
  <2>3. ASSUME NEW b \in Blocks \ InUse PROVE Clean(b)
    <3>1. cb_to_check \in Blocks /\ next_cb \in Blocks
      BY DEF IInv, TypeOK
    <3>2. Gap(cb_to_check, b) \in Int /\ Used \in Int
      BY <3>1, GapIs DEF Used
    <3> QED BY <2>1, <3>2 DEF IInv, FreeClean
  <2> QED BY <2>1, <2>2, <2>3 DEF Clean, Holds, Holding, Filling, Procs
<1> QED BY <1>1, Invariance, PTL

\* The command unit never sees a receive descriptor, a block that is being
\* filled or one that it has already carried out, until two processes are
\* inside the same unlocked place (Clash).
THEOREM CommandsWhole == Spec => []CuSeesWholeCommands
<1>1. IInv => CuSeesWholeCommands
  <2> SUFFICES ASSUME IInv, cu.active PROVE CuSeesWholeCommands
    BY DEF CuSeesWholeCommands
  <2>1. \A p \in Senders : Holds(p) => pc[p].cb # cu.at
    BY DEF IInv, AllInHand, InHand, Procs
  <2> QED BY <2>1 DEF IInv, CuBusy, CuSeesWholeCommands, Holds, Holding, Filling, TypeOK
<1> QED BY <1>1, Invariance, PTL

\* The packets of one sender go out in the order in which send_packet took
\* them, none of them twice.
THEOREM PacketsInOrder == Spec => []SentInOrder
<1>1. IInv => SentInOrder
  BY DEF IInv
<1> QED BY <1>1, Invariance, PTL
=============================================================================
