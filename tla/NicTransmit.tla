----------------------------- MODULE NicTransmit -----------------------------
(***************************************************************************)
(* The transmit half of intel.c: the ring of command blocks, shared by     *)
(* everybody who sends, the transmit daemon and the card's command unit    *)
(* (CU).                                                                   *)
(*                                                                         *)
(* All of this is code of processes of equal priority, which can be        *)
(* preempted anywhere and use no lock.  A step is one access to shared     *)
(* state.  Three things do not survive a preemption: the book-keeping of   *)
(* get_next_cb and recycle_command_blocks; the start of the CU after its   *)
(* status was read; and a pointer in the card's one pointer register,      *)
(* which the receive daemon writes too, until the command that uses it.    *)
(* When two processes are inside the same one (Clash), the model stops;    *)
(* everything else interleaves.                                            *)
(***************************************************************************)
EXTENDS Integers, Sequences, FiniteSets, Functions

CONSTANTS
  Senders,     \* processes that call send_packet
  RxDaemon,    \* the one of them that runs nic_rx_daemon, and sends replies
  TxDaemon,    \* the process of nic_tx_daemon
  TOTAL_CB,
  MaxPackets   \* bound: calls of send_packet by each sender

ASSUME NicTransmitAssumption ==
  /\ TOTAL_CB \in Nat /\ TOTAL_CB >= 2
  /\ MaxPackets \in Nat
  /\ RxDaemon \in Senders /\ TxDaemon \notin Senders

Procs == Senders \cup {TxDaemon}
Blocks == 0 .. TOTAL_CB
link(b) == (b + 1) % (TOTAL_CB + 1)
Rfd == -1      \* the address of a receive descriptor: no command block
Pointers == Blocks \cup {Rfd}

VARIABLES
  command,       \* what a block tells the CU to do
  complete,      \* the blocks whose status has cb_c
  next_cb, cb_to_check, avail_cb,
  cu,            \* the command unit: is it active, and at which block
  gen_ptr,       \* the pointer register the next command to the card uses
  pc,            \* where a process is, its block, register and return point
  accepted,      \* packets each sender has passed to a block
  sent,          \* packets the card has transmitted
  stranded       \* blocks send_packet left to a CU that was active

vars == <<command, complete, next_cb, cb_to_check, avail_cb, cu, gen_ptr, pc,
          accepted, sent, stranded>>

NoPacket == <<>>
Command(op, el, packet) == [op |-> op, el |-> el, packet |-> packet]
\* command = 0 is a no-op that is not the end of the list
NoCommand == Command("nop", FALSE, NoPacket)

-----------------------------------------------------------------------------
(* The programs of the processes *)

At(p, label) == pc[p].at = label
Goto(p, label) == pc' = [pc EXCEPT ![p].at = label]

Ring == <<next_cb, cb_to_check, avail_cb>>
History == <<accepted, sent, stranded>>

\* Mutant: the daemon only sleeps.
tx_daemon_idle ==
  /\ At(TxDaemon, "sleep")
  /\ Goto(TxDaemon, "sleep")
  /\ UNCHANGED <<command, complete, Ring, cu, gen_ptr, History>>

\* nic_tx_daemon wakes up and calls recycle_command_blocks
tx_daemon ==
  /\ At(TxDaemon, "sleep")
  /\ pc' = [pc EXCEPT ![TxDaemon].at = "recycle", ![TxDaemon].ret = "sleep"]
  /\ UNCHANGED <<command, complete, Ring, cu, gen_ptr, History>>

\* while (_nic.cb_to_check->status & cb_c)
recycle_test(p) ==
  /\ At(p, "recycle")
  /\ Goto(p, IF cb_to_check \in complete THEN "clear" ELSE pc[p].ret)
  /\ UNCHANGED <<command, complete, Ring, cu, gen_ptr, History>>

recycle_clear(p) ==
  /\ At(p, "clear")
  /\ complete' = complete \ {cb_to_check}
  /\ command' = [command EXCEPT ![cb_to_check] = NoCommand]
  /\ Goto(p, "load")
  /\ UNCHANGED <<Ring, cu, gen_ptr, History>>

\* _nic.avail_cb++ is a load and a store
recycle_load(p) ==
  /\ At(p, "load")
  /\ pc' = [pc EXCEPT ![p].at = "increment", ![p].reg = avail_cb]
  /\ UNCHANGED <<command, complete, Ring, cu, gen_ptr, History>>

recycle_increment(p) ==
  /\ At(p, "increment")
  /\ avail_cb' = pc[p].reg + 1
  /\ Goto(p, "next")
  /\ UNCHANGED <<command, complete, next_cb, cb_to_check, cu, gen_ptr, History>>

recycle_next(p) ==
  /\ At(p, "next")
  /\ cb_to_check' = link(cb_to_check)
  /\ Goto(p, "recycle")
  /\ UNCHANGED <<command, complete, next_cb, avail_cb, cu, gen_ptr, History>>

\* Mutant: a block is taken without a look at avail_cb.
send_packet_blind(p) ==
  /\ At(p, "idle") /\ accepted[p] < MaxPackets
  /\ Goto(p, "take")
  /\ UNCHANGED <<command, complete, Ring, cu, gen_ptr, History>>

\* send_packet calls get_next_cb, which recycles when nothing is available
send_packet(p) ==
  /\ At(p, "idle") /\ accepted[p] < MaxPackets
  /\ pc' = IF avail_cb = 0
           THEN [pc EXCEPT ![p].at = "recycle", ![p].ret = "retest"]
           ELSE [pc EXCEPT ![p].at = "take"]
  /\ UNCHANGED <<command, complete, Ring, cu, gen_ptr, History>>

\* still nothing: send_packet returns -1
get_next_cb_retest(p) ==
  /\ At(p, "retest")
  /\ Goto(p, IF avail_cb = 0 THEN "idle" ELSE "take")
  /\ UNCHANGED <<command, complete, Ring, cu, gen_ptr, History>>

get_next_cb_take(p) ==
  /\ At(p, "take")
  /\ pc' = [pc EXCEPT ![p].at = "advance", ![p].cb = next_cb]
  /\ UNCHANGED <<command, complete, Ring, cu, gen_ptr, History>>

get_next_cb_advance(p) ==
  /\ At(p, "advance")
  /\ next_cb' = link(pc[p].cb)
  /\ Goto(p, "available")
  /\ UNCHANGED <<command, complete, cb_to_check, avail_cb, cu, gen_ptr, History>>

\* _nic.avail_cb-- is a load and a store
get_next_cb_load(p) ==
  /\ At(p, "available")
  /\ pc' = [pc EXCEPT ![p].at = "decrement", ![p].reg = avail_cb]
  /\ UNCHANGED <<command, complete, Ring, cu, gen_ptr, History>>

get_next_cb_decrement(p) ==
  /\ At(p, "decrement")
  /\ avail_cb' = pc[p].reg - 1
  /\ Goto(p, "fill")
  /\ UNCHANGED <<command, complete, next_cb, cb_to_check, cu, gen_ptr, History>>

\* Mutant: the block is not the end of the list.
fill_command_no_el(p) ==
  /\ At(p, "fill")
  /\ command' = [command EXCEPT ![pc[p].cb] = Command("tx", FALSE, NoPacket)]
  /\ Goto(p, "data")
  /\ UNCHANGED <<complete, Ring, cu, gen_ptr, History>>

\* cb->command is written first, the frame after it
fill_command(p) ==
  /\ At(p, "fill")
  /\ command' = [command EXCEPT ![pc[p].cb] = Command("tx", TRUE, NoPacket)]
  /\ Goto(p, "data")
  /\ UNCHANGED <<complete, Ring, cu, gen_ptr, History>>

fill_data(p) ==
  /\ At(p, "data")
  /\ command' = [command EXCEPT ![pc[p].cb].packet = <<p, accepted[p] + 1>>]
  /\ accepted' = [accepted EXCEPT ![p] = @ + 1]
  /\ Goto(p, "status")
  /\ UNCHANGED <<complete, Ring, cu, gen_ptr, sent, stranded>>

\* the CU is started if it is idle; if not, send_packet returns 0 all the same
read_status(p) ==
  /\ At(p, "status")
  /\ Goto(p, IF cu.active THEN "idle" ELSE "start")
  /\ stranded' = IF cu.active THEN stranded \cup {pc[p].cb} ELSE stranded
  /\ UNCHANGED <<command, complete, Ring, cu, gen_ptr, accepted, sent>>

write_gen_ptr(p) ==
  /\ At(p, "start")
  /\ gen_ptr' = pc[p].cb
  /\ Goto(p, "command")
  /\ UNCHANGED <<command, complete, Ring, cu, History>>

\* cuc_start: the CU takes whatever address the register holds
start_cu(p) ==
  /\ At(p, "command")
  /\ cu' = [active |-> TRUE, at |-> gen_ptr]
  /\ Goto(p, "idle")
  /\ UNCHANGED <<command, complete, Ring, gen_ptr, History>>

\* intel_nic_enable_rx, the first thing nic_rx_daemon does
enable_rx_gen_ptr ==
  /\ At(RxDaemon, "enable")
  /\ gen_ptr' = Rfd
  /\ Goto(RxDaemon, "ruc_start")
  /\ UNCHANGED <<command, complete, Ring, cu, History>>

\* ruc_start is for the receive unit
enable_rx_command ==
  /\ At(RxDaemon, "ruc_start")
  /\ Goto(RxDaemon, "idle")
  /\ UNCHANGED <<command, complete, Ring, cu, gen_ptr, History>>

-----------------------------------------------------------------------------
(***************************************************************************)
(* The card: the CU carries out its block, marks it complete and stops, or *)
(* goes on to the next one.                                                *)
(***************************************************************************)
cu_execute ==
  /\ cu.active
  /\ complete' = complete \cup {cu.at}
  /\ cu' = IF command[cu.at].el THEN [cu EXCEPT !.active = FALSE]
           ELSE [cu EXCEPT !.at = link(@)]
  /\ sent' = IF command[cu.at].op = "tx" THEN Append(sent, command[cu.at].packet)
             ELSE sent
  /\ UNCHANGED <<command, Ring, gen_ptr, pc, accepted, stranded>>

-----------------------------------------------------------------------------
Books == {"recycle", "clear", "load", "increment", "next", "retest", "take",
          "advance", "available", "decrement"}
InBooks(p) == pc[p].at \in Books

\* where a sender has a block to itself
Filling == {"fill", "data", "status", "start", "command"}

\* p has found the CU idle and has not started it
Starting(p) == pc[p].at \in {"start", "command"}

\* the pointer p wrote for its command has been replaced
Overwritten(p) ==
  \/ At(p, "command") /\ gen_ptr # pc[p].cb
  \/ At(p, "ruc_start") /\ gen_ptr # Rfd

Clash ==
  \/ \E p, q \in Procs : p # q /\ (\/ InBooks(p) /\ InBooks(q)
                                   \/ Starting(p) /\ Starting(q))
  \/ \E p \in Procs : Overwritten(p)

\* as intel_nic_init leaves it: blocks 0 and 1 configure the card, the CU is
\* at the first of them
Init ==
  /\ command = [b \in Blocks |-> CASE b = 0 -> Command("cfg", FALSE, NoPacket)
                                   [] b = 1 -> Command("ia", TRUE, NoPacket)
                                   [] OTHER -> NoCommand]
  /\ complete = {}
  /\ next_cb = 2 % (TOTAL_CB + 1) /\ cb_to_check = 0 /\ avail_cb = TOTAL_CB - 2
  /\ cu = [active |-> TRUE, at |-> 0] /\ gen_ptr = 0
  /\ pc = [p \in Procs |-> [at |-> CASE p = TxDaemon -> "sleep"
                                     [] p = RxDaemon -> "enable"
                                     [] OTHER -> "idle",
                            cb |-> 0, reg |-> 0, ret |-> "sleep"]]
  /\ accepted = [p \in Senders |-> 0]
  /\ sent = <<>>
  /\ stranded = {}

Recycle(p) ==
  \/ recycle_test(p) \/ recycle_clear(p) \/ recycle_load(p)
  \/ recycle_increment(p) \/ recycle_next(p)

Send(p) ==
  \/ send_packet(p) \/ get_next_cb_retest(p) \/ get_next_cb_take(p)
  \/ get_next_cb_advance(p) \/ get_next_cb_load(p) \/ get_next_cb_decrement(p)
  \/ fill_command(p) \/ fill_data(p) \/ read_status(p)
  \/ write_gen_ptr(p) \/ start_cu(p)

EnableRx == enable_rx_gen_ptr \/ enable_rx_command
Daemon == tx_daemon \/ Recycle(TxDaemon)
Sender(p) == Send(p) \/ Recycle(p)

Next ==
  \/ ~Clash /\ Daemon
  \/ ~Clash /\ \E p \in Senders : Sender(p)
  \/ ~Clash /\ EnableRx
  \/ ~Clash /\ cu_execute
  \/ Clash /\ UNCHANGED vars

(***************************************************************************)
(* The processes have the highest priority, so they all keep running; the  *)
(* daemon wakes up after every sleep; the card finishes what it started.   *)
(***************************************************************************)
Fairness ==
  /\ WF_vars(~Clash /\ Daemon)
  /\ \A p \in Senders : WF_vars(~Clash /\ Sender(p))
  /\ WF_vars(~Clash /\ EnableRx)
  /\ WF_vars(~Clash /\ cu_execute)

Spec == Init /\ [][Next]_vars /\ Fairness

-----------------------------------------------------------------------------
(* Properties *)

(***************************************************************************)
(* Types of the globals and of the processes' registers.                   *)
(***************************************************************************)
Places == Books \cup Filling \cup {"sleep", "idle", "enable", "ruc_start"}
Commands == [op : {"nop", "cfg", "ia", "tx"}, el : BOOLEAN,
             packet : {NoPacket} \cup (Senders \X (1 .. MaxPackets))]
TypeOK ==
  /\ command \in [Blocks -> Commands]
  /\ complete \subseteq Blocks /\ stranded \subseteq Blocks
  /\ next_cb \in Blocks /\ cb_to_check \in Blocks
  /\ avail_cb \in 0 .. TOTAL_CB
  /\ cu \in [active : BOOLEAN, at : Blocks] /\ gen_ptr \in Pointers
  /\ pc \in [Procs -> [at : Places,
                       cb : Blocks, reg : 0 .. TOTAL_CB, ret : {"sleep", "retest"}]]
  /\ accepted \in [Senders -> 0 .. MaxPackets]
  /\ sent \in Seq(Senders \X (1 .. MaxPackets))

\* the blocks from cb_to_check on, up to next_cb
InUse == {b \in Blocks : (b - cb_to_check) % (TOTAL_CB + 1)
                           < (next_cb - cb_to_check) % (TOTAL_CB + 1)}

(***************************************************************************)
(* get_next_cb, recycle_command_blocks: outside of them, avail_cb is what  *)
(* the pointers say, and a block that counts as available belongs neither  *)
(* to the CU nor to a sender and holds nothing of its last use.  There is  *)
(* always one more block than that, so the pointers never meet.            *)
(***************************************************************************)
RingBooks ==
  (\A p \in Procs : ~InBooks(p)) =>
    /\ Cardinality(InUse) = TOTAL_CB - avail_cb
    /\ \A b \in Blocks \ InUse :
          /\ command[b] = NoCommand /\ b \notin complete
          /\ ~(cu.active /\ cu.at = b)
          /\ \A p \in Senders : pc[p].at \in Filling => pc[p].cb # b

(***************************************************************************)
(* send_packet: the CU never sees a receive descriptor, a block that       *)
(* somebody is filling or one that has already been carried out.  So it is *)
(* until two processes are inside one of the three places at the head of   *)
(* this module; whoever is preempted anywhere else does no harm.           *)
(***************************************************************************)
CuSeesWholeCommands ==
  cu.active => /\ cu.at \in Blocks
               /\ command[cu.at].op # "nop"
               /\ command[cu.at].op = "tx" => command[cu.at].packet # NoPacket
               /\ cu.at \notin complete
               /\ \A p \in Senders : pc[p].at \in Filling => pc[p].cb # cu.at

(***************************************************************************)
(* The packets of one sender go out in order and none goes out twice.      *)
(***************************************************************************)
SentInOrder ==
  \A i, j \in 1 .. Len(sent) :
     i < j /\ sent[i][1] = sent[j][1] => sent[i][2] < sent[j][2]

(***************************************************************************)
(* A ring without an available block gets one again, even if nobody sends, *)
(* as long as the CU has been started for all of them.                     *)
(***************************************************************************)
RoomReturns == avail_cb = 0 ~> (avail_cb > 0 \/ stranded # {} \/ Clash)
=============================================================================
