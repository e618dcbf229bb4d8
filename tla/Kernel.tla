------------------------------- MODULE Kernel -------------------------------
(***************************************************************************)
(* The process core of the baseline kernel: PCB and stack pools, the       *)
(* multi-level ready queue, the clock, and the system calls and faults     *)
(* that move a process between queues.                                     *)
(*                                                                         *)
(* Every gate of the IDT is an interrupt gate (support.c, set_idt_entry),  *)
(* so a handler runs with interrupts off on one CPU: a handler is one step *)
(* from kernel state to kernel state.  The functions it calls are written  *)
(* as operators on a kernel-state record s, and the handler composes them  *)
(* in the order of the C code.  Only the wake-up loop of _clk_isr takes    *)
(* one step per iteration; nothing else can step in between (isr).         *)
(*                                                                         *)
(* User programs are arbitrary, except init and idle, which run the loops  *)
(* of user.c.                                                              *)
(***************************************************************************)
EXTENDS Integers, Sequences, FiniteSets, SequencesExt

CONSTANTS
  N_PCBS,         \* size of _pcbs (process.h)
  N_STACKS,       \* size of _stacks (stack.h)
  N_QNODES,       \* size of _qnodes (queue.c)
  QUANT_STD,      \* ticks in a quantum (clock.h)
  PID_FIRST_USER, \* first PID given to fork (process.h); PID_INIT is 1
  PID_LIMIT,      \* _sys_fork refuses to go past it (65000 in the code)
  PID_HALF,       \* 2^15: _next_pid is unsigned, pid_t a signed 16-bit type
  TIME_MOD,       \* 2^32: time_t is unsigned and wraps
  SleepArgs,      \* arguments user programs pass to sleep()
  PrioArgs,       \* ... to exec(), which does not check them
  KillArgs        \* ... to kill()

ASSUME PoolAssumption ==
  /\ N_PCBS \in Nat \ {0}
  /\ N_STACKS \in Nat \ {0}
  /\ N_QNODES \in Nat /\ N_QNODES >= N_PCBS + N_STACKS
ASSUME NumberAssumption ==
  /\ QUANT_STD \in Nat \ {0}
  /\ TIME_MOD \in Nat \ {0}
  /\ PID_HALF \in Nat /\ PID_LIMIT \in Nat /\ PID_FIRST_USER \in Nat
  /\ 1 < PID_FIRST_USER
  /\ PID_FIRST_USER <= PID_LIMIT
  /\ PID_LIMIT < 2 * PID_HALF
ASSUME ArgAssumption ==
  SleepArgs \subseteq Nat /\ PrioArgs \subseteq Int /\ KillArgs \subseteq Int

Pcbs == 0 .. N_PCBS - 1
Stacks == 0 .. N_STACKS - 1

\* prio_t (types.h): the index of a ready queue
P_SYSTEM == 0
P_LOW == 2
P_MIN == 3
Prios == P_SYSTEM .. P_MIN

PID_INIT == 1
NO_PID == -1

States == {"FREE", "NEW", "READY", "RUNNING", "SLEEPING", "WAITING",
           "BLOCKED", "KILLED", "ZOMBIE"}

(***************************************************************************)
(* What the process is executing: init before and after it has spawned     *)
(* idle, idle before and after its exec, or any other program.             *)
(***************************************************************************)
Programs == {"boot", "init", "idleboot", "idle", "user"}

\* The kernel queues of PCBs; _ready[prio] is Ready(prio).
Ready(prio) == CASE prio = 0 -> "ready0" [] prio = 1 -> "ready1"
                 [] prio = 2 -> "ready2" [] OTHER -> "ready3"
QNames == {"free", "ready0", "ready1", "ready2", "ready3",
           "sleeping", "waiting", "reading", "zombie"}

VARIABLES
  pcbs,        \* _pcbs
  queues,      \* the queues of PCBs, each a sequence of PCB indices
  free_stacks, \* _free_stacks
  free_qnodes, \* length of the _free_qnodes list
  current,     \* _current
  q_ticks,     \* _current->q_ticks
  panic,       \* "none", or the function whose _kpanic or __panic was reached
  now,         \* _now
  next_pid,    \* _next_pid
  isr          \* "clock" inside the wake-up loop of _clk_isr, else "none"

vars == <<pcbs, queues, free_stacks, free_qnodes, current, q_ticks, panic,
          now, next_pid, isr>>

(***************************************************************************)
(* The panics over a failed _q_enque or _q_remove carry the name of the    *)
(* function that made the call; the other panics of _zombify and _sys_kill *)
(* carry their reason.                                                     *)
(***************************************************************************)
QueuePanics == {"_schedule", "_zombify", "_sys_sleep", "_sys_kill", "_sys_wait"}
MemoryPanics == {"get_next_page", "_k_mmap"}
Panics == {"none", "_dispatch", "no parent", "bad victim state"}
            \cup QueuePanics \cup MemoryPanics

\* The part of the state the kernel functions below work on.
K == [pcbs |-> pcbs, queues |-> queues, stacks |-> free_stacks,
      qnodes |-> free_qnodes, current |-> current, ticks |-> q_ticks,
      panic |-> panic]

(***************************************************************************)
(* A handler ends in state s.  _kpanic stops the machine: the writes of a  *)
(* handler that panics are never seen by anyone and are left out.          *)
(***************************************************************************)
kpanic(s, who) == IF s.panic = "none" THEN [s EXCEPT !.panic = who] ELSE s

Return(t) ==
  \E s \in {t} :
    /\ panic' = s.panic
    /\ IF s.panic = "none"
       THEN /\ pcbs' = s.pcbs
            /\ queues' = s.queues
            /\ free_stacks' = s.stacks
            /\ free_qnodes' = s.qnodes
            /\ current' = s.current
            /\ q_ticks' = s.ticks
       ELSE UNCHANGED <<pcbs, queues, free_stacks, free_qnodes, current,
                        q_ticks>>

-----------------------------------------------------------------------------
(* queue.c, as its callers see it *)

\* Mutant: _sleeping without its comparison function.
wakeup_slot_fifo(s, seq, p) == Len(seq) + 1

(***************************************************************************)
(* _sleeping is ordered by _cmp_wakeup: p goes before the first sleeper    *)
(* with a later wakeup, so after those with the same one.  Every other     *)
(* queue has no comparison function and is FIFO.                           *)
(***************************************************************************)
wakeup_slot(s, seq, p) ==
  CHOOSE i \in 1 .. Len(seq) + 1 :
    /\ \A j \in 1 .. i - 1 : s.pcbs[seq[j]].wakeup <= s.pcbs[p].wakeup
    /\ i <= Len(seq) => s.pcbs[p].wakeup < s.pcbs[seq[i]].wakeup

\* Mutant: unordered entries are put in front.
q_enque_front(s, n, p) ==
  IF s.qnodes = 0 THEN s
  ELSE [s EXCEPT !.queues[n] = IF n = "sleeping"
                               THEN InsertAt(@, wakeup_slot(s, @, p), p)
                               ELSE <<p>> \o @,
                 !.qnodes = @ - 1]

\* E_NO_QNODES leaves the queue as it is
q_enque(s, n, p) ==
  IF s.qnodes = 0 THEN s
  ELSE [s EXCEPT !.queues[n] = IF n = "sleeping"
                               THEN InsertAt(@, wakeup_slot(s, @, p), p)
                               ELSE Append(@, p),
                 !.qnodes = @ - 1]

\* what most callers do: panic when _q_enque fails
enque_or_panic(s, n, p, who) ==
  IF s.qnodes = 0 THEN kpanic(s, who) ELSE q_enque(s, n, p)

q_deque(s, n) == [s EXCEPT !.queues[n] = Tail(@), !.qnodes = @ + 1]

\* Mutant: the qnode of a removed entry is not freed.
q_remove_leak(s, n, p, who) ==
  IF \E i \in DOMAIN s.queues[n] : s.queues[n][i] = p
  THEN [s EXCEPT !.queues[n] = RemoveAt(@, CHOOSE i \in DOMAIN @ : @[i] = p)]
  ELSE kpanic(s, who)

\* _q_remove of p, whose callers all panic when p is not found
q_remove(s, n, p, who) ==
  IF \E i \in DOMAIN s.queues[n] : s.queues[n][i] = p
  THEN [s EXCEPT !.queues[n] = RemoveAt(@, CHOOSE i \in DOMAIN @ : @[i] = p),
                 !.qnodes = @ + 1]
  ELSE kpanic(s, who)

-----------------------------------------------------------------------------
(* process.c and stack.c *)

\* PCBs are searched in array order; First(S) is the one the scan meets.
First(S) == CHOOSE p \in S : \A r \in S : p <= r

HavingPid(s, pid) == {p \in Pcbs : s.pcbs[p].pid = pid}
ChildrenOf(s, pid) == {p \in Pcbs : s.pcbs[p].ppid = pid}

pcb_alloc(s) ==
  [q_deque(s, "free") EXCEPT !.pcbs[Head(s.queues["free"])].state = "NEW"]

\* the status of the _q_enque is ignored here, and in _stk_dealloc
pcb_dealloc(s, p) ==
  q_enque([s EXCEPT !.pcbs[p].state = "FREE",
                    !.pcbs[p].pid = NO_PID,
                    !.pcbs[p].ppid = NO_PID], "free", p)

\* Mutant: the qnode of the stack is not freed.
stk_alloc_leak(s) == [s EXCEPT !.stacks = Tail(@)]

stk_alloc(s) == [s EXCEPT !.stacks = Tail(@), !.qnodes = @ + 1]

stk_dealloc(s, stk) ==
  IF s.qnodes = 0 THEN s
  ELSE [s EXCEPT !.stacks = Append(@, stk), !.qnodes = @ - 1]

\* Mutant: the stack is not given back.
pcb_cleanup_leak(s, p) == pcb_dealloc(s, p)

pcb_cleanup(s, p) == pcb_dealloc(stk_dealloc(s, s.pcbs[p].stack), p)

-----------------------------------------------------------------------------
(* scheduler.c *)

\* _schedule: an illegal priority becomes P_LOW, then the tail of its queue
schedule(s, p) ==
  LET prio == IF s.pcbs[p].prio \in Prios THEN s.pcbs[p].prio ELSE P_LOW
  IN  enque_or_panic([s EXCEPT !.pcbs[p].prio = prio,
                               !.pcbs[p].state = "READY"],
                     Ready(prio), p, "_schedule")

\* Mutants: the last ready queue is not searched; the search runs backwards.
dispatch_short(s) ==
  LET nonempty == {r \in Prios \ {P_MIN} : s.queues[Ready(r)] # <<>>}
      q == Ready(First(nonempty))
      p == Head(s.queues[q])
  IN  IF nonempty = {} THEN kpanic(s, "_dispatch")
      ELSE [q_deque(s, q) EXCEPT !.current = p,
                                 !.pcbs[p].state = "RUNNING",
                                 !.ticks = QUANT_STD]

dispatch_backwards(s) ==
  LET nonempty == {r \in Prios : s.queues[Ready(r)] # <<>>}
      q == Ready(CHOOSE r \in nonempty : \A x \in nonempty : x <= r)
      p == Head(s.queues[q])
  IN  IF nonempty = {} THEN kpanic(s, "_dispatch")
      ELSE [q_deque(s, q) EXCEPT !.current = p,
                                 !.pcbs[p].state = "RUNNING",
                                 !.ticks = QUANT_STD]

\* _dispatch: the head of the first non-empty ready queue gets the CPU
dispatch(s) ==
  LET nonempty == {r \in Prios : s.queues[Ready(r)] # <<>>}
      q == Ready(First(nonempty))
      p == Head(s.queues[q])
  IN  IF nonempty = {} THEN kpanic(s, "_dispatch")
      ELSE [q_deque(s, q) EXCEPT !.current = p,
                                 !.pcbs[p].state = "RUNNING",
                                 !.ticks = QUANT_STD]

-----------------------------------------------------------------------------
(* system.c: _zombify *)

(***************************************************************************)
(* Mutants: init's count is left alone; it grows by the dead parent's      *)
(* count; only the first child found is handed over.                       *)
(***************************************************************************)
adopted_as(s, p, kids, n) ==
  [s EXCEPT !.pcbs = [r \in Pcbs |->
                       [s.pcbs[r] EXCEPT
                         !.ppid = IF r \in kids THEN PID_INIT ELSE @,
                         !.children = IF r = p THEN 0
                                      ELSE IF r = 0 THEN @ + n ELSE @]]]
reparent_uncounted(s, p) ==
  IF s.pcbs[p].children > 0
  THEN adopted_as(s, p, ChildrenOf(s, s.pcbs[p].pid), 0) ELSE s
reparent_one(s, p) ==
  LET kids == ChildrenOf(s, s.pcbs[p].pid)
      one == {c \in kids : \A x \in kids : c <= x}
  IN  IF s.pcbs[p].children > 0
      THEN adopted_as(s, p, one, Cardinality(one)) ELSE s

(***************************************************************************)
(* The children of p become children of init, whose PCB is the first one   *)
(* _init allocates.  A count of zero skips the search.                     *)
(***************************************************************************)
reparent(s, p) ==
  LET kids == ChildrenOf(s, s.pcbs[p].pid)
      adopted == [r \in Pcbs |->
                   [s.pcbs[r] EXCEPT
                     !.ppid = IF r \in kids THEN PID_INIT ELSE @,
                     !.children = IF r = p THEN 0
                                  ELSE IF r = 0 THEN @ + Cardinality(kids)
                                  ELSE @]]
  IN  IF s.pcbs[p].children > 0 THEN [s EXCEPT !.pcbs = adopted] ELSE s

\* Mutant: the parent is woken, and the dead child left for a later wait().
zombify_keep(s, p) ==
  LET t == reparent(s, p)
      found == HavingPid(t, t.pcbs[p].ppid)
      parent == First(found)
  IN  IF found = {} THEN kpanic(t, "no parent")
      ELSE IF t.pcbs[parent].state = "WAITING"
      THEN schedule(enque_or_panic(q_remove(t, "waiting", parent, "_zombify"),
                                   "zombie", p, "_zombify"), parent)
      ELSE enque_or_panic(t, "zombie", p, "_zombify")

(***************************************************************************)
(* Hand the dead process p to a parent blocked in wait(), which is then    *)
(* scheduled and p's PCB and stack freed, or leave it on the zombie queue. *)
(* The parent's count of children is not changed.                          *)
(***************************************************************************)
zombify(s, p) ==
  LET t == reparent(s, p)
      found == HavingPid(t, t.pcbs[p].ppid)
      parent == First(found)
  IN  IF found = {} THEN kpanic(t, "no parent")
      ELSE IF t.pcbs[parent].state = "WAITING"
      THEN schedule(pcb_cleanup(q_remove(t, "waiting", parent, "_zombify"), p),
                    parent)
      ELSE enque_or_panic(t, "zombie", p, "_zombify")

-----------------------------------------------------------------------------
(* syscall.c: the calls of the running process *)

Running == panic = "none" /\ isr = "none"
Calls(programs) == Running /\ pcbs[current].prog \in programs

\* _sys_exit, also reached by _sys_isr for a call code that does not exist
sys_exit ==
  /\ Calls({"user"})
  /\ Return(dispatch(zombify([K EXCEPT !.pcbs[current].state = "ZOMBIE"],
                             current)))
  /\ UNCHANGED <<now, next_pid, isr>>

\* __page_fault_isr (memory_map.c) ends the process like a kill of itself
page_fault_isr ==
  /\ Calls({"user"})
  /\ Return(dispatch(zombify([K EXCEPT !.pcbs[current].state = "KILLED"],
                             current)))
  /\ UNCHANGED <<now, next_pid, isr>>

\* _sys_read when no character came back: queue first, then block; without
\* a qnode it returns E_FAILURE and nothing changes
sys_read_block ==
  /\ Calls({"user"})
  /\ free_qnodes > 0
  /\ Return(dispatch([q_enque(K, "reading", current)
                        EXCEPT !.pcbs[current].state = "BLOCKED"]))
  /\ UNCHANGED <<now, next_pid, isr>>

sys_sleep(msec) ==
  /\ Calls({"user"})
  /\ Return(dispatch(
       IF msec = 0 THEN schedule(K, current)
       ELSE enque_or_panic(
              [K EXCEPT !.pcbs[current].wakeup = (now + msec) % TIME_MOD,
                        !.pcbs[current].state = "SLEEPING"],
              "sleeping", current, "_sys_sleep")))
  /\ UNCHANGED <<now, next_pid, isr>>

\* the queue a PCB belongs on, by its state
Home(pcb) == CASE pcb.state = "FREE"     -> "free"
               [] pcb.state = "READY"    -> Ready(pcb.prio)
               [] pcb.state = "SLEEPING" -> "sleeping"
               [] pcb.state = "WAITING"  -> "waiting"
               [] pcb.state = "BLOCKED"  -> "reading"
               [] OTHER                  -> "zombie"

\* Mutants: a blocked reader stays queued; the dead can be killed again.
kill_victim_queued(s, victim) ==
  LET pcb == s.pcbs[victim]
      off == IF pcb.state \in {"RUNNING", "BLOCKED"} THEN s
             ELSE q_remove(s, Home(pcb), victim, "_sys_kill")
      dead == zombify([off EXCEPT !.pcbs[victim].state = "KILLED"], victim)
  IN  IF pcb.state \in {"KILLED", "ZOMBIE"} THEN s
      ELSE IF pcb.state \in {"FREE", "NEW"} THEN kpanic(s, "bad victim state")
      ELSE IF victim = s.current THEN dispatch(dead) ELSE dead

kill_victim_again(s, victim) ==
  LET pcb == s.pcbs[victim]
      off == IF pcb.state = "RUNNING" THEN s
             ELSE q_remove(s, Home(pcb), victim, "_sys_kill")
      dead == zombify([off EXCEPT !.pcbs[victim].state = "KILLED"], victim)
  IN  IF pcb.state \in {"FREE", "NEW"} THEN kpanic(s, "bad victim state")
      ELSE IF victim = s.current THEN dispatch(dead) ELSE dead

(***************************************************************************)
(* _sys_kill of the PCB found for a PID: a dead victim is left alone, one  *)
(* in a state the switch does not know is a panic, any other is pulled off *)
(* its queue (the running one is on none) and buried.                      *)
(***************************************************************************)
kill_victim(s, victim) ==
  LET pcb == s.pcbs[victim]
      off == IF pcb.state = "RUNNING" THEN s
             ELSE q_remove(s, Home(pcb), victim, "_sys_kill")
      dead == zombify([off EXCEPT !.pcbs[victim].state = "KILLED"], victim)
  IN  IF pcb.state \in {"KILLED", "ZOMBIE"} THEN s
      ELSE IF pcb.state \in {"FREE", "NEW"} THEN kpanic(s, "bad victim state")
      ELSE IF victim = s.current THEN dispatch(dead) ELSE dead

sys_kill(pid) ==
  /\ Calls({"user"})
  /\ LET found == HavingPid(K, pid)
     IN  Return(IF found = {} THEN K ELSE kill_victim(K, First(found)))
  /\ UNCHANGED <<now, next_pid, isr>>

(***************************************************************************)
(* _sys_wait: E_NO_CHILD when the count says so; else the first child in   *)
(* the table whose state is PS_ZOMBIE is buried and counted off; else the  *)
(* caller blocks.                                                          *)
(***************************************************************************)
wait_reap(s, p, child) ==
  pcb_cleanup([q_remove(s, "zombie", child, "_sys_wait")
                 EXCEPT !.pcbs[p].children = @ - 1], child)

wait_block(s, p) ==
  dispatch(enque_or_panic([s EXCEPT !.pcbs[p].state = "WAITING"],
                          "waiting", p, "_sys_wait"))

\* Mutant: wait() blocks without looking for a child that has exited.
zombies_of_none(s, p) == {}

zombies_of(s, p) ==
  {c \in ChildrenOf(s, s.pcbs[p].pid) : s.pcbs[c].state = "ZOMBIE"}

sys_wait ==
  /\ Calls({"init", "user"})
  /\ LET zombies == zombies_of(K, current)
     IN  Return(IF pcbs[current].children = 0 THEN K
                ELSE IF zombies # {} THEN wait_reap(K, current, First(zombies))
                ELSE wait_block(K, current))
  /\ UNCHANGED <<now, next_pid, isr>>

\* the 16 bits of _next_pid read as a pid_t
to_pid(n) == IF n < PID_HALF THEN n ELSE n - 2 * PID_HALF

\* init spawns idle first and other programs later (user.c); anything else
\* gets a copy of itself
init_forks == [boot |-> "idleboot", init |-> "user"]
after_fork(prog) == IF prog \in DOMAIN init_forks THEN "init" ELSE prog
forked(prog) == IF prog \in DOMAIN init_forks THEN init_forks[prog] ELSE prog

(***************************************************************************)
(* The new PCB is a copy of the parent's, count of children included, with *)
(* its own PID, PPID and stack.                                            *)
(***************************************************************************)
fork_child(s, parent) ==
  LET new == Head(s.queues["free"])
      stk == Head(s.stacks)
      pcb == s.pcbs[parent]
      t == stk_alloc(pcb_alloc(s))
  IN  schedule([t EXCEPT
                  !.pcbs[new] = [pcb EXCEPT !.pid = to_pid(next_pid),
                                            !.ppid = pcb.pid,
                                            !.stack = stk,
                                            !.prog = forked(@)],
                  !.pcbs[parent].children = @ + 1,
                  !.pcbs[parent].prog = after_fork(@)], new)

\* Mutant: the PID limit is tested one too late.
sys_fork_past_limit ==
  /\ Calls({"boot", "init", "user"})
  /\ IF next_pid > PID_LIMIT \/ queues["free"] = <<>>
     THEN Return(K) /\ UNCHANGED next_pid
     ELSE IF free_stacks = <<>>
     THEN /\ Return(pcb_dealloc(pcb_alloc(K), Head(queues["free"])))
          /\ UNCHANGED next_pid
     ELSE /\ Return(fork_child(K, current))
          /\ next_pid' = next_pid + 1
  /\ UNCHANGED <<now, isr>>

\* _sys_fork; out of stacks, the PCB goes back to the tail of the free queue
sys_fork ==
  /\ Calls({"boot", "init", "user"})
  /\ IF next_pid >= PID_LIMIT \/ queues["free"] = <<>>
     THEN Return(K) /\ UNCHANGED next_pid
     ELSE IF free_stacks = <<>>
     THEN /\ Return(pcb_dealloc(pcb_alloc(K), Head(queues["free"])))
          /\ UNCHANGED next_pid
     ELSE /\ Return(fork_child(K, current))
          /\ next_pid' = next_pid + 1
  /\ UNCHANGED <<now, isr>>

ExecCalls(prio) == \/ Calls({"user"}) /\ prio \in PrioArgs
                   \/ Calls({"idleboot"}) /\ prio = P_MIN

\* _sys_exec keeps the CPU and does not check the priority
sys_exec(prio) ==
  /\ ExecCalls(prio)
  /\ Return([K EXCEPT !.pcbs[current].prio = prio,
                      !.pcbs[current].prog = IF @ = "user" THEN @ ELSE "idle"])
  /\ UNCHANGED <<now, next_pid, isr>>

(***************************************************************************)
(* ... unless new_page_directory, which P_SYSTEM does not need, gets no    *)
(* page.  Pages are counted in Memory, not here: any call that needs one   *)
(* may be the one that finds none left.                                    *)
(***************************************************************************)
sys_exec_no_page(prio) ==
  /\ ExecCalls(prio) /\ prio # P_SYSTEM
  /\ Return(kpanic(K, "get_next_page"))
  /\ UNCHANGED <<now, next_pid, isr>>

(***************************************************************************)
(* _sys_mmap touches nothing in this module, but _k_mmap may panic, for    *)
(* want of a page or over the identity mapping.  A program that calls      *)
(* get_next_page itself, as the receive daemon does, stops the same way.   *)
(***************************************************************************)
sys_mmap ==
  /\ Calls({"user"})
  /\ Return(K) \/ Return(kpanic(K, "_k_mmap"))
  /\ UNCHANGED <<now, next_pid, isr>>

\* __panic does not return, and interrupts are off
Halted == panic # "none" /\ UNCHANGED vars

-----------------------------------------------------------------------------
(* Interrupts *)

\* _sio_isr (sio.c) with a character for the first blocked reader
sio_isr_reader ==
  /\ Running
  /\ queues["reading"] # <<>>
  /\ Return(schedule(q_deque(K, "reading"), Head(queues["reading"])))
  /\ UNCHANGED <<now, next_pid, isr>>

\* _clk_isr up to its wake-up loop
clk_isr_tick ==
  /\ Running
  /\ now' = (now + 1) % TIME_MOD
  /\ isr' = "clock"
  /\ UNCHANGED <<pcbs, queues, free_stacks, free_qnodes, current, q_ticks,
                 panic, next_pid>>

\* Mutant: a sleeper is woken one tick late.
Overdue_late ==
  /\ queues["sleeping"] # <<>>
  /\ pcbs[Head(queues["sleeping"])].wakeup < now

Overdue ==
  /\ queues["sleeping"] # <<>>
  /\ pcbs[Head(queues["sleeping"])].wakeup <= now

\* one iteration of the loop
clk_isr_wake ==
  /\ panic = "none" /\ isr = "clock"
  /\ Overdue
  /\ Return(schedule(q_deque(K, "sleeping"), Head(queues["sleeping"])))
  /\ UNCHANGED <<now, next_pid, isr>>

\* Mutants: the quantum ends one tick late; it is renewed instead of ending.
clk_isr_charge_late ==
  /\ panic = "none" /\ isr = "clock"
  /\ ~Overdue
  /\ Return(IF q_ticks < 1 THEN dispatch(schedule(K, current))
            ELSE [K EXCEPT !.ticks = @ - 1])
  /\ isr' = "none"
  /\ UNCHANGED <<now, next_pid>>

clk_isr_charge_renew ==
  /\ panic = "none" /\ isr = "clock"
  /\ ~Overdue
  /\ Return(IF q_ticks - 1 < 1 THEN [K EXCEPT !.ticks = QUANT_STD]
            ELSE [K EXCEPT !.ticks = @ - 1])
  /\ isr' = "none"
  /\ UNCHANGED <<now, next_pid>>

\* after the loop: charge the tick, and reschedule at the end of a quantum
clk_isr_charge ==
  /\ panic = "none" /\ isr = "clock"
  /\ ~Overdue
  /\ Return(IF q_ticks - 1 < 1 THEN dispatch(schedule(K, current))
            ELSE [K EXCEPT !.ticks = @ - 1])
  /\ isr' = "none"
  /\ UNCHANGED <<now, next_pid>>

clk_isr == clk_isr_tick \/ clk_isr_wake \/ clk_isr_charge

-----------------------------------------------------------------------------
(***************************************************************************)
(* _init (system.c): the first PCB and the first stack go to init, which   *)
(* is dispatched; everything else is free.                                 *)
(***************************************************************************)
InitPcb == [state |-> "RUNNING", pid |-> PID_INIT, ppid |-> PID_INIT,
            prio |-> P_SYSTEM, children |-> 0, wakeup |-> 0, stack |-> 0,
            prog |-> "boot"]
FreePcb == [state |-> "FREE", pid |-> NO_PID, ppid |-> NO_PID,
            prio |-> P_SYSTEM, children |-> 0, wakeup |-> 0, stack |-> 0,
            prog |-> "user"]

Init ==
  /\ pcbs = [p \in Pcbs |-> IF p = 0 THEN InitPcb ELSE FreePcb]
  /\ queues = [n \in QNames |->
                 IF n = "free" THEN [i \in 1 .. N_PCBS - 1 |-> i] ELSE <<>>]
  /\ free_stacks = [i \in 1 .. N_STACKS - 1 |-> i]
  /\ free_qnodes = N_QNODES - (N_PCBS - 1) - (N_STACKS - 1)
  /\ current = 0
  /\ q_ticks = QUANT_STD
  /\ panic = "none"
  /\ now = 0
  /\ next_pid = PID_FIRST_USER
  /\ isr = "none"

Next ==
  \/ sys_exit
  \/ page_fault_isr
  \/ sys_read_block
  \/ \E msec \in SleepArgs : sys_sleep(msec)
  \/ \E pid \in KillArgs : sys_kill(pid)
  \/ sys_wait
  \/ sys_fork
  \/ \E prio \in PrioArgs \cup {P_MIN} : sys_exec(prio)
  \/ \E prio \in PrioArgs \cup {P_MIN} : sys_exec_no_page(prio)
  \/ sys_mmap
  \/ sio_isr_reader
  \/ clk_isr_tick
  \/ clk_isr_wake
  \/ clk_isr_charge
  \/ Halted

\* The timer keeps interrupting, whatever the programs do.
Fairness == WF_vars(clk_isr)

Spec == Init /\ [][Next]_vars /\ Fairness

-----------------------------------------------------------------------------
(* Properties *)

PcbRecords ==
  [state : States, pid : Int, ppid : Int, prio : Int, children : Nat,
   wakeup : Nat, stack : Stacks, prog : Programs]

(***************************************************************************)
(* Types of the kernel's globals.                                          *)
(***************************************************************************)
TypeOK ==
  /\ pcbs \in [Pcbs -> PcbRecords]
  /\ queues \in [QNames -> Seq(Pcbs)]
  /\ free_stacks \in Seq(Stacks)
  /\ free_qnodes \in 0 .. N_QNODES
  /\ current \in Pcbs
  /\ q_ticks \in 1 .. QUANT_STD
  /\ panic \in Panics
  /\ now \in 0 .. TIME_MOD - 1
  /\ next_pid \in PID_FIRST_USER .. PID_LIMIT
  /\ isr \in {"none", "clock"}

(***************************************************************************)
(* Loose(s, D): the PCBs in D are on no queue; every other PCB is on the   *)
(* queue its state names, once, and on no other.  Inside a handler D is    *)
(* the PCBs in flight; between handlers it is just the running one.        *)
(***************************************************************************)
Loose(s, D) ==
  /\ \A p \in Pcbs \ D :
       /\ s.pcbs[p].state \notin {"NEW", "RUNNING"}
       /\ s.pcbs[p].state = "READY" => s.pcbs[p].prio \in Prios
  /\ \A n \in QNames :
       /\ IsInjective(s.queues[n])
       /\ Range(s.queues[n]) = {p \in Pcbs \ D : Home(s.pcbs[p]) = n}

(***************************************************************************)
(* Between handlers exactly one process is RUNNING, it is _current and on  *)
(* no queue, and every other PCB is on exactly the queue its state names:  *)
(* none is lost, queued twice, or left behind by kill(), wait() or exit(). *)
(***************************************************************************)
QueueDiscipline == pcbs[current].state = "RUNNING" /\ Loose(K, {current})

InUse(s) == {p \in Pcbs : s.pcbs[p].state # "FREE"}
Owned(s) ==
  /\ IsInjective(s.stacks)
  /\ \A p \in InUse(s) : s.pcbs[p].stack \notin Range(s.stacks)
  /\ \A p, r \in InUse(s) : s.pcbs[p].stack = s.pcbs[r].stack => p = r
  /\ \A stk \in Stacks : stk \in Range(s.stacks)
                           \/ \E p \in InUse(s) : s.pcbs[p].stack = stk

(***************************************************************************)
(* Every stack is on the free queue, once, or belongs to exactly one       *)
(* process: no two processes share a stack and none is leaked.             *)
(***************************************************************************)
StackOwnership == Owned(K)

(***************************************************************************)
(* A qnode is either on the free list or in use by one queue entry, so the *)
(* pool of N_PCBS + N_STACKS qnodes covers the worst case.                 *)
(***************************************************************************)
QnodesBalance ==
  free_qnodes = N_QNODES - (N_PCBS - 1) - Len(free_stacks)

(***************************************************************************)
(* No call of _q_enque or _q_remove fails: no handler panics because the   *)
(* qnodes ran out (_schedule, _sys_sleep, _sys_wait, _zombify) or because  *)
(* a PCB was not on the queue its state names (_sys_kill, _sys_wait,       *)
(* _zombify).  The panics left are about nobody being ready, a missing     *)
(* parent, a victim in an unknown state, and memory.                       *)
(***************************************************************************)
QueuesNeverFail == panic \notin QueuePanics

Active == InUse(K)
IsDead(p) == pcbs[p].state \in {"KILLED", "ZOMBIE"}
Kids(p) == {c \in Active \ {p} : pcbs[c].ppid = pcbs[p].pid}

(***************************************************************************)
(* A PID names at most one process, and never the value that marks a free  *)
(* PCB, although PIDs past 2^15 come out negative.                         *)
(***************************************************************************)
PidsUnique ==
  /\ \A p, r \in Active : pcbs[p].pid = pcbs[r].pid => p = r
  /\ \A p \in Pcbs : pcbs[p].pid = NO_PID <=> p \notin Active

(***************************************************************************)
(* The count of children is never below the number of children, so a zero  *)
(* lets wait() report E_NO_CHILD and lets _zombify skip its search.  A     *)
(* killed init, which reparents its children to itself, is the exception.  *)
(***************************************************************************)
ChildrenCounted ==
  \A p \in Active : (p = 0 /\ IsDead(p))
                     \/ Cardinality(Kids(p)) <= pcbs[p].children

(***************************************************************************)
(* The parent a process names exists and, unless it is init, is alive: an  *)
(* orphan always got a new parent, and _zombify finds somebody to tell.    *)
(***************************************************************************)
ParentAlive ==
  \A p \in Active : \E r \in Active :
    /\ pcbs[r].pid = pcbs[p].ppid
    /\ IsDead(r) => r = 0

(***************************************************************************)
(* Nobody but init sleeps in wait() over a child that has already exited:  *)
(* exit() and wait() see each other whichever runs first.                  *)
(***************************************************************************)
NoLostExit ==
  \A p \in Active \ {0} :
    pcbs[p].state = "WAITING" => \A c \in Kids(p) : pcbs[c].state # "ZOMBIE"

(***************************************************************************)
(* The sleep queue is sorted by wake-up time, also around the wrap of the  *)
(* clock and after kill() takes a sleeper out of the middle.               *)
(***************************************************************************)
SleepersSorted ==
  LET q == queues["sleeping"]
  IN  \A i, j \in DOMAIN q : i <= j => pcbs[q[i]].wakeup <= pcbs[q[j]].wakeup

(***************************************************************************)
(* The process core never panics: a dispatch always finds a ready process, *)
(* a removal its PCB, an insertion a qnode, and a dead process its parent. *)
(* Only memory_map.c stops the machine, when exec or mmap gets no page or  *)
(* mmap is asked to change the identity mapping (Memory says when).        *)
(***************************************************************************)
OnlyMemoryPanics == panic \in {"none"} \cup MemoryPanics

(***************************************************************************)
(* A process that gets the CPU has no ready process of higher priority     *)
(* behind it.                                                              *)
(***************************************************************************)
HighestFirst ==
  [][current' # current =>
       \A p \in Pcbs : pcbs'[p].state = "READY"
                         => pcbs'[p].prio >= pcbs'[current'].prio]_vars

(***************************************************************************)
(* Dead is dead: a process that was killed or has exited only leaves that  *)
(* state when its PCB is freed, and its PID goes with it.                  *)
(***************************************************************************)
DeadStayDead ==
  [][\A p \in Pcbs : IsDead(p) =>
       \/ pcbs'[p].state = pcbs[p].state /\ pcbs'[p].pid = pcbs[p].pid
       \/ pcbs'[p].state = "FREE"]_vars

(***************************************************************************)
(* wait() only returns to a blocked caller because a child of its own died *)
(* and is freed in the same step.                                          *)
(***************************************************************************)
WaitEndsWithChild ==
  [][\A p \in Pcbs :
       pcbs[p].state = "WAITING" /\ pcbs'[p].state \in {"READY", "RUNNING"}
         => \E c \in Kids(p) : ~IsDead(c) /\ pcbs'[c].state = "FREE"]_vars

(***************************************************************************)
(* Once a clock interrupt is over no sleeper it should have woken is still *)
(* asleep.                                                                 *)
(***************************************************************************)
WakesAll ==
  [][isr = "clock" /\ isr' = "none" =>
       \A p \in Pcbs : pcbs'[p].state = "SLEEPING" => pcbs'[p].wakeup > now]_vars

(***************************************************************************)
(* Equal priorities take turns: as long as a process waits on a ready      *)
(* queue, only those that came before it are dispatched from that queue or *)
(* stand in front of it.                                                   *)
(***************************************************************************)
NoOvertaking ==
  [][\A r \in Prios : LET q == queues[Ready(r)]
                          w == queues'[Ready(r)]
     IN  \A i \in DOMAIN q : \A l \in DOMAIN w : w[l] = q[i] =>
           /\ \A j \in i + 1 .. Len(q) : current' # q[j]
           /\ \A m \in 1 .. l - 1 : \E j \in 1 .. i - 1 : w[m] = q[j]]_vars

(***************************************************************************)
(* Every sleeper is woken, also when its wake-up time is the last one      *)
(* before the clock wraps, unless memory runs out first.                   *)
(***************************************************************************)
SleepersWake ==
  \A p \in Pcbs : pcbs[p].state = "SLEEPING"
                    ~> pcbs[p].state # "SLEEPING" \/ panic \in MemoryPanics

(***************************************************************************)
(* A ready process of the highest priority gets the CPU, whatever the      *)
(* running one does: the quantum ends.  Memory must not run out first.     *)
(***************************************************************************)
SystemPriorityRuns ==
  \A p \in Pcbs : (pcbs[p].state = "READY" /\ pcbs[p].prio = P_SYSTEM)
                    ~> pcbs[p].state # "READY" \/ panic \in MemoryPanics

-----------------------------------------------------------------------------
(* What the documentation says and the code does not do *)

(***************************************************************************)
(* man/wait.txt: a caller with a child that has not been cleaned up yet    *)
(* gets that child.  _sys_wait only looks for PS_ZOMBIE, so it blocks over *)
(* a child that was killed.                                                *)
(***************************************************************************)
WaitFindsDeadChild ==
  \A p \in Active \ {0} :
    pcbs[p].state = "WAITING" => \A c \in Kids(p) : ~IsDead(c)
=============================================================================
