# Verification of the SystemsProgramming kernel

TLA+ models, TLC runs and TLAPS proofs for the kernel in this repository: a
small x86 operating system made of a baseline kernel (`src/baseline`:
processes, scheduling, clock, system calls, serial line, console) and a team
extension (`src/kern`: paging, I/O router and file API, ramdisk, network card,
virtual consoles, video). The first part of this document is the inventory,
then come the models, the runs, the proofs, what is left out, and the plan.

## The system

**Concurrency.** There is one CPU. Every gate of the IDT is an interrupt gate
(`support.c`, `set_idt_entry`), so interrupt handlers and system calls run with
interrupts disabled and are atomic with respect to each other. User programs,
including the network daemons and everything that calls the file API, can be
preempted anywhere. Nothing is persistent; `_kpanic` stops the machine.

| Component | State | Operations | Interacts with | What makes it correct |
|---|---|---|---|---|
| process table, stacks (`process.c`, `stack.c`) | `_pcbs`, `_free_pcbs`, `_free_stacks` | alloc, dealloc, cleanup, find by PID, find children | fork, exit, wait, kill | no stack shared or lost; a PID names one process |
| queues (`queue.c`) | qnode pool, head/tail/size of each queue | enque (FIFO or ordered), deque, remove, peek | everything that holds PCBs or stacks | lists share out the pool; entries come out in order |
| scheduler (`scheduler.c`) | `_ready[4]`, `_current` | `_schedule`, `_dispatch` | every handler that blocks or wakes | highest priority first, round robin within one, always something to run |
| clock (`clock.c`) | `_now`, `_sleeping`, quantum | `_clk_isr` | sleep, scheduler | all due sleepers woken, quanta end |
| system calls (`syscall.c`, `system.c`) | `_waiting`, `_zombie`, `_next_pid` | exit, read, write, fork, exec, kill, wait, sleep, mmap, ... | all of the above | each PCB on the queue its state names; no exit lost; orphans adopted |
| serial line (`sio.c`) | input buffer, output ring, `_sending`, `_reading` | `_sio_isr`, `_sio_reads`, `_sio_writes`, `_sio_writec` | read, write, kill | characters in order, none duplicated; the transmitter keeps going |
| memory (`memory_map.c`) | page availability table, page directories and tables | get/free page, mmap, page fault | exec, ramdisk, NIC, file API | a page has one owner; mappings change only by mmap |
| console input (`c_io.c`) | keyboard ring, shift and control state | keyboard interrupt, `c_getchar`, `c_gets` | read | keys in order, once |
| console output (`c_io.c`, `vconsole`, `marquee.c`) | line table, character table, cursor, scroll region | putchar, puts, scroll, clear, redraw | everything that prints, `redrawProcess`, clock | rows stay independent; what is written gets drawn |
| I/O router, file API (`kern/io`, `kern/ioapi`) | handle table, object tables, file table | prototype, update, delete, execute, open, read, ... | ramdisk, raw file system | a handle names one object |
| ramdisk, raw file system | 500 pages | read, write | router, memory | bounds, data read is data written |
| network (`kern/net/intel.c`) | command-block ring, receive list, ARP cache | interrupt, two daemons, senders | memory, the device | each block and frame owned by one side |
| FAT32, video, VESA, PCI, boot, tools | | | | not modelled, see below |

**Hard behaviours.** exit, wait and kill of related processes in every order; a
reference count of children that is copied by fork; failing fork; 16-bit PIDs
and a wrapping clock; the wake-up loop; pools at their limit; interrupts
between two reads or writes of the serial line; and, outside the atomic
handlers, the preemptible users of the page allocator, the router and the
network card, and the process that draws the console. `PROJECT.json` lists them
under `hazards`, each at its line.

## Modules

| Module | Models |
|---|---|
| `Kernel` | PCBs, stacks, ready queues, clock, system calls, page faults: the process core |
| `MCKernel` | instances of `Kernel` |
| `KernelProofs` | proofs about `Kernel`: queues and pools, families, order |
| `QueueContents` | abstract: what `queue.c` promises, sequences of entries with a common limit |
| `Queue`, `MCQueue` | `queue.c` as linked lists; implements `QueueContents` |
| `SerialLine` | abstract: what the serial module promises |
| `Sio`, `MCSio` | `sio.c` with the serial half of read, write and kill; implements `SerialLine` |
| `Memory`, `MCMemory` | `memory_map.c`: page allocator, directories, mmap, with fork, exec, exit, malloc and free |
| `NicTransmit` | `intel.c`, sending: command-block ring, senders, transmit daemon, command unit of the card |
| `NicReceive`, `MCNicReceive` | `intel.c`, receiving: descriptor list, interrupt handler, receive daemon, receive unit, ARP cache |
| `Screen` | abstract: a screen of independent lines |
| `VConsole`, `MCVConsole` | `kern/vconsole` and the output half of `c_io.c`; implements `Screen` |
| `Keyboard` | input half of `c_io.c` with the console half of read |
| `QueueProofs`, `SioProofs`, `MemoryProofs`, `NicTransmitProofs`, `NicReceiveProofs` | proofs about these modules |
| `ConsoleProofs` | proofs about `VConsole` and `Keyboard` |
| `SeqLemmas` | sequences and least numbers, for the proofs |

**Kernel.** The kernel functions are operators from a kernel-state record to the
next one (`schedule`, `dispatch`, `zombify`, `pcb_cleanup`, ...), and a handler
composes them in the order of the C code; `Return` stores the result. `kpanic`
marks the record; a handler that panics changes nothing else that anybody could
see, and the machine stays as it is (`Halted`). A panic is named after its
reason: those over a failed queue call (`QueuePanics`) carry the name of the
caller, the others of `_zombify` and `_sys_kill` a name of their own, those of
`memory_map.c` are `MemoryPanics`. Pages are counted in `Memory`, not here, so
any exec that needs a directory, and any mmap, may be the one that panics
(`sys_exec_no_page`, `sys_mmap`). The queues of PCBs are sequences, which is
what `Queue` shows `queue.c` to implement; the qnodes are counted, because the
functions fail when they run out. One action is one handler. Only `_clk_isr`
takes several steps, one for the tick, one per sleeper woken, one for the
quantum; `isr` keeps everybody else out meanwhile. PIDs are read as a signed
type (`to_pid`) and times wrap at `TIME_MOD`.

User programs are arbitrary sequences of system calls and faults. Two programs
of `user.c` are distinguished, since the kernel relies on them: `init`, which
first spawns idle and then only forks and waits, and `idle`, which does not
block. (`PCB.prog` says which program a process runs.) The arguments of sleep,
exec and kill are constants.

**Queue.** qnodes are numbers with `next` and `data`; a queue is `head`, `tail`
and `size`, as in the code. Each action is a call, with its return code and its
consistency panics. `Chain` is the list that the `next` pointers make, `walk`
the loop that goes along it until it has the place of an entry.

**Sio.** A buffer is its array and the offsets of the pointers into it.
`_inlast` is advanced without a bound (as is `_outlast` in `_sio_writec`); an
access outside the array sets `overrun`, and nothing is claimed afterwards. The
UART is an environment that finishes the character it was given (`uart_sent`).
`_sio_isr` loops over pending events; the model takes one step per event.
`given` is what a step hands to a process.

**Memory.** The functions are operators on a record of the globals, as in
`Kernel`; pages are numbers, their contents are table entries. System calls are
steps. The same `get_next_page` and `free_page` called by a process (`malloc`,
`free`) take a step per access to the table, and the process can be killed at
any of them. `grants` counts how often a page is out. Two uses of the table that
overlap have no lock between them: the second one to write sets `overlap`, the
properties hold until then, and the run looks no further. `malloc_return` zeroes
the page through the caller's own address space and faults, as the code does,
where that does not map it. Processes free pages that malloc gave them:
`free_page` itself does not look who has a page, it only checks the alignment of
the address and returns -1, with nothing changed, if that is wrong. The receive
daemon also frees pages allocated at boot (`intel.c:642`), which is the same
step for a process that had them from the start. The loops of
`setup_initial_page_table` and `_k_mmap` are recursive functions from the round
to the state before it.

**NicTransmit, NicReceive.** Everything here is code of processes without a
lock, or the card, so a step is one access to shared state; `x++` is two. The
card's two units are the environment, modelled from the blocks and registers
the driver gives them: they follow links, stop at the end-of-list flag and raise
an interrupt. A command to the card is two writes, the address to the pointer
register `gen_ptr` and the command itself, and the register is the same for both
units: `intel_nic_enable_rx`, the first thing the receive daemon does, writes it
too. In `NicTransmit` two processes that are inside the book-keeping at
once, that both decided to start the unit, or of which one has overwritten the
register before the other's command used it, are a `Clash`, at which the model
stops. In `NicReceive` it stops when `rfa.next` is NULL (`RanOff`); `lost` says
that two frames shared an interrupt or one came while the handler ran, `torn`
that an address was read while it was being written. The probing loops of the
ARP cache are sets of the places they would stop at, of which they take the
first. The two halves meet in the receive daemon, which enables the receive unit
through the shared register and then is one more sender, of ARP replies, in
`NicTransmit`.

**VConsole.** The console is a record like `VCon`; the console functions are
operators on it and the functions of `c_io.c` the steps of the kernel. Once
`CIO_AUTOFLUSH` is off, c_printf is a sequence of `c_putchar`; before that it
draws once, at its end, which shows the same as drawing after each character.
`Printer` stands for the network processes, which print with interrupts on: it
takes a step per access to the two tables, so it can stand between two entries
of `vcon_scroll`'s loop, with one line twice in the table, or between a cell
(`printer_cell`) and the entry with its mark (`printer_mark`). `redrawProcess`
takes a step per row tested and drawn, and two for `length &= ~DIRTY`, a load
and a store of the halfword that holds the length as well (the build does not
optimise, and the entry itself is one word, loaded and stored at once). A string
put at a place (`vcon_putsAt`) is written at once, as its cells and the new
length of the line. `missed` remembers the rows that changed between the copy of
their entry and the clearing of their dirty bit; two writers inside
`vcon_putchar` at the same time are left out (see below).

`Screen` knows only texts, cursor and the top of the region. The mapping takes
the console as `Printer` will leave it with what it has begun (`Settled`), since
the promise is about whole writes: a scroll counts from its start on, a
character from the store of its cell (a control character, which has none, from
the copy of its line). `LoseEnd` is what the store of `redrawProcess` can do to
the one line it has just drawn; the refinement allows it only in a step in which
that store undoes a newer length (`Undoes`). As in the code, a tab changes
nothing and positions count from the corner of the screen.

**Keyboard.** The controller holds scan codes until they are read. The keyboard
interrupt decodes one into the ring; a read of the console runs with interrupts
off and, when the ring is empty before the line ends, polls the controller. The
tables are reduced to a letter, enter, a key without a character, for which they
have 0xFF, and the modifiers. 0xFF is stored like any other: the test that is to
ignore it compares an int with a signed char and is always true. `typed` is what
a queue of `C_BUFSIZE - 1` characters would have accepted.

## Runs

All bounds are small because each property is violated, if at all, by a few
processes; the mutants in `PROJECT.json` show for each property that a plausible
slip in the code is caught within the bounds.

| Run | Bounds | Shows |
|---|---|---|
| `family` | 5 PCBs and stacks, 4 forks, 3-bit PIDs | type invariant; `QueueDiscipline`: each PCB is on the queue its state names; `StackOwnership`, `QnodesBalance`, `PidsUnique`: pools and PIDs to their last element; `ParentAlive`, `ChildrenCounted`: the family tree and its counts; `NoLostExit`, `WaitEndsWithChild`: exit meets wait; `DeadStayDead`; `OnlyMemoryPanics`: the process core itself never stops the machine |
| `clock` | 4 PCBs, clock modulo 3, quantum 2, 2 priorities | `SleepersSorted`, `WakesAll`, `HighestFirst`, `NoOvertaking`; `QueuesNeverFail`: no `_q_enque` or `_q_remove` of a handler fails |
| `progress` | 4 PCBs, clock modulo 2 | `SleepersWake`, `SystemPriorityRuns` under fairness |
| `queue` | 2 queues, 3 entries (2 equal keys), 4 qnodes | `WellLinked`; `KeepsPromise`: `Queue` implements `QueueContents` |
| `sio` | 2 processes, buffers of 3, strings of 1, 2 and 4, one a lone line feed | `TransmitterArmed`; `BehavesAsLine`: implements `SerialLine` up to the first overrun; `FullDrains` |
| `memory` | 3 processes, 16 pages in 4 bytes (9 usable), tables of 4 entries, 4 calls of mmap | `PageOwnedOnce`, `IdentityUntouched`, `MappingsStable`, `PanicOnlyWhenFull` |
| `nic_transmit` | 2 senders of 3 packets, one of them the receive daemon, 3 blocks of which 2 can be in use | `RingBooks`: `avail_cb` agrees with the pointers and free blocks are free; `CuSeesWholeCommands`, `SentInOrder`; `RoomReturns` under fairness |
| `nic_receive` | 3 descriptors, 4 pages, 3 frames, 2 colliding addresses, 1 resolver with 2 tries | `ListIntact`, `FramesInOrder`, `ResolvedWasAnnounced`, `CacheSearchable`; `FramesProcessed` under fairness |
| `vconsole` | 3 rows of 2 columns, region of 2 rows, 3 writes | `BehavesAsScreen`: implements `Screen`, but for a length `redrawProcess` can undo; `CleanRowsShown`: what is not marked is on the screen; `RowsGetDrawn` under fairness |
| `keyboard` | ring of 3, 6 scan codes, 2 waiting in the controller, 2 readers | `KeysInOrder` |

Four generations of processes are what it takes for an orphan to be adopted, to
have children of its own and to see init or its parent die in between; four
forks use up the PCBs and the PIDs up to the one that marks a free PCB; a clock
modulo 3 gives sleepers before and behind the wrap; a pool of 4 qnodes for two
queues runs out; strings of 1, 2 and 4 are shorter and longer than what is left
in a ring of 3. Nine usable pages are five for the identity mapping and four to
be fought over, so memory runs out. Three blocks are the least ring in which one
is free, one is filled and one is executed. Three descriptors and four pages let
a freed page come back as the new tail, and three frames fill the list. Three
writes leave the last row, scroll the region and write over the moved lines,
from wherever the cursor was put: moving it and setting the region are not
counted. Six codes fill a ring of three and wrap it twice. The code has five
qnodes more than PCBs and stacks; the runs have none to spare, and the proofs
assume none. That fork fails for want of a stack, with PCBs left, is not reached
by the runs (which have as many stacks as PCBs, like the code) but is covered by
the proofs, which assume nothing about the two numbers.

Some restrictions of the inputs matter. In `family`, kill is not called on idle
(killing it leaves `_dispatch` with nothing to run, a panic) nor with PID -1. In
`sio`, `PlainCalls` holds: no call has size 0 (`_sys_read` blocks whenever
nothing was copied, so `read(..., 0)` blocks although input is there), a string
begins with a line feed only if that is all of it (`_sio_writes` sends the line
feed of a longer one after the rest), and with no carriage return (which could
not be told from the one the module itself puts before a line feed). In
`memory`, `PlainRanges` holds: no range given to mmap wraps past the end of the
address space, and the physical pages a caller names are device memory, none
that the table gives out. `_k_mmap` checks neither. In `vconsole`, scroll
regions reach the last row, as the one `_init` sets does. Each is explained in
the next section.

**Stopping rules.** Where unlocked code really can corrupt its data, the models
go on up to that point and no further, since afterwards nothing could be
claimed: `overrun` in `Sio`, `overlap` in `Memory`, `Clash` in `NicTransmit`
(the book-keeping, the start of the unit, the pointer register), `RanOff` in
`NicReceive`. Everything else interleaves freely, so the properties say how far
the code is right: which preemptions are harmless, and which two are not.
`lost`, `torn`, `missed` and `stranded` are history variables that excuse one
frame, one resolver, one row or one ring, not the rest of the behaviour; so does
`Unmarked`, the row of a cell whose mark is still to be stored.

**Fairness.** `Kernel` assumes only that the timer keeps interrupting:
`WF_vars(clk_isr)`. User programs may loop for ever. `Sio` assumes that the UART
finishes a character and that a pending transmit interrupt is delivered. In the
network modules daemons and senders keep running, because they have system
priority and the clock shares out the CPU among them; the card finishes what it
was told to do and its interrupts are delivered; no frame need ever arrive. The
receive daemon has strong fairness, since interrupts keep disabling it for a
moment: it gets on between them.
`VConsole` assumes that `redrawProcess` and a network process inside
`vcon_putchar`, of the same priority, keep running.
Deadlock is checked everywhere but in `Keyboard`, where the kernel polls with
interrupts off for a key that may never be pressed; in `Kernel` only a panic
can stop the system, and then for good.

### Where the code does not do what its documents say

| Run | Property | What happens |
|---|---|---|
| `wait_killed` | `WaitFindsDeadChild` | `_sys_wait` looks for `PS_ZOMBIE` only; a child that was killed or faulted is never collected and the caller blocks (`man/wait.txt`) |
| `console_blocks` | `ConsoleDoesNotBlock` | a read of the console with room for one character (`creadch`), or of a line that begins with EOT, puts the process on the queue of the serial line, to be answered by that (`syscall.c:216`) |

Met while modelling, without a run of their own; the stopping rules and input
restrictions above keep clear of them:

- `children` is not decremented when `_zombify` serves a waiting parent
  (`system.c:107`) and is inherited through fork; a childless process can block
  in wait for good, against `man/wait.txt`.
- kill(-1) finds a free PCB and panics, although `process.c:140` means to
  "ensure that it can't be found".
- A wake-up time that wraps is in the past and the sleep ends at the next tick
  (`syscall.c:328`).
- After a partial read `_inlast` runs past the input buffer (`sio.c:183`).
- A leading line feed is sent after the rest of its string, with only its CR in
  place (`sio.c:593`).
- A read that blocked returns the character's code and writes nothing to its
  buffer, and write returns its size argument whatever was taken, against
  `man/read.txt` and `man/write.txt`.
- A process preempted inside `get_next_page` can be given the page another one
  takes meanwhile (`memory_map.c:180`), although the comment there says that the
  page is "not being used".
- mmap guards the identity mapping by the start of the range only: a range that
  wraps reaches it (`memory_map.c:326`). With no physical address a range whose
  end wraps maps nothing and reports success, and one that ends in the last page
  never ends. `free_page(NULL)` frees page 0.
- `SYS_getstatus` and `SYS_mmap` have the same number (`syscall.h:36`).
- A packet accepted while the command unit is active is never sent, as the block
  before it ends the list and nothing starts the unit again (`intel.c:418`), and
  the ring is not recycled past it.
- Two frames that share an interrupt advance `rfa.next` once (`intel.c:185`), and
  one that comes while the handler runs may have its bit acknowledged unseen;
  when all descriptors are filled it becomes NULL and the receive unit is not
  restarted.
- `send_arp_reply` swaps the bytes of an address that is already in network
  order (`intel.c:597`).
- A sender preempted between the two writes of a command (`intel.c:420`), while
  another one or `intel_nic_enable_rx` (`intel.c:768`) writes the same register,
  starts the command unit at the other's block or at a receive descriptor.
- A row that changes while `redrawProcess` draws it loses its dirty bit
  (`control.c:64`) and stays wrong until it changes again. If it changes between
  the load and the store of that line, its new length is undone as well: text is
  cut off, or old text comes back behind its end.
- Between a cell (`console.c:107`) and the mark of its row (`console.c:130`) the
  screen differs from an unmarked row; the mark follows when the printing process
  goes on.
- A tab neither adds cells nor moves the cursor, although `console.c:102` says
  "add null cells until the cursor is at the next indentation level ... Update
  cursor".
- `c_moveto` takes coordinates of the screen, although `c_io.h:108` says that
  they are relative to the scroll region.
- Keys without a character are put into the ring as 0xFF (0x1F with control),
  although `c_io.c:463` says "Ignore undefined scan codes": the int 255 is
  compared with `'\377'`, which is -1.
- A second writer that scrolls while one is inside `vcon_putchar` makes two rows
  share cells for good (`console.c:82`).
- Text written behind the end of a line shows what its cells held before,
  although `VConLine.h` assumes that the remaining columns are blank.

## Proofs

Every theorem holds for all values of the constants that satisfy the assumptions
of the module it is about, which are properties of the code's own constants
(non-empty pools, `N_QNODES >= N_PCBS + N_STACKS`, a positive quantum and clock
modulus, PIDs within their type; a table of whole bytes; a finite set of pages;
scroll regions that reach the last row, as `_init`'s does; a ring of at least
two cells). Some theorems have a hypothesis of their own, about the arguments of
system calls. `CoreNeverPanics` assumes that kill is called neither for the PID
of idle nor with the PID of free PCBs, either of which makes the code panic.
`SioIsLine` and `SioTypes` assume `PlainCalls`, `IdentityKept` and
`MappingsKept` assume `PlainRanges`; these are conditions the code does not
check, TLC evaluates them for the arguments of the runs, and without them the
conclusions are false: a write longer than the ring that begins with a line
feed, while nothing is being sent, leaves one character more in the ring than it
has room for; a range with a physical address whose virtual addresses wrap
reaches the shared first table; and a process that has mapped a page of the
identity tables can have malloc zero it. (`KeysDelivered` names the assumption
of `Keyboard` because that module is instantiated there, not extended.)

| Module | Theorem | Statement |
|---|---|---|
| `KernelProofs` | `TypeCorrect` | `Spec => []TypeOK` |
| | `QueuesHoldPcbs` | `Spec => []QueueDiscipline` |
| | `StacksOwnedOnce` | `Spec => []StackOwnership` |
| | `QnodesConserved` | `Spec => []QnodesBalance` |
| | `QueueCallsSucceed` | `Spec => []QueuesNeverFail` |
| | `PidsNeverClash` | `Spec => []PidsUnique` |
| | `OrphansAdopted` | `Spec => []ParentAlive` |
| | `ChildrenNeverForgotten` | `Spec => []ChildrenCounted` |
| | `ExitsHeard` | `Spec => []NoLostExit` |
| | `DeadNeverRevived` | `Spec => DeadStayDead` |
| | `WaitReturnsForChild` | `Spec => WaitEndsWithChild` |
| | `CoreNeverPanics` | `Spec => []OnlyMemoryPanics`, under its hypothesis |
| | `SleepQueueSorted` | `Spec => []SleepersSorted` |
| | `ClockWakesAll` | `Spec => WakesAll` |
| | `BestPriorityRuns` | `Spec => HighestFirst` |
| | `ReadyQueuesFair` | `Spec => NoOvertaking` |
| `QueueProofs` | `ListsWellLinked` | `Spec => []WellLinked` |
| | `QueueKeepsPromise` | `Spec => KeepsPromise` |
| `SioProofs` | `TransmitterKeptArmed` | `Spec => []TransmitterArmed` |
| | `SioIsLine` | `PlainCalls => (Spec => BehavesAsLine)` |
| | `SioTypes` | `PlainCalls => (Spec => []TypeOK)` |
| `MemoryProofs` | `PagesOwnedOnce` | `Spec => []PageOwnedOnce` |
| | `SearchIsComplete` | `Spec => PanicOnlyWhenFull` |
| | `IdentityKept` | `PlainRanges => (Spec => []IdentityUntouched)` |
| | `MappingsKept` | `PlainRanges => (Spec => MappingsStable)` |
| `NicTransmitProofs` | `RingAlwaysBooked` | `Spec => []RingBooks` |
| | `CommandsWhole` | `Spec => []CuSeesWholeCommands` |
| | `PacketsInOrder` | `Spec => []SentInOrder` |
| `NicReceiveProofs` | `ListStaysWhole` | `Spec => []ListIntact` |
| | `FramesKeepOrder` | `Spec => []FramesInOrder` |
| | `AnswersAnnounced` | `Spec => []ResolvedWasAnnounced` |
| | `SearchesFind` | `Spec => []CacheSearchable` |
| `ConsoleProofs` | `MarksAreKept` | `Spec => []CleanRowsShown` |
| | `ConsoleIsScreen` | `Spec => BehavesAsScreen` |
| | `KeysDelivered` | `Keys!KeyboardAssumption => (Keys!Spec => []Keys!KeysInOrder)` |

None of the invariants is inductive alone. In each module an invariant `IInv`
is, with one lemma per action that preserves it, and `Invariance` states it.

**Queues and pools.** A queue operation keeps the discipline because a qnode is
left; qnodes are left because every stack is owned once; a freed stack was owned
because its PCB was in use and in flight; a removal succeeds because of the
discipline. `IInv` is the conjunction. The proof generalises it to the middle of
a handler: `Sane(s, D, d)` says that record `s` is consistent with the PCBs in
`D` in flight (on no queue) and `d` qnodes free on their account. There is one
lemma per kernel function (`EnqueOK`, `ScheduleOK`, `CleanupOK`, `ZombifyOK`,
...), which the other proofs about `Kernel` use again.

**Families.** A handler changes the table of PCBs by one of six moves: a process
changes its state unnoticed, begins to wait, leaves orphans, hands its death to
a waiting parent, is reaped, or is forked. `FInv` says that init has the first
PCB and is its own parent, that PIDs are distinct and among those given out,
that every process has a parent, that children are counted (a bound on a
`Cardinality`, so each move says by which set the children change) and that
nobody waits over a zombie. For `CoreNeverPanics`, `IdleInv` adds that idle, or
init until it has spawned idle, is running or ready.

**Order.** What each kernel function does to the sleep queue and the ready
queues: nothing, a removal, or an insertion at the right place. The first
sleeper is due first, so the wake-up loop may stop there.

**Memory.** Until an overlap, what a process inside malloc or free has read is
still true (`Seen`): the bytes it has searched are full, the page it found is
unmarked, the byte it is about to write back is the one in the table, and a page
between its store and its return is marked and nobody's. A store by anybody else
is an overlap, so `Touched` leaves the others outside. `_k_mmap` is a chain of
calls of `get_next_page`, over which `Grown` says that pages are only taken and
that panic means a full table.

For `IdentityKept` and `MappingsKept` the contents of pages matter too. `Layout`
gives every page a role, and `LayoutHolds` says that there are such roles in
every state: the tables that map 1:1, which are as they were set up; the
directories made by exec, with the shared first table and otherwise tables of
their own; these tables, each with the one directory and entry that leads to it;
the frames in them; and the rest, which are the processes' own or free. Roles
are not variables of the model but a witness that each step extends: a page gets
a role when `get_next_page` gives it out, since it then had none, and keeps it.
That a table has one home is why a write by mmap shows in one address space, at
one address. `RoundIs` is the arithmetic of the loop: under `PlainRanges` its
addresses stay in the range and out of the first table. `WipedIs` says that
malloc, which zeroes through the caller's directory, reaches the page it found
or a frame, never a table. When there is too little memory for the 1:1 tables
the system has panicked before the first step, which is the other half of
`LInv`.

**Queue.** `IInv` says that there are sequences `L[q]` and `F` of qnodes,
without a qnode in common or twice, that the `next` pointers link from each
`head` and from `free_qnodes` on. `ChainIs` shows that following the pointers
then yields the sequence (with the least index at which the two would differ, as
induction is not available), and `walk` stops at a gap of it; an insertion or a
removal in the middle is one of the sequence. Both theorems follow: `WellLinked`
is about the sequences, and the entries of `L[q]` are the contents that
`QueueContents` speaks of.

**Sio.** `TransmitterKeptArmed` needs no condition on the calls. For the
refinement, `InBook` says that the input buffer is filled behind what is read
and empty while somebody waits, `OutBook` that the ring's pointers are as far
apart as its count, or nothing is claimed any more. `FillCyclic` says that
the loop of `_sio_writes` appends what fits, wherever the ring wraps. A step of
the module is then one of `SerialLine`, or none: the carriage return that goes
out before a line feed.

**Keyboard.** What was typed is what the readers took followed by the ring from
`next_char` to `next_space`. Storing appends to that, taking moves its head
over; the rest is arithmetic of a ring that is full with one cell left
(`RoomIs`). The echo is counted by the characters that are sent to the console.

**NicTransmit.** For every place in the code, what holds there of the ring, of
the block in hand and of the command unit: the blocks in use are an arc of the
ring, the unit stands in it, and everything behind the unit is complete. A
process about to give its command finds its own address in the register, or that
is a `Clash`.

**NicReceive.** The invariant numbers the descriptors: the n-th that was ever in
the list gets frame n. The list is then an interval of numbers, the daemon
stands at its start, the receive unit at the number of frames received plus one,
and the daemon's three stores that append a descriptor extend it by one. The
cache part says for each step of a save what is already in the slot.

**VConsole.** The invariant is about the console as `Printer` will leave it: the
cells of two rows of `Settled` never meet, wherever the rows were moved
(`Apart`). The table itself has, while `Printer` scrolls, one line of the region
twice, and its other lines are those of the finished one (`Aliased`); that is
why a step of anybody else, who stays out of the region then, changes the same
line in both. `Printer`'s copies are those of the line it writes to (`Good`),
and the copies of `redrawProcess` are those of its row, or the row is in
`missed` (`Drawing`). The refinement has one step per action: a console function
is the `Screen` action of the same name on the texts; `Printer`'s start of a
scroll is `MakeRoom`, its store of a cell, or its copy of the line for a control
character, is `Type`, and the rest of its steps change nothing that `Screen`
sees; of `redrawProcess`'s only the last store can, and then it is `LoseEnd`.

### Only model-checked

- Liveness (`SleepersWake`, `SystemPriorityRuns`, `FullDrains`, `RoomReturns`,
  `FramesProcessed`, `RowsGetDrawn`): fairness is out of the prover's reach.
- The types of `Memory`. `MemoryProofs` proves a part of `TypeOK` for all states
  (`Typed`); the contents of pages and that `grants` is not negative it has only
  up to the first overlap.

All other properties of the passing runs are theorems.

## Not modelled

- Stack and context layout, address-space switches, formatting, dumps, and the
  values of getpid, getppid, gettime and getstatus, which change nothing.
- `vcon_resize` and `vcon_switch`, which run at boot if at all, colours, the
  graphics renderer and the text of the marquee.
- Packet layout, checksums, and what the daemon prints about IPv4 frames.
- The I/O router, the file API, the ramdisk and the raw file system. After boot
  one test program uses them, alone. Their bounds and table handling are wrong at
  the lines listed under `hazards` (`grab_handle` fills the entry behind the one
  it found free), so that there is little to claim before they are repaired.
- FAT32 is unfinished and not built in. Video, VESA, graphics and PCI are
  stateless output or pure I/O. Boot, early init and interrupt stubs run before
  there is concurrency or only save registers. The tools run at build time.
- `doc/doxy` is generated; its search page is the only JavaScript in the
  repository and no part of the system.

## Plan

What could be added next, in this order:

1. The I/O router, the file API and the ramdisk, once the table handling listed
   under `hazards` is repaired.
2. A composition of `Kernel` and `Memory`: which process runs when a page runs
   out is arbitrary in `Memory` now.
