------------------------------- MODULE Memory -------------------------------
(***************************************************************************)
(* memory_map.c, with the system calls that use it.  The functions of the  *)
(* file are operators from a record of its globals to the next one; got is *)
(* the page a call returns.                                                *)
(*                                                                         *)
(* A page is its number.  Its contents are the entries of a table, without *)
(* their flags; NULL is the entry of nothing.  Addresses count in units of *)
(* which PAGE_SIZE make a page, and wrap at the end of the address space.  *)
(*                                                                         *)
(* System calls and faults are handled with interrupts off.  get_next_page *)
(* and free_page are also called, as malloc and free, by processes, which  *)
(* can be preempted between any two accesses to the table: overlap becomes *)
(* TRUE when the table is changed in the middle of such a call.            *)
(***************************************************************************)
EXTENDS Integers, FiniteSets, FiniteSetsExt

CONSTANTS
  Procs,       \* PCBs
  InitProc,    \* the one that runs init
  PAT_SIZE,    \* pat_size: bytes of the table
  BITS,        \* bits in a byte
  KB,          \* entries of a page table and of a page directory
  PAGE_SIZE,
  Unusable,    \* pages that are in use before there are processes
  Prios,       \* priorities passed to exec(); 0 is P_SYSTEM
  MmapArgs     \* arguments of mmap(): v, p and len

NULL == 0

Bits == 0 .. BITS - 1
Bytes == 0 .. PAT_SIZE - 1
Pages == 0 .. PAT_SIZE * BITS - 1
Entries == 0 .. KB - 1
AddressSpace == KB * KB * PAGE_SIZE
SECOND_PDE == KB * PAGE_SIZE

ASSUME MemoryAssumption ==
  /\ {PAT_SIZE, BITS, KB, PAGE_SIZE} \subseteq Nat \ {0}
  /\ PAT_SIZE * BITS = KB * KB
  /\ NULL \in Unusable /\ Unusable \subseteq Pages
  /\ InitProc \in Procs
  /\ Prios \subseteq Nat
  /\ \A a \in MmapArgs : {a.v, a.p, a.len} \subseteq 0 .. AddressSpace - 1

VARIABLES
  page_availibility_table,   \* the bits that are set in each byte
  last_availible,
  mem,       \* contents of the pages
  memory,    \* pcb->memory of each process; NULL: there is no such process
  call,      \* where a process is inside malloc or free
  grants,    \* how often a page has been given out and not been given back
  held,      \* what a process has from malloc
  overlap,
  panic

vars == <<page_availibility_table, last_availible, mem, memory, call, grants,
          held, overlap, panic>>

NoCall == [at |-> "none", index |-> 0, page |-> 0, byte |-> {}]

Zero == [e \in Entries |-> NULL]

-----------------------------------------------------------------------------
(* The functions of memory_map.c *)

State == [pat |-> page_availibility_table, last |-> last_availible,
          mem |-> mem, grants |-> grants, got |-> NULL, panic |-> panic]

Becomes(m) ==
  /\ page_availibility_table' = m.pat
  /\ last_availible' = m.last
  /\ mem' = m.mem
  /\ grants' = m.grants
  /\ panic' = m.panic

index(page) == page \div BITS
bit(page) == page % BITS

\* page, of byte at, is marked, zeroed and returned
grant(m, at, page) ==
  [m EXCEPT !.pat[at] = @ \cup {bit(page)}, !.last = at,
            !.mem[page] = Zero, !.grants[page] = @ + 1, !.got = page]

\* the page of the first clear bit of byte at
first_free(m, at) == at * BITS + Min(Bits \ m.pat[at])

\* Mutant: the search goes from last_availible to the end of the table.
get_next_page_no_wrap(m) ==
  LET ahead == {i \in Bytes : m.last + i < PAT_SIZE /\ m.pat[m.last + i] # Bits}
      at == m.last + Min(ahead)
  IN  IF m.panic \/ ahead = {} THEN [m EXCEPT !.panic = TRUE]
      ELSE grant(m, at, first_free(m, at))

\* how far from last_availible there are bytes with a clear bit
open(m) == {i \in Bytes : m.pat[(m.last + i) % PAT_SIZE] # Bits}

\* the first free page from last_availible on
get_next_page(m) ==
  LET at == (m.last + Min(open(m))) % PAT_SIZE
  IN  IF m.panic \/ open(m) = {} THEN [m EXCEPT !.panic = TRUE]
      ELSE grant(m, at, first_free(m, at))

setup_page_availibility_table ==
  [pat |-> [i \in Bytes |-> {b \in Bits : i * BITS + b \in Unusable}],
   last |-> 0, mem |-> [page \in Pages |-> Zero],
   grants |-> [page \in Pages |-> 0], got |-> NULL, panic |-> FALSE]

\* the table for entry e of directory dir, which maps 1:1
add_table(m, dir, e) ==
  LET t == get_next_page(m)
  IN  [t EXCEPT !.mem[dir][e] = t.got,
                !.mem[t.got] = [f \in Entries |-> e * KB + f]]

\* a directory, and a table for each of its entries
setup_initial_page_table ==
  LET dir == get_next_page(setup_page_availibility_table)
      tables[e \in 0 .. KB] == IF e = 0 THEN dir
                               ELSE add_table(tables[e - 1], dir.got, e - 1)
  IN  tables[KB]

page_directory == get_next_page(setup_page_availibility_table).got
page_table == setup_initial_page_table.mem[page_directory][0]

\* a directory whose first entry is shared with everybody
new_page_directory(m) ==
  LET d == get_next_page(m)
  IN  IF d.panic THEN d ELSE [d EXCEPT !.mem[d.got][0] = page_table]

pde_index(v) == v \div SECOND_PDE
pte_index(v) == (v \div PAGE_SIZE) % KB

\* Mutant: every page gets a new table.
map_page_new_table(m, dir, v, p) ==
  LET t == get_next_page(m)
      d == IF t.panic THEN t ELSE [t EXCEPT !.mem[dir][pde_index(v)] = t.got]
      f == IF p = NULL THEN get_next_page(d) ELSE [d EXCEPT !.got = p]
  IN  IF f.panic THEN f
      ELSE [f EXCEPT !.mem[f.mem[dir][pde_index(v)]][pte_index(v)] = f.got]

\* the loop body of _k_mmap: page p, or a new one, is mapped at v
map_page(m, dir, v, p) ==
  LET d == IF m.mem[dir][pde_index(v)] # NULL THEN m
           ELSE LET t == get_next_page(m)
                IN  IF t.panic THEN t ELSE [t EXCEPT !.mem[dir][pde_index(v)] = t.got]
      f == IF p = NULL THEN get_next_page(d) ELSE [d EXCEPT !.got = p]
  IN  IF f.panic THEN f
      ELSE [f EXCEPT !.mem[f.mem[dir][pde_index(v)]][pte_index(v)] = f.got]

\* round i of the loop
map_round(m, dir, a, i) ==
  map_page(m, dir, (a.v + i * PAGE_SIZE) % AddressSpace,
           IF a.p = NULL THEN NULL ELSE a.p \div PAGE_SIZE + i)

aligned(a) == a.v % PAGE_SIZE = 0 /\ a.p % PAGE_SIZE = 0

\* how many rounds there are: up to start + len, which may wrap
rounds(start, len) ==
  LET done == (start + len) % AddressSpace
  IN  IF done <= start THEN 0 ELSE (done - start + PAGE_SIZE - 1) \div PAGE_SIZE

\* Mutant: the first entry of the directory is not protected.
k_mmap_unguarded(m, dir, a) ==
  LET n == rounds(IF a.p = NULL THEN a.v ELSE a.p, a.len)
      mapped[i \in 0 .. n] == IF i = 0 THEN m ELSE map_round(mapped[i - 1], dir, a, i - 1)
  IN  IF dir = page_directory THEN [m EXCEPT !.panic = TRUE]
      ELSE IF ~aligned(a) THEN m
      ELSE mapped[n]

(***************************************************************************)
(* _k_mmap.  A range whose last, partial page is the last one of the       *)
(* address space is left out: for it the loop does not end.                *)
(***************************************************************************)
k_mmap(m, dir, a) ==
  LET n == rounds(IF a.p = NULL THEN a.v ELSE a.p, a.len)
      mapped[i \in 0 .. n] == IF i = 0 THEN m ELSE map_round(mapped[i - 1], dir, a, i - 1)
  IN  IF dir = page_directory \/ a.v < SECOND_PDE THEN [m EXCEPT !.panic = TRUE]
      ELSE IF ~aligned(a) THEN m
      ELSE mapped[n]

\* what address v of page directory dir stands for
get_phys_address(dir, v) ==
  LET table == mem[dir][pde_index(v)]
  IN  IF table = NULL THEN NULL ELSE mem[table][pte_index(v)]

-----------------------------------------------------------------------------
(* System calls.  A process makes them when it is not inside malloc. *)

InCall(p) == call[p].at # "none"
Alive(p) == memory[p] # NULL

\* the table is changed by p: has somebody else read it and not finished?
Touched(p) == overlap' = (overlap \/ \E q \in Procs \ {p} : InCall(q))

\* p is running its own code; init does nothing but fork and wait
Calls(p) == ~panic /\ Alive(p) /\ ~InCall(p) /\ p # InitProc

sys_fork(p, q) ==
  /\ Calls(p) \/ (p = InitProc /\ ~panic)
  /\ ~Alive(q)
  /\ memory' = [memory EXCEPT ![q] = memory[p]]
  /\ UNCHANGED <<page_availibility_table, last_availible, mem, call, grants,
                 held, overlap, panic>>

\* the old directory is not given back
sys_exec(p, prio) ==
  /\ Calls(p)
  /\ IF prio = 0
     THEN /\ memory' = [memory EXCEPT ![p] = page_directory]
          /\ UNCHANGED <<page_availibility_table, last_availible, mem, grants,
                         overlap, panic>>
     ELSE /\ LET m == new_page_directory(State)
             IN  /\ Becomes(m)
                 /\ memory' = IF m.panic THEN memory
                              ELSE [memory EXCEPT ![p] = m.got]
          /\ Touched(p)
  /\ held' = [held EXCEPT ![p] = {}]
  /\ UNCHANGED call

sys_mmap(p, a) ==
  /\ Calls(p)
  /\ Becomes(k_mmap(State, memory[p], a))
  /\ Touched(p)
  /\ UNCHANGED <<memory, call, held>>

\* exit, kill or a page fault: the process is gone, wherever it was; nothing
\* is given back
gone(p) ==
  /\ memory' = [memory EXCEPT ![p] = NULL]
  /\ call' = [call EXCEPT ![p] = NoCall]
  /\ held' = [held EXCEPT ![p] = {}]

sys_exit(p) ==
  /\ ~panic /\ Alive(p) /\ p # InitProc
  /\ gone(p)
  /\ UNCHANGED <<page_availibility_table, last_availible, mem, grants, overlap,
                 panic>>

-----------------------------------------------------------------------------
(* get_next_page and free_page inside a process *)

Moves(p, at) == ~panic /\ call[p].at = at

\* index = last_availible
malloc_start(p) ==
  /\ Calls(p)
  /\ call' = [call EXCEPT ![p] = [NoCall EXCEPT !.at = "scan",
                                               !.index = last_availible]]
  /\ UNCHANGED <<page_availibility_table, last_availible, mem, memory, grants,
                 held, overlap, panic>>

\* one round of the search
malloc_scan(p) ==
  /\ Moves(p, "scan")
  /\ LET i == call[p].index
         byte == page_availibility_table[i]
         next == (i + 1) % PAT_SIZE
     IN  \/ /\ byte # Bits
            /\ call' = [call EXCEPT ![p].at = "load",
                                    ![p].page = i * BITS + Min(Bits \ byte)]
            /\ UNCHANGED panic
         \/ /\ byte = Bits
            /\ call' = [call EXCEPT ![p].index = next]
            /\ panic' = (next = last_availible)
  /\ UNCHANGED <<page_availibility_table, last_availible, mem, memory, grants,
                 held, overlap>>

\* set_pat reads the byte it is going to change
set_pat_load(p) ==
  /\ Moves(p, "load")
  /\ call' = [call EXCEPT ![p].at = "store",
                          ![p].byte = page_availibility_table[call[p].index]]
  /\ UNCHANGED <<page_availibility_table, last_availible, mem, memory, grants,
                 held, overlap, panic>>

\* set_pat writes the byte with the bit set
set_pat_store(p) ==
  /\ Moves(p, "store")
  /\ page_availibility_table' =
       [page_availibility_table EXCEPT
          ![call[p].index] = call[p].byte \cup {bit(call[p].page)}]
  /\ call' = [call EXCEPT ![p].at = "return"]
  /\ Touched(p)
  /\ UNCHANGED <<last_availible, mem, memory, grants, held, panic>>

(***************************************************************************)
(* last_availible = index, then memset through the address space of the    *)
(* process: a process with a directory of its own faults unless the        *)
(* address happens to be mapped.                                           *)
(***************************************************************************)
malloc_return(p) ==
  /\ Moves(p, "return")
  /\ last_availible' = call[p].index
  /\ LET page == call[p].page
         frame == get_phys_address(memory[p], page * PAGE_SIZE)
     IN  IF frame = NULL
         THEN gone(p) /\ UNCHANGED <<mem, grants>>
         ELSE /\ mem' = [mem EXCEPT ![frame] = Zero]
              /\ grants' = [grants EXCEPT ![page] = @ + 1]
              /\ held' = [held EXCEPT ![p] = @ \cup {page}]
              /\ call' = [call EXCEPT ![p] = NoCall]
              /\ UNCHANGED memory
  /\ Touched(p)
  /\ UNCHANGED <<page_availibility_table, panic>>

(***************************************************************************)
(* free_page: set_pat reads the byte.  A process frees what malloc gave    *)
(* it: free_page does not look who has the page.  It only checks that the  *)
(* address is aligned, and returns -1 with nothing changed if it is not.   *)
(***************************************************************************)
free_load(p, page) ==
  /\ Calls(p) /\ page \in held[p]
  /\ held' = [held EXCEPT ![p] = @ \ {page}]
  /\ grants' = [grants EXCEPT ![page] = @ - 1]
  /\ call' = [call EXCEPT ![p] =
       [at |-> "free", index |-> index(page), page |-> page,
        byte |-> page_availibility_table[index(page)]]]
  /\ UNCHANGED <<page_availibility_table, last_availible, mem, memory, overlap,
                 panic>>

\* Mutant: the other bits of the byte are cleared as well.
free_store_byte(p) ==
  /\ Moves(p, "free")
  /\ page_availibility_table' =
       [page_availibility_table EXCEPT ![call[p].index] = {}]
  /\ call' = [call EXCEPT ![p] = NoCall]
  /\ Touched(p)
  /\ UNCHANGED <<last_availible, mem, memory, grants, held, panic>>

\* ... and writes it with the bit cleared
free_store(p) ==
  /\ Moves(p, "free")
  /\ page_availibility_table' =
       [page_availibility_table EXCEPT
          ![call[p].index] = call[p].byte \ {bit(call[p].page)}]
  /\ call' = [call EXCEPT ![p] = NoCall]
  /\ Touched(p)
  /\ UNCHANGED <<last_availible, mem, memory, grants, held, panic>>

\* __panic does not return
Halted == panic /\ UNCHANGED vars

-----------------------------------------------------------------------------
Init ==
  LET m == setup_initial_page_table
  IN  /\ page_availibility_table = m.pat
      /\ last_availible = m.last
      /\ mem = m.mem
      /\ memory = [p \in Procs |-> IF p = InitProc THEN page_directory ELSE NULL]
      /\ call = [p \in Procs |-> NoCall]
      /\ grants = m.grants
      /\ held = [p \in Procs |-> {}]
      /\ overlap = FALSE
      /\ panic = m.panic

Next ==
  \/ \E p, q \in Procs : sys_fork(p, q)
  \/ \E p \in Procs, prio \in Prios : sys_exec(p, prio)
  \/ \E p \in Procs, a \in MmapArgs : sys_mmap(p, a)
  \/ \E p \in Procs : sys_exit(p)
  \/ \E p \in Procs : malloc_start(p)
  \/ \E p \in Procs : malloc_scan(p)
  \/ \E p \in Procs : set_pat_load(p)
  \/ \E p \in Procs : set_pat_store(p)
  \/ \E p \in Procs : malloc_return(p)
  \/ \E p \in Procs : \E page \in held[p] : free_load(p, page)
  \/ \E p \in Procs : free_store(p)
  \/ Halted

Spec == Init /\ [][Next]_vars

-----------------------------------------------------------------------------
(* Properties *)

(***************************************************************************)
(* Types of the globals.                                                   *)
(***************************************************************************)
TypeOK ==
  /\ page_availibility_table \in [Bytes -> SUBSET Bits]
  /\ last_availible \in Bytes
  /\ mem \in [Pages -> [Entries -> Pages]]
  /\ memory \in [Procs -> Pages]
  /\ call \in [Procs -> [at : {"none", "scan", "load", "store", "return", "free"},
                         index : Bytes, page : Pages, byte : SUBSET Bits]]
  /\ grants \in [Pages -> Nat]
  /\ held \in [Procs -> SUBSET Pages]
  /\ overlap \in BOOLEAN /\ panic \in BOOLEAN

Marked(page) == bit(page) \in page_availibility_table[index(page)]

(***************************************************************************)
(* get_next_page: until two uses of the table have overlapped, nobody has  *)
(* been given a page that another one has, whatever was mapped, freed or   *)
(* left behind by a process killed halfway, and all of them are marked.    *)
(***************************************************************************)
PageOwnedOnce ==
  ~overlap => \A page \in Pages :
                /\ grants[page] <= 1
                /\ grants[page] = 1 \/ page \in Unusable => Marked(page)

(***************************************************************************)
(* The arguments of mmap are plain: no range wraps, and the pages that a   *)
(* caller names (device memory, above the end of memory) are none that the *)
(* table gives out.  _k_mmap checks neither.                               *)
(***************************************************************************)
PlainRanges ==
  \A a \in MmapArgs :
     /\ a.v + a.len <= AddressSpace /\ a.p + a.len <= AddressSpace
     /\ a.p # NULL => \A i \in 0 .. rounds(a.p, a.len) - 1 :
                        a.p \div PAGE_SIZE + i \in Unusable

IdentityTables == {page_directory} \cup
                  {setup_initial_page_table.mem[page_directory][e] : e \in Entries}

(***************************************************************************)
(* _k_mmap: until there is an overlap, the tables that map everything 1:1, *)
(* the first of which all address spaces share, keep their contents.       *)
(***************************************************************************)
IdentityUntouched ==
  ~overlap => \A page \in IdentityTables :
                mem[page] = setup_initial_page_table.mem[page]

Spaces == {memory[p] : p \in {q \in Procs : Alive(q)}} \ {page_directory}

VirtualPages == {v * PAGE_SIZE : v \in 0 .. KB * KB - 1}

\* the virtual pages of a range that does not wrap
Covered(a) == {v \in VirtualPages : a.v <= v /\ v < a.v + a.len}

(***************************************************************************)
(* Until there is an overlap, what a process sees at an address changes    *)
(* only when a process of the same address space maps something there.     *)
(***************************************************************************)
MappingsStable ==
  [][~overlap' =>
       \A dir \in Spaces, v \in VirtualPages :
          (get_phys_address(dir, v))' # get_phys_address(dir, v) =>
             \E p \in Procs, a \in MmapArgs :
                sys_mmap(p, a) /\ memory[p] = dir /\ v \in Covered(a)]_vars

(***************************************************************************)
(* Until there is an overlap, memory is not reported as exhausted while a  *)
(* page is free, wherever the search began.                                *)
(***************************************************************************)
PanicOnlyWhenFull ==
  [][~overlap' /\ panic' /\ (\A p \in Procs, a \in MmapArgs :
         sys_mmap(p, a) => memory[p] # page_directory /\ a.v >= SECOND_PDE)
     => \A page \in Pages : Marked(page)']_vars
=============================================================================
