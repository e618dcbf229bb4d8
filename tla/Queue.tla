-------------------------------- MODULE Queue --------------------------------
(***************************************************************************)
(* queue.c: singly linked lists of qnodes taken from one pool, which is    *)
(* itself such a list.  Callers have interrupts off, so a call is a step.  *)
(***************************************************************************)
EXTENDS Integers, Sequences, FiniteSets, SequencesExt

CONSTANTS
  Queues,    \* names of the queues
  Sorted,    \* those with a comparison function
  Data,      \* what is queued
  NoData,    \* the data pointer of a free qnode
  Key(_),    \* what the comparison function compares
  N_QNODES   \* size of _qnodes

ASSUME QueueAssumption ==
  /\ Sorted \subseteq Queues
  /\ NoData \notin Data
  /\ N_QNODES \in Nat
  /\ \A d \in Data : Key(d) \in Int

NULL == 0
Qnodes == 1 .. N_QNODES

VARIABLES
  next,         \* qnode_t.next
  data,         \* qnode_t.data
  free_qnodes,  \* _free_qnodes
  que,          \* head, tail and size of each queue_t
  reply         \* status of the last call, and the data it returned

vars == <<next, data, free_qnodes, que, reply>>

Nothing == <<>>
Panic == <<"_kpanic", Nothing>>

(***************************************************************************)
(* The qnodes of the list that starts with n, by the next pointers nxt; a  *)
(* list longer than the pool has a cycle.                                  *)
(***************************************************************************)
Chain(nxt, n) ==
  LET follow == [m \in Qnodes \cup {NULL} |-> IF m = NULL THEN NULL ELSE nxt[m]]
      node[k \in 0 .. N_QNODES] == IF k = 0 THEN n ELSE follow[node[k - 1]]
  IN  SubSeq([i \in 1 .. N_QNODES + 1 |-> node[i - 1]],
             1, Cardinality({k \in 0 .. N_QNODES : node[k] # NULL}))

(***************************************************************************)
(* The traversal of a list from its head on, through the qnodes in past.   *)
(* It yields the last qnode passed and the one the loop stops at.          *)
(***************************************************************************)
walk(past, head) ==
  LET list == Chain(next, head)
      stop == CHOOSE k \in 1 .. Len(list) + 1 :
                /\ \A j \in 1 .. k - 1 : list[j] \in past
                /\ k <= Len(list) => list[k] \notin past
  IN  [prev |-> IF stop = 1 THEN NULL ELSE list[stop - 1],
       curr |-> IF stop > Len(list) THEN NULL ELSE list[stop]]

\* _qn_dealloc of a qnode, given the other changes to next
qn_dealloc(nxt, old) ==
  /\ data' = [data EXCEPT ![old] = NoData]
  /\ next' = [nxt EXCEPT ![old] = free_qnodes]
  /\ free_qnodes' = old

\* Mutant: an entry goes before those that compare equal.
passed_strict(d) == {n \in Qnodes : data[n] # NoData /\ Key(d) > Key(data[n])}

\* the entries an ordered insertion of d passes: cmp(d, entry) >= 0
passed(d) == {n \in Qnodes : data[n] # NoData /\ Key(d) >= Key(data[n])}

\* where _q_enque links the new qnode in
place(q, d) ==
  IF que[q].size = 0 THEN [prev |-> NULL, curr |-> NULL]
  ELSE IF q \notin Sorted THEN [prev |-> que[q].tail, curr |-> NULL]
  ELSE walk(passed(d), que[q].head)

q_enque(q, d) ==
  IF free_qnodes = NULL
  THEN /\ reply' = <<"E_NO_QNODES", Nothing>>
       /\ UNCHANGED <<next, data, free_qnodes, que>>
  ELSE LET new == free_qnodes
           at == place(q, d)
           linked == [next EXCEPT ![new] = at.curr]
       IN  IF que[q].size # 0 /\ at.prev = NULL /\ at.curr = NULL
           THEN reply' = Panic /\ UNCHANGED <<next, data, free_qnodes, que>>
           ELSE /\ free_qnodes' = next[new]
                /\ data' = [data EXCEPT ![new] = d]
                /\ next' = IF at.prev = NULL THEN linked
                           ELSE [linked EXCEPT ![at.prev] = new]
                /\ que' = [que EXCEPT
                             ![q].head = IF at.prev = NULL THEN new ELSE @,
                             ![q].tail = IF at.curr = NULL THEN new ELSE @,
                             ![q].size = @ + 1]
                /\ reply' = <<"E_SUCCESS", Nothing>>

\* the checks _q_peek and _q_deque share
q_broken(q) == que[q].head = NULL \/ que[q].tail = NULL

q_peek(q) ==
  /\ reply' = IF que[q].size = 0 THEN <<"E_EMPTY_QUEUE", Nothing>>
              ELSE IF q_broken(q) THEN Panic
              ELSE <<"E_SUCCESS", <<data[que[q].head]>>>>
  /\ UNCHANGED <<next, data, free_qnodes, que>>

q_deque(q) ==
  LET qn == que[q].head
      last == next[qn] = NULL
  IN  IF que[q].size = 0 \/ q_broken(q) THEN q_peek(q)
      ELSE IF last /\ que[q].size # 1
      THEN reply' = Panic /\ UNCHANGED <<next, data, free_qnodes, que>>
      ELSE /\ que' = [que EXCEPT ![q].head = next[qn],
                                 ![q].tail = IF last THEN NULL ELSE @,
                                 ![q].size = @ - 1]
           /\ reply' = <<"E_SUCCESS", <<data[qn]>>>>
           /\ qn_dealloc(next, qn)

\* Mutant: the tail pointer stays on the removed qnode.
q_remove_tail(q, d) ==
  LET at == walk({n \in Qnodes : data[n] # d}, que[q].head)
  IN  IF at.curr = NULL
      THEN /\ reply' = <<"E_NO_PROCESS", Nothing>>
           /\ UNCHANGED <<next, data, free_qnodes, que>>
      ELSE /\ que' = [que EXCEPT
                        ![q].head = IF at.prev = NULL THEN next[at.curr] ELSE @,
                        ![q].size = @ - 1]
           /\ reply' = <<"E_SUCCESS", Nothing>>
           /\ qn_dealloc(IF at.prev = NULL THEN next
                         ELSE [next EXCEPT ![at.prev] = next[at.curr]], at.curr)

q_remove(q, d) ==
  LET at == walk({n \in Qnodes : data[n] # d}, que[q].head)
  IN  IF at.curr = NULL
      THEN /\ reply' = <<"E_NO_PROCESS", Nothing>>
           /\ UNCHANGED <<next, data, free_qnodes, que>>
      ELSE /\ que' = [que EXCEPT
                        ![q].head = IF at.prev = NULL THEN next[at.curr] ELSE @,
                        ![q].tail = IF @ = at.curr THEN at.prev ELSE @,
                        ![q].size = @ - 1]
           /\ reply' = <<"E_SUCCESS", Nothing>>
           /\ qn_dealloc(IF at.prev = NULL THEN next
                         ELSE [next EXCEPT ![at.prev] = next[at.curr]], at.curr)

(***************************************************************************)
(* _q_init frees the qnodes in array order, each to the front of the list; *)
(* _q_reset empties every queue.                                           *)
(***************************************************************************)
Init ==
  /\ next = [n \in Qnodes |-> n - 1]
  /\ data = [n \in Qnodes |-> NoData]
  /\ free_qnodes = N_QNODES
  /\ que = [q \in Queues |-> [head |-> NULL, tail |-> NULL, size |-> 0]]
  /\ reply = <<"E_SUCCESS", Nothing>>

Next ==
  \/ \E q \in Queues, d \in Data : q_enque(q, d)
  \/ \E q \in Queues : q_deque(q)
  \/ \E q \in Queues, d \in Data : q_remove(q, d)
  \/ \E q \in Queues : q_peek(q)

Spec == Init /\ [][Next]_vars

-----------------------------------------------------------------------------
List(q) == Chain(next, que[q].head)
FreeList == Chain(next, free_qnodes)

(***************************************************************************)
(* The lists, free list included, share out the qnodes: no qnode is lost,  *)
(* linked twice or on two lists, and the tail and size of each queue       *)
(* describe its list.                                                      *)
(***************************************************************************)
WellLinked ==
  /\ IsInjective(FreeList)
  /\ Range(FreeList) \cup UNION {Range(List(q)) : q \in Queues} = Qnodes
  /\ \A q \in Queues :
       /\ IsInjective(List(q))
       /\ Range(List(q)) \cap Range(FreeList) = {}
       /\ \A r \in Queues \ {q} : Range(List(q)) \cap Range(List(r)) = {}
       /\ que[q].size = Len(List(q))
       /\ que[q].tail = IF List(q) = <<>> THEN NULL ELSE Last(List(q))

(***************************************************************************)
(* The calls do to the entries of the queues what QueueContents says, and  *)
(* none of the consistency checks in queue.c fires.  Kernel builds on the  *)
(* same sequences.                                                         *)
(***************************************************************************)
Promise == INSTANCE QueueContents WITH
  contents <- [q \in Queues |-> LET l == List(q) IN [i \in DOMAIN l |-> data[l[i]]]],
  room <- Len(FreeList)
KeepsPromise == Promise!Spec
=============================================================================
