---------------------------- MODULE KernelProofs ----------------------------
(***************************************************************************)
(* Proofs about Kernel, in three parts.                                    *)
(*                                                                         *)
(* Part 1: who owns what.  A kernel-state record s is consistent (Sane)    *)
(* with the PCBs in D in flight and d qnodes free because of that; each    *)
(* kernel function takes consistent records to consistent records (the     *)
(* lemmas ...OK), so each handler does, and so does every step.            *)
(***************************************************************************)
EXTENDS Kernel, SeqLemmas

\* the panics that can happen
PanicNames == Panics \ QueuePanics

KStates == [pcbs : [Pcbs -> PcbRecords], queues : [QNames -> Seq(Pcbs)],
            stacks : Seq(Stacks), qnodes : Nat, current : Pcbs,
            ticks : 1 .. QUANT_STD, panic : PanicNames]

Balanced(s, d) == s.qnodes = N_QNODES - N_PCBS + d - Len(s.stacks)

Sane(s, D, d) == s \in KStates /\ Loose(s, D) /\ Owned(s) /\ Balanced(s, d)

WithQueue(s, n, w, m) == [s EXCEPT !.queues[n] = w, !.qnodes = m]

\* t differs from s at most in its PCBs
SameQueues(s, t) ==
  t.queues = s.queues /\ t.stacks = s.stacks /\ t.qnodes = s.qnodes

\* t differs from s at most in its queue of PCBs and qnodes
SamePcbs(s, t) ==
  /\ t.pcbs = s.pcbs /\ t.stacks = s.stacks /\ t.current = s.current
  /\ t.ticks = s.ticks /\ t.panic = s.panic

\* First returns a member of the set it searches.
LEMMA FirstIn ==
  ASSUME NEW S, S \subseteq Nat, S # {}
  PROVE  First(S) \in S
BY LeastNat DEF First

\* Every state names one of the queues.
LEMMA HomeType == ASSUME NEW c \in PcbRecords PROVE Home(c) \in QNames
BY DEF Home, QNames, Ready

\* Every priority names one of the queues, illegal ones too.
LEMMA ReadyType == ASSUME NEW r PROVE Ready(r) \in QNames
BY DEF QNames, Ready

\* A change that keeps states, priorities and stacks keeps the kernel consistent.
LEMMA Frame ==
  ASSUME NEW s, NEW t \in KStates, NEW D, NEW d, Sane(s, D, d),
         SameQueues(s, t),
         \A r \in Pcbs \ D : /\ t.pcbs[r].state = s.pcbs[r].state
                             /\ t.pcbs[r].prio = s.pcbs[r].prio,
         \A r \in Pcbs : /\ t.pcbs[r].stack = s.pcbs[r].stack
                         /\ t.pcbs[r].state = "FREE" <=> s.pcbs[r].state = "FREE"
  PROVE  Sane(t, D, d)
<1>1. Loose(t, D)
  <2>1. \A p \in Pcbs \ D : Home(t.pcbs[p]) = Home(s.pcbs[p])
    BY DEF Home
  <2> QED
    BY <2>1 DEF Sane, Loose, SameQueues
<1>2. Owned(t)
  <2>1. InUse(t) = InUse(s)
    BY DEF InUse
  <2>2. \A r \in InUse(s) : t.pcbs[r].stack = s.pcbs[r].stack
    BY DEF InUse
  <2> QED
    BY <2>1, <2>2 DEF Sane, Owned, SameQueues
<1> QED
  BY <1>1, <1>2 DEF Sane, SameQueues, Balanced

\* p may stand on the queue its state names
Placeable(s, p) ==
  /\ s.pcbs[p].state \notin {"NEW", "RUNNING"}
  /\ s.pcbs[p].state = "READY" => s.pcbs[p].prio \in Prios

\* Queueing a PCB in flight on the queue its state names lands it.
LEMMA PutIn ==
  ASSUME NEW s \in KStates, NEW t \in KStates, NEW D, NEW n \in QNames,
         NEW p \in Pcbs, NEW w \in Seq(Pcbs),
         Loose(s, D), p \in D, Placeable(s, p), Home(s.pcbs[p]) = n,
         IsInjective(w), Range(w) = Range(s.queues[n]) \cup {p},
         t.pcbs = s.pcbs, t.queues = [s.queues EXCEPT ![n] = w]
  PROVE  Loose(t, D \ {p})
<1>1. s.queues \in [QNames -> Seq(Pcbs)]
  BY DEF KStates
<1>2. \A r \in Pcbs \ (D \ {p}) : Placeable(t, r)
  BY DEF Loose, Placeable
<1>3. ASSUME NEW m \in QNames
      PROVE  /\ IsInjective(t.queues[m])
             /\ Range(t.queues[m])
                  = {r \in Pcbs \ (D \ {p}) : Home(t.pcbs[r]) = m}
  <2>1. CASE m = n
    <3>1. t.queues[m] = w
      BY <1>1, <2>1
    <3>2. Range(s.queues[n]) = {r \in Pcbs \ D : Home(s.pcbs[r]) = n}
      BY DEF Loose
    <3> QED
      BY <2>1, <3>1, <3>2
  <2>2. CASE m # n
    <3>1. t.queues[m] = s.queues[m]
      BY <1>1, <2>2
    <3>2. /\ IsInjective(s.queues[m])
          /\ Range(s.queues[m]) = {r \in Pcbs \ D : Home(s.pcbs[r]) = m}
      BY DEF Loose
    <3> QED
      BY <2>2, <3>1, <3>2
  <2> QED
    BY <2>1, <2>2
<1> QED
  BY <1>2, <1>3 DEF Loose, Placeable

\* Taking a PCB off the queue it is on puts it in flight.
LEMMA TakeOut ==
  ASSUME NEW s \in KStates, NEW t \in KStates, NEW D, NEW n \in QNames,
         NEW p \in Pcbs, NEW w \in Seq(Pcbs),
         Loose(s, D), p \in Range(s.queues[n]),
         IsInjective(w), Range(w) = Range(s.queues[n]) \ {p},
         t.pcbs = s.pcbs, t.queues = [s.queues EXCEPT ![n] = w]
  PROVE  Loose(t, D \cup {p}) /\ p \notin D
<1>1. s.queues \in [QNames -> Seq(Pcbs)]
  BY DEF KStates
<1>2. Range(s.queues[n]) = {r \in Pcbs \ D : Home(s.pcbs[r]) = n}
  BY DEF Loose
<1>3. ASSUME NEW m \in QNames
      PROVE  /\ IsInjective(t.queues[m])
             /\ Range(t.queues[m])
                  = {r \in Pcbs \ (D \cup {p}) : Home(t.pcbs[r]) = m}
  <2>1. CASE m = n
    <3>1. t.queues[m] = w
      BY <1>1, <2>1
    <3> QED
      BY <1>2, <2>1, <3>1
  <2>2. CASE m # n
    <3>1. t.queues[m] = s.queues[m]
      BY <1>1, <2>2
    <3>2. /\ IsInjective(s.queues[m])
          /\ Range(s.queues[m]) = {r \in Pcbs \ D : Home(s.pcbs[r]) = m}
      BY DEF Loose
    <3>3. Home(s.pcbs[p]) = n
      BY <1>2
    <3> QED
      BY <2>2, <3>1, <3>2, <3>3
  <2> QED
    BY <2>1, <2>2
<1> QED
  BY <1>2, <1>3 DEF Loose

(***************************************************************************)
(* With d PCBs in flight at least d qnodes are free, and one more when     *)
(* some stack is not on the free queue.                                    *)
(***************************************************************************)
LEMMA StackSpace ==
  ASSUME NEW s, NEW D, NEW d \in Nat, Sane(s, D, d)
  PROVE  /\ Len(s.stacks) \in Nat /\ s.qnodes >= d
         /\ \A stk \in Stacks : stk \notin Range(s.stacks) => s.qnodes > d
<1>1. s.stacks \in Seq(0 .. N_STACKS - 1) /\ IsInjective(s.stacks)
  BY DEF Sane, KStates, Owned, Stacks
<1>2. /\ Len(s.stacks) <= N_STACKS
      /\ \A x \in 0 .. N_STACKS - 1 :
           x \notin Range(s.stacks) => Len(s.stacks) < N_STACKS
  BY <1>1, InjectiveLen, PoolAssumption
<1> DEFINE l == Len(s.stacks)
<1>3. s.qnodes = N_QNODES - N_PCBS + d - l /\ l \in Nat
  BY <1>1 DEF Sane, Balanced
<1>4. l <= N_STACKS
  BY <1>2
<1> HIDE DEF l
<1>5. s.qnodes >= d /\ (l < N_STACKS => s.qnodes > d)
  BY <1>3, <1>4, PoolAssumption
<1> QED
  BY <1>2, <1>3, <1>5 DEF Stacks, l

\* Storing a queue and a qnode count changes just these.
LEMMA SetQueue ==
  ASSUME NEW s \in KStates, NEW n \in QNames, NEW w \in Seq(Pcbs), NEW m \in Nat
  PROVE  /\ WithQueue(s, n, w, m) \in KStates
         /\ SamePcbs(s, WithQueue(s, n, w, m))
         /\ WithQueue(s, n, w, m).queues = [s.queues EXCEPT ![n] = w]
         /\ WithQueue(s, n, w, m).qnodes = m
<1> DEFINE u == [s.queues EXCEPT ![n] = w]
           t == WithQueue(s, n, w, m)
<1>1. u \in [QNames -> Seq(Pcbs)]
  BY DEF KStates
<1>2. t = [s EXCEPT !.queues = u, !.qnodes = m]
  BY DEF KStates, WithQueue
<1> HIDE DEF u, t
<1>3. t \in KStates /\ SamePcbs(s, t) /\ t.queues = u /\ t.qnodes = m
  BY <1>1, <1>2 DEF KStates, SamePcbs
<1> QED
  BY <1>3 DEF u, t

\* Queueing or dequeueing a PCB moves one qnode and no stack.
LEMMA SameStacks ==
  ASSUME NEW s, NEW t, NEW D, NEW d \in Nat, NEW f \in Int,
         Sane(s, D, d), SamePcbs(s, t), t.qnodes \in Int,
         t.qnodes - s.qnodes = f - d
  PROVE  Owned(t) /\ Balanced(t, f)
<1> DEFINE l == Len(s.stacks)
<1>1. l \in Nat
  BY StackSpace
<1>2. s.qnodes = N_QNODES - N_PCBS + d - l /\ l = Len(t.stacks)
  BY DEF Sane, SamePcbs, Balanced
<1> HIDE DEF l
<1> DEFINE x == t.qnodes
           y == s.qnodes
<1>3. x = N_QNODES - N_PCBS + f - l
  <2>1. x \in Int /\ x - y = f - d /\ y = N_QNODES - N_PCBS + d - l
    BY <1>2
  <2> HIDE DEF x, y
  <2> QED BY <1>1, <2>1, PoolAssumption
<1>4. Owned(t)
  BY DEF Sane, Owned, InUse, SamePcbs
<1> QED
  BY <1>2, <1>3, <1>4 DEF Balanced

\* wakeup_slot finds the place p belongs to, in the sleep queue or right behind it.
LEMMA SlotPlace ==
  ASSUME NEW s \in KStates, NEW q \in Seq(Pcbs), NEW p \in Pcbs
  PROVE  LET k == wakeup_slot(s, q, p)
         IN  /\ k \in 1 .. Len(q) + 1
             /\ \A j \in 1 .. k - 1 : s.pcbs[q[j]].wakeup <= s.pcbs[p].wakeup
             /\ k <= Len(q) => s.pcbs[p].wakeup < s.pcbs[q[k]].wakeup
<1> DEFINE W(r) == s.pcbs[r].wakeup
           later == {i \in 1 .. Len(q) : W(p) < W(q[i])}
<1>1. \A r \in Pcbs : W(r) \in Nat
  BY DEF KStates, PcbRecords
<1>2. Len(q) \in Nat /\ \A i \in 1 .. Len(q) : q[i] \in Pcbs
  OBVIOUS
<1>3. \E i \in 1 .. Len(q) + 1 :
        /\ \A j \in 1 .. i - 1 : W(q[j]) <= W(p)
        /\ i <= Len(q) => W(p) < W(q[i])
  <2>1. CASE later = {}
    <3>1. \A j \in 1 .. Len(q) : W(q[j]) <= W(p)
      BY <1>1, <1>2, <2>1
    <3> WITNESS Len(q) + 1 \in 1 .. Len(q) + 1
    <3> QED BY <1>2, <3>1
  <2>2. CASE later # {}
    <3>1. later \subseteq Nat
      OBVIOUS
    <3>2. PICK i \in later : \A j \in later : i <= j
      BY <2>2, <3>1, LeastNat
    <3>3. \A j \in 1 .. i - 1 : j \in 1 .. Len(q) /\ j \notin later
      BY <1>2, <3>2
    <3>4. \A j \in 1 .. i - 1 : W(q[j]) <= W(p)
      BY <1>1, <1>2, <3>3
    <3> WITNESS i \in 1 .. Len(q) + 1
    <3> QED BY <3>2, <3>4
  <2> QED BY <2>1, <2>2
<1> QED
  BY <1>3 DEF wakeup_slot

(***************************************************************************)
(* _q_enque of a PCB in flight finds a qnode and queues it.                *)
(***************************************************************************)
LEMMA EnqueOK ==
  ASSUME NEW s, NEW D, NEW d \in Nat, NEW n \in QNames, NEW p \in Pcbs,
         Sane(s, D, d), p \in D, d > 0,
         Placeable(s, p), Home(s.pcbs[p]) = n
  PROVE  /\ s.qnodes # 0
         /\ Sane(q_enque(s, n, p), D \ {p}, d - 1)
         /\ SamePcbs(s, q_enque(s, n, p))
<1> DEFINE t == q_enque(s, n, p)
           q == s.queues[n]
           v == IF n = "sleeping" THEN InsertAt(q, wakeup_slot(s, q, p), p)
                ELSE Append(q, p)
           m == s.qnodes - 1
<1>1. s \in KStates /\ q \in Seq(Pcbs) /\ s.qnodes \in Nat
  BY DEF Sane, KStates
<1>2. s.qnodes > 0 /\ s.qnodes # 0
  BY <1>1, StackSpace
<1>3. IsInjective(q) /\ p \notin Range(q)
  BY DEF Sane, Loose
<1>4. t = WithQueue(s, n, v, m)
  BY <1>2 DEF q_enque, WithQueue
<1>5. v \in Seq(Pcbs) /\ IsInjective(v) /\ Range(v) = Range(q) \cup {p}
  BY <1>1, <1>3, SlotPlace, InsertAtRange, AppendRange
<1>6. m \in Nat /\ m - s.qnodes = (d - 1) - d
  BY <1>1, <1>2
<1> HIDE DEF t, v, m, q
<1>7. /\ t \in KStates /\ SamePcbs(s, t)
      /\ t.queues = [s.queues EXCEPT ![n] = v] /\ t.qnodes = m
  BY <1>1, <1>4, <1>5, <1>6, SetQueue
<1>8. Loose(t, D \ {p})
  BY <1>1, <1>5, <1>7, PutIn DEF Sane, SamePcbs, q
<1> DEFINE f == d - 1
<1>9. Owned(t) /\ Balanced(t, f)
  <2>1. f \in Int /\ t.qnodes \in Int /\ t.qnodes - s.qnodes = f - d
    BY <1>6, <1>7
  <2> HIDE DEF f
  <2> QED BY <2>1, <1>7, SameStacks
<1>10. Sane(t, D \ {p}, d - 1)
  BY <1>7, <1>8, <1>9 DEF Sane
<1> QED
  BY <1>2, <1>7, <1>10 DEF t

(***************************************************************************)
(* _q_deque takes the head of a queue in flight.                           *)
(***************************************************************************)
LEMMA DequeOK ==
  ASSUME NEW s, NEW D, NEW d \in Nat, NEW n \in QNames,
         Sane(s, D, d), s.queues[n] # <<>>
  PROVE  /\ Head(s.queues[n]) \in Pcbs \ D
         /\ Home(s.pcbs[Head(s.queues[n])]) = n
         /\ Sane(q_deque(s, n), D \cup {Head(s.queues[n])}, d + 1)
         /\ SamePcbs(s, q_deque(s, n))
<1> DEFINE t == q_deque(s, n)
           q == s.queues[n]
           p == Head(q)
           w == Tail(q)
           m == s.qnodes + 1
<1>1. s \in KStates /\ q \in Seq(Pcbs) /\ s.qnodes \in Nat /\ m \in Nat
  BY DEF Sane, KStates
<1>2. IsInjective(q) /\ Range(q) = {r \in Pcbs \ D : Home(s.pcbs[r]) = n}
  BY DEF Sane, Loose
<1>3. /\ w \in Seq(Pcbs) /\ p \in Range(q) /\ IsInjective(w)
      /\ Range(w) = Range(q) \ {p}
  BY <1>1, <1>2, TailRange
<1>4. t = WithQueue(s, n, w, m)
  BY DEF q_deque, WithQueue
<1>5. p \in Pcbs \ D /\ Home(s.pcbs[p]) = n
  BY <1>2, <1>3
<1> HIDE DEF t, p, w, m, q
<1>6. /\ t \in KStates /\ SamePcbs(s, t)
      /\ t.queues = [s.queues EXCEPT ![n] = w] /\ t.qnodes = m
  BY <1>1, <1>3, <1>4, SetQueue
<1>7. Loose(t, D \cup {p})
  BY <1>1, <1>3, <1>5, <1>6, TakeOut DEF Sane, SamePcbs, q
<1> DEFINE f == d + 1
<1>8. Owned(t) /\ Balanced(t, f)
  <2>1. f \in Int /\ m - s.qnodes = f - d
    BY <1>1 DEF m
  <2> HIDE DEF f
  <2> QED BY <2>1, <1>1, <1>6, SameStacks
<1>9. Sane(t, D \cup {p}, d + 1)
  BY <1>6, <1>7, <1>8 DEF Sane
<1> QED
  BY <1>5, <1>6, <1>9 DEF t, p, q

(***************************************************************************)
(* _q_remove finds a PCB on the queue its state names and takes it in      *)
(* flight.                                                                 *)
(***************************************************************************)
LEMMA RemoveOK ==
  ASSUME NEW s, NEW D, NEW d \in Nat, NEW n \in QNames, NEW p \in Pcbs,
         NEW who, Sane(s, D, d), p \notin D, Home(s.pcbs[p]) = n
  PROVE  /\ Sane(q_remove(s, n, p, who), D \cup {p}, d + 1)
         /\ SamePcbs(s, q_remove(s, n, p, who))
<1> DEFINE t == q_remove(s, n, p, who)
           q == s.queues[n]
           k == CHOOSE i \in DOMAIN q : q[i] = p
           w == RemoveAt(q, k)
           m == s.qnodes + 1
<1>1. s \in KStates /\ q \in Seq(Pcbs) /\ s.qnodes \in Nat /\ m \in Nat
  BY DEF Sane, KStates
<1>2. IsInjective(q) /\ p \in Range(q)
  BY DEF Sane, Loose
<1>3. \E i \in DOMAIN q : q[i] = p
  BY <1>2 DEF Range
<1>4. k \in 1 .. Len(q) /\ q[k] = p
  BY <1>1, <1>3
<1>5. t = WithQueue(s, n, w, m)
  BY <1>3 DEF q_remove, WithQueue
<1>6. w \in Seq(Pcbs) /\ IsInjective(w) /\ Range(w) = Range(q) \ {p}
  <2> HIDE DEF k
  <2> QED BY <1>1, <1>2, <1>4, RemoveAtRange
<1> HIDE DEF t, w, k, m, q
<1>7. /\ t \in KStates /\ SamePcbs(s, t)
      /\ t.queues = [s.queues EXCEPT ![n] = w] /\ t.qnodes = m
  BY <1>1, <1>5, <1>6, SetQueue
<1>8. Loose(t, D \cup {p})
  BY <1>1, <1>2, <1>6, <1>7, TakeOut DEF Sane, SamePcbs, q
<1> DEFINE f == d + 1
<1>9. Owned(t) /\ Balanced(t, f)
  <2>1. f \in Int /\ m - s.qnodes = f - d
    BY <1>1 DEF m
  <2> HIDE DEF f
  <2> QED BY <2>1, <1>1, <1>7, SameStacks
<1>10. Sane(t, D \cup {p}, d + 1)
  BY <1>7, <1>8, <1>9 DEF Sane
<1> QED
  BY <1>7, <1>10 DEF t

\* _q_enque changes just the queue it is called for.
LEMMA EnqueElsewhere ==
  ASSUME NEW s \in KStates, NEW n \in QNames, NEW p
  PROVE  /\ \A m \in QNames \ {n} : q_enque(s, n, p).queues[m] = s.queues[m]
         /\ q_enque(s, n, p).pcbs = s.pcbs
         /\ n # "sleeping" =>
              \/ q_enque(s, n, p).queues[n] = s.queues[n]
              \/ q_enque(s, n, p).queues[n] = Append(s.queues[n], p)
<1> DEFINE v == IF n = "sleeping"
                THEN InsertAt(s.queues[n], wakeup_slot(s, s.queues[n], p), p)
                ELSE Append(s.queues[n], p)
<1>1. CASE s.qnodes = 0
  BY <1>1 DEF q_enque
<1>2. CASE s.qnodes # 0
  <2>1. q_enque(s, n, p) = [s EXCEPT !.queues[n] = v, !.qnodes = @ - 1]
    BY <1>2 DEF q_enque
  <2>2. n # "sleeping" => v = Append(s.queues[n], p)
    OBVIOUS
  <2> HIDE DEF v
  <2> QED BY <2>1, <2>2 DEF KStates
<1> QED BY <1>1, <1>2

\* ... and so does _q_deque.
LEMMA DequeElsewhere ==
  ASSUME NEW s \in KStates, NEW n \in QNames
  PROVE  /\ \A m \in QNames \ {n} : q_deque(s, n).queues[m] = s.queues[m]
         /\ q_deque(s, n).queues[n] = Tail(s.queues[n])
         /\ q_deque(s, n).pcbs = s.pcbs
BY DEF q_deque, KStates

\* ... and _q_remove.
LEMMA RemoveElsewhere ==
  ASSUME NEW s \in KStates, NEW n \in QNames, NEW p, NEW who
  PROVE  /\ \A m \in QNames \ {n} : q_remove(s, n, p, who).queues[m] = s.queues[m]
         /\ q_remove(s, n, p, who).pcbs = s.pcbs
         /\ \/ q_remove(s, n, p, who).queues[n] = s.queues[n]
            \/ \E k \in DOMAIN s.queues[n] :
                 q_remove(s, n, p, who).queues[n] = RemoveAt(s.queues[n], k)
<1> DEFINE q == s.queues[n]
           k == CHOOSE i \in DOMAIN q : q[i] = p
           a == RemoveAt(q, k)
<1>1. CASE ~ \E i \in DOMAIN q : q[i] = p
  BY <1>1 DEF q_remove, kpanic, KStates
<1>2. CASE \E i \in DOMAIN q : q[i] = p
  <2>1. k \in DOMAIN q
    BY <1>2
  <2>2. q_remove(s, n, p, who) = [s EXCEPT !.queues[n] = a, !.qnodes = @ + 1]
    BY <1>2 DEF q_remove
  <2>3. a = RemoveAt(q, k)
    OBVIOUS
  <2> HIDE DEF k, a
  <2>4. /\ \A m \in QNames \ {n} : q_remove(s, n, p, who).queues[m] = s.queues[m]
        /\ q_remove(s, n, p, who).pcbs = s.pcbs
        /\ q_remove(s, n, p, who).queues[n] = a
    BY <2>2 DEF KStates
  <2> QED BY <2>1, <2>3, <2>4
<1> QED BY <1>1, <1>2

-----------------------------------------------------------------------------
(* Updates of one PCB *)

WithPcb(s, p, c) == [s EXCEPT !.pcbs[p] = c]

\* t has the registers of s: the CPU, the quantum and no new panic
SameCpu(s, t) == t.current = s.current /\ t.ticks = s.ticks /\ t.panic = s.panic

\* ... and the same PCBs but for p
SameBut(s, t, p) ==
  SameCpu(s, t) /\ \A r \in Pcbs \ {p} : t.pcbs[r] = s.pcbs[r]

\* Storing a PCB changes just that one.
LEMMA SetPcb ==
  ASSUME NEW s \in KStates, NEW p \in Pcbs, NEW c \in PcbRecords
  PROVE  /\ WithPcb(s, p, c) \in KStates
         /\ SameQueues(s, WithPcb(s, p, c))
         /\ SameBut(s, WithPcb(s, p, c), p)
         /\ WithPcb(s, p, c).pcbs[p] = c
<1> DEFINE u == [s.pcbs EXCEPT ![p] = c]
           t == WithPcb(s, p, c)
<1>1. /\ u \in [Pcbs -> PcbRecords] /\ u[p] = c
      /\ \A r \in Pcbs \ {p} : u[r] = s.pcbs[r]
  BY DEF KStates
<1>2. t = [s EXCEPT !.pcbs = u]
  BY DEF KStates, WithPcb
<1> HIDE DEF u, t
<1>3. /\ t \in KStates /\ SameQueues(s, t) /\ t.pcbs = u
      /\ SameCpu(s, t)
  BY <1>1, <1>2 DEF KStates, SameQueues, SameCpu
<1> QED
  BY <1>1, <1>3 DEF t, SameBut

(***************************************************************************)
(* A PCB in flight may change, as long as it is not freed, does not come   *)
(* to life and keeps its stack.                                            *)
(***************************************************************************)
LEMMA Change ==
  ASSUME NEW s, NEW D, NEW d, Sane(s, D, d), NEW p \in Pcbs, p \in D,
         NEW c \in PcbRecords, c.stack = s.pcbs[p].stack,
         c.state = "FREE" <=> s.pcbs[p].state = "FREE"
  PROVE  Sane(WithPcb(s, p, c), D, d)
<1> DEFINE t == WithPcb(s, p, c)
<1>1. s \in KStates
  BY DEF Sane
<1>2. t \in KStates /\ SameQueues(s, t) /\ SameBut(s, t, p) /\ t.pcbs[p] = c
  BY <1>1, SetPcb
<1> HIDE DEF t
<1>3. \A r \in Pcbs \ D : /\ t.pcbs[r].state = s.pcbs[r].state
                          /\ t.pcbs[r].prio = s.pcbs[r].prio
  BY <1>2 DEF SameBut
<1>4. \A r \in Pcbs : /\ t.pcbs[r].stack = s.pcbs[r].stack
                      /\ t.pcbs[r].state = "FREE" <=> s.pcbs[r].state = "FREE"
  BY <1>2 DEF SameBut
<1>5. Sane(t, D, d)
  BY <1>2, <1>3, <1>4, Frame
<1> QED BY <1>5 DEF t

(***************************************************************************)
(* _schedule finds a qnode and puts a process in flight on a ready queue,  *)
(* whatever its priority.                                                  *)
(***************************************************************************)
LEMMA ScheduleOK ==
  ASSUME NEW s, NEW D, NEW d \in Nat, d > 0, Sane(s, D, d),
         NEW p \in Pcbs, p \in D, s.pcbs[p].state # "FREE"
  PROVE  /\ Sane(schedule(s, p), D \ {p}, d - 1)
         /\ SameBut(s, schedule(s, p), p)
<1> DEFINE prio == IF s.pcbs[p].prio \in Prios THEN s.pcbs[p].prio ELSE P_LOW
           c == [s.pcbs[p] EXCEPT !.prio = prio, !.state = "READY"]
           u == WithPcb(s, p, c)
           n == Ready(prio)
<1>1. s \in KStates /\ s.pcbs[p] \in PcbRecords /\ prio \in Int /\ prio \in Prios
  BY DEF Sane, KStates, PcbRecords, Prios, P_LOW, P_SYSTEM, P_MIN
<1>2. /\ c \in PcbRecords /\ c.stack = s.pcbs[p].stack
      /\ c.state = "READY" /\ c.prio = prio
  <2> HIDE DEF prio
  <2> QED BY <1>1 DEF PcbRecords, States
<1>3. u = [s EXCEPT !.pcbs[p].prio = prio, !.pcbs[p].state = "READY"]
  <2> HIDE DEF prio
  <2> QED BY <1>1 DEF WithPcb, KStates, PcbRecords
<1>4. schedule(s, p) = enque_or_panic(u, n, p, "_schedule")
  <2> HIDE DEF u
  <2> QED BY <1>3 DEF schedule
<1> HIDE DEF prio, c, u, n
<1>5. Sane(u, D, d)
  BY <1>2, Change DEF u
<1>6. SameBut(s, u, p) /\ u.pcbs[p] = c
  BY <1>1, <1>2, SetPcb DEF u
<1>7. n \in QNames /\ Placeable(u, p) /\ Home(u.pcbs[p]) = n
  BY <1>1, <1>2, <1>6, ReadyType DEF Placeable, Home, n
<1>8. /\ u.qnodes # 0 /\ Sane(q_enque(u, n, p), D \ {p}, d - 1)
      /\ SamePcbs(u, q_enque(u, n, p))
  BY <1>5, <1>7, EnqueOK
<1>9. schedule(s, p) = q_enque(u, n, p)
  BY <1>4, <1>8 DEF enque_or_panic
<1> QED
  BY <1>6, <1>8, <1>9 DEF SameBut, SamePcbs, SameCpu

(***************************************************************************)
(* What a handler leaves behind: a panic, or a consistent kernel with one  *)
(* running process.                                                        *)
(***************************************************************************)
Done(t) ==
  /\ t.panic \in PanicNames
  /\ t.panic = "none" => /\ Sane(t, {t.current}, 1)
                         /\ t.pcbs[t.current].state = "RUNNING"

Ok(s, D, d) == s \in KStates /\ (s.panic = "none" => Sane(s, D, d))

\* _kpanic leaves a panic behind.
LEMMA PanicType ==
  ASSUME NEW s \in KStates, NEW who \in PanicNames, who # "none"
  PROVE  kpanic(s, who) \in KStates /\ kpanic(s, who).panic # "none"
BY DEF kpanic, KStates

\* The panics of memory_map.c are proper ends of a handler.
LEMMA MemoryPanicDone ==
  ASSUME NEW s \in KStates, NEW who \in MemoryPanics
  PROVE  Done(kpanic(s, who)) /\ kpanic(s, who).panic # "none"
<1>1. who \in PanicNames /\ who # "none"
  BY DEF PanicNames, Panics, QueuePanics, MemoryPanics
<1>2. kpanic(s, who) \in KStates /\ kpanic(s, who).panic # "none"
  BY <1>1, PanicType
<1> QED BY <1>2 DEF Done, KStates

\* _dispatch, once everybody is queued, ends a handler properly ...
LEMMA DispatchSane ==
  ASSUME NEW s, Sane(s, {}, 0)
  PROVE  Done(dispatch(s))
<1> DEFINE nonempty == {r \in Prios : s.queues[Ready(r)] # <<>>}
           n == Ready(First(nonempty))
           p == Head(s.queues[n])
           t == q_deque(s, n)
           c == [t.pcbs[p] EXCEPT !.state = "RUNNING"]
           u == WithPcb(t, p, c)
           v == [u EXCEPT !.current = p, !.ticks = QUANT_STD]
<1>1. s \in KStates
  BY DEF Sane
<1>2. CASE nonempty = {}
  <2>1. dispatch(s) = kpanic(s, "_dispatch")
    BY <1>2 DEF dispatch
  <2> QED
    BY <1>1, <2>1, PanicType DEF Done, PanicNames, Panics, QueuePanics, KStates
<1>3. CASE nonempty # {}
  <2>1. First(nonempty) \in nonempty
    <3>1. nonempty \subseteq Nat
      BY DEF Prios, P_SYSTEM, P_MIN
    <3> HIDE DEF nonempty
    <3> QED BY <1>3, <3>1, FirstIn
  <2>2. First(nonempty) \in Prios /\ n \in QNames /\ s.queues[n] # <<>>
    BY <2>1, ReadyType
  <2>3. dispatch(s) = [t EXCEPT !.current = p, !.pcbs[p].state = "RUNNING",
                                !.ticks = QUANT_STD]
    BY <1>3 DEF dispatch
  <2> HIDE DEF nonempty, n, t
  <2>4. /\ p \in Pcbs /\ Home(s.pcbs[p]) = n
        /\ Sane(t, {} \cup {p}, 0 + 1) /\ SamePcbs(s, t)
    BY <2>2, DequeOK DEF t
  <2> HIDE DEF p
  <2>5. Sane(t, {p}, 1) /\ t \in KStates /\ t.pcbs[p] \in PcbRecords
    BY <2>4 DEF Sane, KStates
  <2>6. t.pcbs[p].state # "FREE"
    BY <2>4 DEF Home, SamePcbs, n, Ready
  <2>7. /\ c \in PcbRecords /\ c.stack = t.pcbs[p].stack
        /\ c.state = "RUNNING"
    BY <2>5 DEF PcbRecords, States
  <2> HIDE DEF c
  <2>8. Sane(u, {p}, 1) /\ SameBut(t, u, p) /\ u.pcbs[p] = c
    BY <2>4, <2>5, <2>6, <2>7, Change, SetPcb
  <2>9. dispatch(s) = v
    BY <2>3, <2>4, <2>5 DEF WithPcb, c, KStates, PcbRecords
  <2>10. u \in KStates /\ QUANT_STD \in 1 .. QUANT_STD
    BY <2>8, NumberAssumption DEF Sane
  <2> HIDE DEF u
  <2>11. /\ v \in KStates /\ SameQueues(u, v) /\ v.pcbs = u.pcbs
         /\ v.current = p
    BY <2>4, <2>10 DEF KStates, SameQueues
  <2> HIDE DEF v
  <2>12. Sane(v, {p}, 1)
    BY <2>8, <2>11, Frame
  <2> QED
    BY <2>7, <2>8, <2>9, <2>11, <2>12 DEF Done, KStates
<1> QED
  BY <1>2, <1>3

\* ... also when the handler has panicked before.
LEMMA DispatchOK ==
  ASSUME NEW s, Ok(s, {}, 0)
  PROVE  Done(dispatch(s))
<1>1. CASE s.panic = "none"
  BY <1>1, DispatchSane DEF Ok
<1>2. CASE s.panic # "none"
  <2>1. dispatch(s).panic = s.panic
    BY <1>2 DEF Ok, dispatch, kpanic, q_deque, KStates
  <2> QED
    BY <1>2, <2>1 DEF Ok, Done, KStates
<1> QED BY <1>1, <1>2

(***************************************************************************)
(* _pcb_cleanup gives the stack and the PCB back.  The PCB's own stack is  *)
(* not on the free queue, so there is a qnode for it besides those of the  *)
(* PCBs in flight.                                                         *)
(***************************************************************************)
LEMMA CleanupOK ==
  ASSUME NEW s, NEW D, NEW d \in Nat, d > 0, Sane(s, D, d),
         NEW p \in Pcbs, p \in D, s.pcbs[p].state # "FREE"
  PROVE  /\ Sane(pcb_cleanup(s, p), D \ {p}, d - 1)
         /\ SameBut(s, pcb_cleanup(s, p), p)
<1> DEFINE stk == s.pcbs[p].stack
           a == Append(s.stacks, stk)
           m == s.qnodes - 1
           t == [s EXCEPT !.stacks = a, !.qnodes = m]
           c == [s.pcbs[p] EXCEPT !.state = "FREE", !.pid = NO_PID,
                                  !.ppid = NO_PID]
           u == WithPcb(t, p, c)
<1>1. /\ s \in KStates /\ s.pcbs[p] \in PcbRecords /\ stk \in Stacks
      /\ s.stacks \in Seq(Stacks) /\ s.qnodes \in Nat /\ IsInjective(s.stacks)
      /\ Loose(s, D)
  BY DEF Sane, KStates, PcbRecords, Owned
<1>2. stk \notin Range(s.stacks)
  BY DEF Sane, Owned, InUse
<1>3. s.qnodes > d /\ s.qnodes # 0 /\ m \in Nat
  BY <1>1, <1>2, StackSpace
<1>4. /\ a \in Seq(Stacks) /\ IsInjective(a) /\ Len(a) = Len(s.stacks) + 1
      /\ Range(a) = Range(s.stacks) \cup {stk}
  BY <1>1, <1>2, AppendRange
<1>5. stk_dealloc(s, stk) = t
  BY <1>3 DEF stk_dealloc
<1>6. c \in PcbRecords /\ c.state = "FREE" /\ c.stack = stk
  <2>1. NO_PID \in Int
    BY DEF NO_PID
  <2> QED BY <1>1, <2>1 DEF PcbRecords, States
<1> HIDE DEF a, m, stk
<1>7. /\ t \in KStates /\ t.pcbs = s.pcbs /\ t.queues = s.queues
      /\ t.stacks = a /\ t.qnodes = m /\ SameCpu(s, t)
  BY <1>1, <1>3, <1>4 DEF KStates, SameCpu
<1> HIDE DEF t
<1>8. pcb_cleanup(s, p) = q_enque(u, "free", p)
  <2>1. u = [t EXCEPT !.pcbs[p].state = "FREE", !.pcbs[p].pid = NO_PID,
                      !.pcbs[p].ppid = NO_PID]
    BY <1>1, <1>7 DEF WithPcb, KStates, PcbRecords
  <2> QED
    BY <1>5, <2>1 DEF pcb_cleanup, pcb_dealloc, stk
<1> HIDE DEF c
<1>9. /\ u \in KStates /\ SameQueues(t, u) /\ SameBut(t, u, p)
      /\ u.pcbs[p] = c
  BY <1>6, <1>7, SetPcb
<1> HIDE DEF u
<1>10. Loose(u, D)
  <2>1. \A r \in Pcbs \ D : u.pcbs[r] = s.pcbs[r]
    BY <1>7, <1>9 DEF SameBut
  <2> QED
    BY <1>1, <1>7, <1>9, <2>1 DEF Loose, SameQueues
<1>11. Owned(u)
  <2>1. InUse(u) = InUse(s) \ {p}
    BY <1>6, <1>7, <1>9 DEF InUse, SameBut
  <2>2. \A r \in InUse(u) : u.pcbs[r].stack = s.pcbs[r].stack /\ r \in InUse(s)
    BY <1>7, <1>9, <2>1 DEF SameBut, InUse
  <2>3. u.stacks = a
    BY <1>7, <1>9 DEF SameQueues
  <2>4. p \in InUse(s) /\ stk = s.pcbs[p].stack
    BY DEF InUse, stk
  <2>5. \A r \in InUse(u) : u.pcbs[r].stack \notin Range(a)
    BY <1>4, <2>1, <2>2, <2>4 DEF Sane, Owned
  <2>6. \A q, r \in InUse(u) : u.pcbs[q].stack = u.pcbs[r].stack => q = r
    BY <2>2 DEF Sane, Owned
  <2>7. ASSUME NEW x \in Stacks
        PROVE  x \in Range(a) \/ \E r \in InUse(u) : u.pcbs[r].stack = x
    <3>1. CASE x \in Range(s.stacks) \/ x = stk
      BY <1>4, <3>1
    <3>2. CASE x \notin Range(s.stacks) /\ x # stk
      <4>1. PICK r \in InUse(s) : s.pcbs[r].stack = x
        BY <3>2 DEF Sane, Owned
      <4>2. r \in InUse(u)
        BY <3>2, <4>1, <2>1, <2>4
      <4> QED BY <4>1, <4>2, <2>2
    <3> QED BY <3>1, <3>2
  <2> QED
    BY <1>4, <2>3, <2>5, <2>6, <2>7 DEF Owned
<1>12. Balanced(u, d)
  <2> DEFINE l == Len(s.stacks)
  <2>1. s.qnodes = N_QNODES - N_PCBS + d - l /\ l \in Nat
    BY <1>1 DEF Sane, Balanced
  <2>2. Len(u.stacks) = l + 1 /\ u.qnodes = m
    BY <1>4, <1>7, <1>9 DEF SameQueues
  <2> HIDE DEF l
  <2>3. m = N_QNODES - N_PCBS + d - (l + 1)
    BY <1>1, <2>1, PoolAssumption DEF m
  <2> QED BY <2>2, <2>3 DEF Balanced
<1>13. Sane(u, D, d)
  BY <1>9, <1>10, <1>11, <1>12 DEF Sane
<1>14. Placeable(u, p) /\ Home(u.pcbs[p]) = "free" /\ "free" \in QNames
  BY <1>6, <1>9 DEF Placeable, Home, QNames
<1>15. /\ Sane(q_enque(u, "free", p), D \ {p}, d - 1)
       /\ SamePcbs(u, q_enque(u, "free", p))
  BY <1>13, <1>14, EnqueOK
<1> QED
  BY <1>7, <1>8, <1>9, <1>15 DEF SameBut, SamePcbs, SameCpu

\* A set of PCBs has a number of members.
LEMMA CountType == ASSUME NEW S, S \subseteq Pcbs PROVE Cardinality(S) \in Nat
<1> DEFINE m == N_PCBS - 1
<1>1. 0 \in Int /\ m \in Int
  BY PoolAssumption
<1> HIDE DEF m
<1>2. IsFiniteSet(0 .. m)
  BY <1>1, FS_Interval
<1>3. IsFiniteSet(S)
  BY <1>2, FS_Subset DEF Pcbs, m
<1> QED
  BY <1>3, FS_CardinalityType

\* Handing children to init touches no state, stack or queue.
LEMMA ReparentOK ==
  ASSUME NEW s, NEW D, NEW d, Sane(s, D, d), NEW p \in Pcbs
  PROVE  /\ Sane(reparent(s, p), D, d)
         /\ SameCpu(s, reparent(s, p))
         /\ \A r \in Pcbs : reparent(s, p).pcbs[r].state = s.pcbs[r].state
<1> DEFINE kids == ChildrenOf(s, s.pcbs[p].pid)
           adopt(r) == [s.pcbs[r] EXCEPT
                         !.ppid = IF r \in kids THEN PID_INIT ELSE @,
                         !.children = IF r = p THEN 0
                                      ELSE IF r = 0 THEN @ + Cardinality(kids)
                                      ELSE @]
           adopted == [r \in Pcbs |-> adopt(r)]
           t == [s EXCEPT !.pcbs = adopted]
<1>1. s \in KStates
  BY DEF Sane
<1>2. CASE s.pcbs[p].children > 0
  <2>1. reparent(s, p) = t
    BY <1>2 DEF reparent
  <2>2. Cardinality(kids) \in Nat
    BY CountType DEF ChildrenOf
  <2> HIDE DEF kids
  <2>3. ASSUME NEW r \in Pcbs
        PROVE  /\ adopt(r) \in PcbRecords
               /\ adopt(r).state = s.pcbs[r].state
               /\ adopt(r).prio = s.pcbs[r].prio
               /\ adopt(r).stack = s.pcbs[r].stack
    <3>1. s.pcbs[r] \in PcbRecords /\ PID_INIT \in Int
      BY <1>1 DEF KStates, PID_INIT
    <3> DEFINE x == IF r \in kids THEN PID_INIT ELSE s.pcbs[r].ppid
               y == IF r = p THEN 0
                    ELSE IF r = 0 THEN s.pcbs[r].children + Cardinality(kids)
                    ELSE s.pcbs[r].children
    <3>2. x \in Int /\ y \in Nat
      BY <2>2, <3>1 DEF PcbRecords
    <3>3. adopt(r) = [s.pcbs[r] EXCEPT !.ppid = x, !.children = y]
      BY <3>1 DEF PcbRecords
    <3> HIDE DEF x, y, adopt
    <3> QED
      BY <3>1, <3>2, <3>3 DEF PcbRecords
  <2> HIDE DEF adopt
  <2>4. /\ adopted \in [Pcbs -> PcbRecords]
        /\ \A r \in Pcbs : adopted[r] = adopt(r)
    BY <2>3
  <2> HIDE DEF adopted
  <2>5. t \in KStates /\ SameQueues(s, t) /\ SameCpu(s, t) /\ t.pcbs = adopted
    BY <1>1, <2>4 DEF KStates, SameQueues, SameCpu
  <2> HIDE DEF t
  <2>6. \A r \in Pcbs : /\ t.pcbs[r].state = s.pcbs[r].state
                        /\ t.pcbs[r].prio = s.pcbs[r].prio
                        /\ t.pcbs[r].stack = s.pcbs[r].stack
    BY <2>3, <2>4, <2>5
  <2>7. Sane(t, D, d)
    BY <2>5, <2>6, Frame
  <2> QED
    BY <2>1, <2>5, <2>6, <2>7
<1>3. CASE ~(s.pcbs[p].children > 0)
  BY <1>3 DEF reparent, SameCpu
<1> QED
  BY <1>2, <1>3

(***************************************************************************)
(* _zombify takes a dead process out of flight: its PCB ends on the free   *)
(* or on the zombie queue, and a parent it wakes on a ready queue.         *)
(***************************************************************************)
LEMMA ZombifyOK ==
  ASSUME NEW s, NEW D, NEW d \in Nat, d > 0, Sane(s, D, d),
         NEW p \in Pcbs, p \in D, s.pcbs[p].state \in {"KILLED", "ZOMBIE"},
         \A r \in D : s.pcbs[r].state # "WAITING"
  PROVE  /\ Ok(zombify(s, p), D \ {p}, d - 1)
         /\ zombify(s, p).current = s.current
         /\ \A r \in Pcbs \ {p} :
              s.pcbs[r].state = "RUNNING"
                => zombify(s, p).pcbs[r].state = "RUNNING"
<1> DEFINE t == reparent(s, p)
           found == HavingPid(t, t.pcbs[p].ppid)
           parent == First(found)
           u == q_remove(t, "waiting", parent, "_zombify")
           v == pcb_cleanup(u, p)
           w == schedule(v, parent)
           z == q_enque(t, "zombie", p)
<1>1. /\ Sane(t, D, d) /\ SameCpu(s, t) /\ t \in KStates
      /\ \A r \in Pcbs : t.pcbs[r].state = s.pcbs[r].state
  BY ReparentOK DEF Sane
<1> HIDE DEF t
<1>2. CASE found = {}
  <2>1. zombify(s, p) = kpanic(t, "no parent")
    BY <1>2 DEF zombify, t
  <2>2. kpanic(t, "no parent") \in KStates /\ kpanic(t, "no parent").panic # "none"
    BY <1>1, PanicType DEF PanicNames, Panics, QueuePanics
  <2>3. /\ kpanic(t, "no parent").pcbs = t.pcbs
        /\ kpanic(t, "no parent").current = t.current
    BY <1>1 DEF kpanic, KStates
  <2> QED
    BY <1>1, <2>1, <2>2, <2>3 DEF Ok, SameCpu
<1>3. CASE found # {} /\ t.pcbs[parent].state = "WAITING"
  <2>1. zombify(s, p) = w
    BY <1>3 DEF zombify, t
  <2>2. parent \in Pcbs
    <3>1. found \subseteq Nat /\ found \subseteq Pcbs
      BY DEF HavingPid, Pcbs
    <3> HIDE DEF found
    <3> QED BY <1>3, <3>1, FirstIn
  <2> HIDE DEF found, parent
  <2>3. /\ parent \notin D /\ parent # p /\ "waiting" \in QNames
        /\ Home(t.pcbs[parent]) = "waiting"
    BY <1>1, <1>3, <2>2 DEF Home, QNames
  <2>4. Sane(u, D \cup {parent}, d + 1) /\ SamePcbs(t, u)
    BY <1>1, <2>2, <2>3, RemoveOK
  <2> HIDE DEF u
  <2>5. u.pcbs[p].state # "FREE" /\ d + 1 \in Nat /\ d + 1 > 0
    BY <1>1, <2>4 DEF SamePcbs
  <2>6. /\ Sane(v, (D \cup {parent}) \ {p}, (d + 1) - 1) /\ SameBut(u, v, p)
    BY <2>4, <2>5, CleanupOK
  <2> HIDE DEF v
  <2>7. Sane(v, (D \cup {parent}) \ {p}, d)
    <3>1. (d + 1) - 1 = d
      OBVIOUS
    <3> QED BY <2>6, <3>1
  <2>8. v.pcbs[parent].state # "FREE" /\ parent \in (D \cup {parent}) \ {p}
    BY <1>3, <2>2, <2>3, <2>4, <2>6 DEF SameBut, SamePcbs
  <2>9. /\ Sane(w, ((D \cup {parent}) \ {p}) \ {parent}, d - 1)
        /\ SameBut(v, w, parent)
    BY <2>2, <2>7, <2>8, ScheduleOK
  <2> HIDE DEF w
  <2>10. ((D \cup {parent}) \ {p}) \ {parent} = D \ {p}
    BY <2>3
  <2>11. Ok(w, D \ {p}, d - 1)
    BY <2>9, <2>10 DEF Ok, Sane
  <2>12. w.current = s.current
    BY <1>1, <2>4, <2>6, <2>9 DEF SameBut, SameCpu, SamePcbs
  <2>13. ASSUME NEW r \in Pcbs \ {p}, s.pcbs[r].state = "RUNNING"
         PROVE  w.pcbs[r].state = "RUNNING"
    BY <1>1, <1>3, <2>4, <2>6, <2>9, <2>13 DEF SameBut, SamePcbs
  <2> QED
    BY <2>1, <2>11, <2>12, <2>13
<1>4. CASE found # {} /\ t.pcbs[parent].state # "WAITING"
  <2>1. zombify(s, p) = enque_or_panic(t, "zombie", p, "_zombify")
    BY <1>4 DEF zombify, t
  <2>2. /\ Placeable(t, p) /\ Home(t.pcbs[p]) = "zombie" /\ "zombie" \in QNames
    BY <1>1 DEF Placeable, Home, QNames
  <2>3. t.qnodes # 0 /\ Sane(z, D \ {p}, d - 1) /\ SamePcbs(t, z)
    BY <1>1, <2>2, EnqueOK
  <2>4. zombify(s, p) = z
    BY <2>1, <2>3 DEF enque_or_panic
  <2> HIDE DEF z
  <2> QED
    BY <1>1, <2>3, <2>4 DEF Ok, Sane, SamePcbs, SameCpu
<1> QED
  BY <1>2, <1>3, <1>4

-----------------------------------------------------------------------------
(* Handlers *)

InState(s, p, st) == [s EXCEPT !.pcbs[p].state = st]

\* The state of a PCB in flight may change, as long as it stays in use.
LEMMA ChangeState ==
  ASSUME NEW s, NEW D, NEW d, Sane(s, D, d), NEW p \in Pcbs, p \in D,
         s.pcbs[p].state # "FREE", NEW st \in States, st # "FREE"
  PROVE  /\ Sane(InState(s, p, st), D, d)
         /\ SameBut(s, InState(s, p, st), p)
         /\ InState(s, p, st).pcbs[p].state = st
         /\ InState(s, p, st).pcbs[p].prio = s.pcbs[p].prio
<1> DEFINE c == [s.pcbs[p] EXCEPT !.state = st]
<1>1. s \in KStates /\ s.pcbs[p] \in PcbRecords
  BY DEF Sane, KStates
<1>2. /\ c \in PcbRecords /\ c.stack = s.pcbs[p].stack /\ c.state = st
      /\ c.prio = s.pcbs[p].prio
  BY <1>1 DEF PcbRecords
<1>3. InState(s, p, st) = WithPcb(s, p, c)
  BY <1>1 DEF InState, WithPcb, KStates, PcbRecords
<1> HIDE DEF c
<1>4. Sane(WithPcb(s, p, c), D, d)
  BY <1>2, Change
<1> QED
  BY <1>1, <1>2, <1>3, <1>4, SetPcb

\* how a handler finds the kernel
Start(s) ==
  Sane(s, {s.current}, 1) /\ s.pcbs[s.current].state = "RUNNING"

\* What a handler may assume of the types.
LEMMA StartType ==
  ASSUME NEW s, Start(s)
  PROVE  /\ s \in KStates /\ s.current \in Pcbs
         /\ s.pcbs[s.current] \in PcbRecords /\ Done(s)
         /\ \A n \in QNames : s.queues[n] \in Seq(Pcbs)
BY DEF Start, Sane, KStates, Done

\* s only differs from a consistent kernel in the running PCB
LEMMA RunningChange ==
  ASSUME NEW s, NEW t, NEW p, Start(s), Sane(t, {s.current}, 1),
         SameBut(s, t, p), p # s.current
  PROVE  Done(t)
BY DEF Start, Done, SameBut, SameCpu, Sane, KStates

\* exit() and a page fault: the running process dies and another is dispatched.
LEMMA DieOK ==
  ASSUME NEW s, Start(s), NEW st \in {"KILLED", "ZOMBIE"}
  PROVE  Done(dispatch(zombify(InState(s, s.current, st), s.current)))
<1> DEFINE p == s.current
           t == InState(s, p, st)
<1>1. p \in Pcbs /\ Sane(s, {p}, 1) /\ s.pcbs[p].state # "FREE"
  BY StartType DEF Start
<1> HIDE DEF p
<1>2. Sane(t, {p}, 1) /\ t.pcbs[p].state = st
  BY <1>1, ChangeState DEF States
<1> HIDE DEF t
<1>3. Ok(zombify(t, p), {p} \ {p}, 1 - 1)
  BY <1>1, <1>2, ZombifyOK
<1>4. {p} \ {p} = {} /\ 1 - 1 = 0
  OBVIOUS
<1>5. Ok(zombify(t, p), {}, 0)
  BY <1>3, <1>4
<1> QED
  BY <1>5, DispatchOK DEF p, t

\* the running process goes to the end of its ready queue
LEMMA YieldOK ==
  ASSUME NEW s, Start(s)
  PROVE  Done(dispatch(schedule(s, s.current)))
<1> DEFINE p == s.current
           t == schedule(s, p)
<1>1. p \in Pcbs /\ Sane(s, {p}, 1) /\ s.pcbs[p].state # "FREE"
  BY StartType DEF Start
<1> HIDE DEF p
<1>2. Sane(t, {p} \ {p}, 1 - 1)
  BY <1>1, ScheduleOK
<1>3. {p} \ {p} = {} /\ 1 - 1 = 0
  OBVIOUS
<1>4. Ok(t, {}, 0)
  BY <1>2, <1>3 DEF Ok, Sane
<1> HIDE DEF t
<1> QED
  BY <1>4, DispatchOK DEF p, t

\* the running process blocks on a queue
LEMMA BlockOK ==
  ASSUME NEW s, NEW p \in Pcbs, Sane(s, {p}, 1), NEW n \in QNames, NEW who,
         Placeable(s, p), Home(s.pcbs[p]) = n
  PROVE  /\ Done(dispatch(enque_or_panic(s, n, p, who)))
         /\ Done(dispatch(q_enque(s, n, p)))
<1> DEFINE t == q_enque(s, n, p)
<1>1. s.qnodes # 0 /\ Sane(t, {p} \ {p}, 1 - 1)
  BY EnqueOK
<1>2. enque_or_panic(s, n, p, who) = t
  BY <1>1 DEF enque_or_panic
<1>3. {p} \ {p} = {} /\ 1 - 1 = 0
  OBVIOUS
<1> HIDE DEF t
<1>4. Ok(t, {}, 0)
  BY <1>1, <1>3 DEF Ok, Sane
<1> QED
  BY <1>2, <1>4, DispatchOK DEF t

\* _sys_kill, whatever state its victim is in.
LEMMA KillOK ==
  ASSUME NEW s, Start(s), NEW victim \in Pcbs
  PROVE  Done(kill_victim(s, victim))
<1> DEFINE pcb == s.pcbs[victim]
           off == IF pcb.state = "RUNNING" THEN s
                  ELSE q_remove(s, Home(pcb), victim, "_sys_kill")
           t == InState(off, victim, "KILLED")
           dead == zombify(t, victim)
<1>1. /\ s \in KStates /\ pcb \in PcbRecords /\ s.current \in Pcbs
      /\ Sane(s, {s.current}, 1) /\ s.pcbs[s.current].state = "RUNNING"
  BY StartType DEF Start, KStates
<1>2. CASE pcb.state \in {"KILLED", "ZOMBIE"}
  BY <1>2, StartType DEF kill_victim
<1>3. CASE pcb.state \in {"FREE", "NEW"}
  <2>1. kill_victim(s, victim) = kpanic(s, "bad victim state")
    BY <1>3 DEF kill_victim
  <2> QED
    BY <1>1, <2>1, PanicType DEF Done, PanicNames, Panics, QueuePanics, KStates
<1>4. CASE pcb.state \notin {"KILLED", "ZOMBIE", "FREE", "NEW"}
  <2>1. kill_victim(s, victim)
          = IF victim = s.current THEN dispatch(dead) ELSE dead
    BY <1>4 DEF kill_victim, InState
  <2>2. CASE victim = s.current
    <3>1. off = s
      BY <1>1, <2>2
    <3> QED
      BY <2>1, <2>2, <3>1, DieOK
  <2>3. CASE victim # s.current
    <3>1. pcb.state # "RUNNING"
      BY <1>1, <2>3 DEF Sane, Loose
    <3>2. off = q_remove(s, Home(pcb), victim, "_sys_kill")
      BY <3>1
    <3>3. Home(pcb) \in QNames
      BY <1>1, HomeType
    <3> HIDE DEF off
    <3>4. Sane(off, {s.current} \cup {victim}, 1 + 1) /\ SamePcbs(s, off)
      BY <1>1, <2>3, <3>2, <3>3, RemoveOK
    <3> DEFINE D == {s.current} \cup {victim}
    <3>5. Sane(off, D, 2) /\ victim \in D /\ off.pcbs[victim].state # "FREE"
      BY <1>4, <3>4 DEF SamePcbs
    <3>6. D \ {victim} = {s.current} /\ 2 - 1 = 1
      BY <2>3
    <3>7. \A r \in D : r = victim \/ r = s.current
      OBVIOUS
    <3> HIDE DEF D
    <3>8. Sane(t, D, 2) /\ SameBut(off, t, victim) /\ t.pcbs[victim].state = "KILLED"
      BY <3>5, ChangeState DEF States
    <3> HIDE DEF t
    <3>9. /\ t.pcbs[s.current].state = "RUNNING" /\ t.current = s.current
          /\ \A r \in D : t.pcbs[r].state # "WAITING"
      BY <1>1, <2>3, <3>4, <3>7, <3>8 DEF SameBut, SamePcbs, SameCpu
    <3>10. /\ Ok(dead, D \ {victim}, 2 - 1) /\ dead.current = t.current
           /\ \A r \in Pcbs \ {victim} : t.pcbs[r].state = "RUNNING"
                                        => dead.pcbs[r].state = "RUNNING"
      BY <3>5, <3>8, <3>9, ZombifyOK
    <3> HIDE DEF dead
    <3> QED
      BY <1>1, <2>1, <2>3, <3>6, <3>9, <3>10 DEF Ok, Done, KStates
  <2> QED BY <2>2, <2>3
<1> QED
  BY <1>2, <1>3, <1>4

\* _sys_wait with a zombie child: its PCB and stack are freed.
LEMMA ReapOK ==
  ASSUME NEW s, Start(s), s.pcbs[s.current].children # 0,
         NEW child \in Pcbs, s.pcbs[child].state = "ZOMBIE"
  PROVE  /\ Done(wait_reap(s, s.current, child))
         /\ \E u \in KStates :
              /\ wait_reap(s, s.current, child) = pcb_cleanup(u, child)
              /\ SameBut(s, u, s.current)
              /\ u.pcbs[s.current] = [s.pcbs[s.current] EXCEPT !.children = @ - 1]
              /\ \A m \in QNames \ {"zombie"} : u.queues[m] = s.queues[m]
         /\ wait_reap(s, s.current, child).panic = s.panic
<1> DEFINE p == s.current
           t == q_remove(s, "zombie", child, "_sys_wait")
           c == [t.pcbs[p] EXCEPT !.children = @ - 1]
           u == WithPcb(t, p, c)
           v == pcb_cleanup(u, child)
<1>1. /\ s \in KStates /\ p \in Pcbs /\ s.pcbs[p] \in PcbRecords
      /\ Sane(s, {p}, 1) /\ s.pcbs[p].state = "RUNNING"
  BY StartType DEF Start
<1> HIDE DEF p
<1>2. /\ child \notin {p} /\ child # p /\ "zombie" \in QNames
      /\ Home(s.pcbs[child]) = "zombie"
  BY <1>1 DEF Home, QNames
<1>3. /\ Sane(t, {p} \cup {child}, 1 + 1) /\ SamePcbs(s, t)
      /\ \A m \in QNames \ {"zombie"} : t.queues[m] = s.queues[m]
  BY <1>1, <1>2, RemoveOK, RemoveElsewhere
<1> HIDE DEF t
<1> DEFINE D == {p} \cup {child}
<1>4. /\ Sane(t, D, 2) /\ p \in D /\ child \in D /\ t \in KStates
      /\ t.pcbs[p] = s.pcbs[p]
  BY <1>3 DEF SamePcbs, Sane
<1>5. D \ {child} = {p} /\ 2 - 1 = 1
  BY <1>2
<1> HIDE DEF D
<1>6. /\ c \in PcbRecords /\ c.stack = t.pcbs[p].stack /\ c.state = "RUNNING"
  <2>1. s.pcbs[p].children - 1 \in Nat
    BY <1>1 DEF PcbRecords, p
  <2> DEFINE k == s.pcbs[p].children - 1
  <2>2. c = [s.pcbs[p] EXCEPT !.children = k]
    BY <1>1, <1>4 DEF PcbRecords
  <2> HIDE DEF k, c
  <2>3. k \in Nat
    BY <2>1 DEF k
  <2> QED
    BY <1>1, <1>4, <2>2, <2>3 DEF PcbRecords
<1>7. wait_reap(s, p, child) = v
  BY <1>1, <1>4 DEF wait_reap, WithPcb, t, KStates, PcbRecords
<1> HIDE DEF c
<1>8. Sane(u, D, 2) /\ SameBut(t, u, p) /\ u.pcbs[p] = c /\ SameQueues(t, u)
  BY <1>1, <1>4, <1>6, Change, SetPcb
<1> HIDE DEF u
<1>9. u.pcbs[child].state # "FREE"
  BY <1>2, <1>3, <1>8 DEF SameBut, SamePcbs
<1>10. Sane(v, D \ {child}, 2 - 1) /\ SameBut(u, v, child)
  BY <1>4, <1>8, <1>9, CleanupOK
<1> HIDE DEF v
<1>11. Sane(v, {p}, 1)
  BY <1>5, <1>10
<1>12. v.current = p /\ v.pcbs[p].state = "RUNNING"
  BY <1>1, <1>2, <1>3, <1>6, <1>8, <1>10 DEF SameBut, SamePcbs, SameCpu, p
<1>13. Done(v) /\ v.panic = s.panic
  BY <1>3, <1>8, <1>10, <1>11, <1>12 DEF Done, Sane, KStates, SameBut, SamePcbs, SameCpu
<1>14. /\ v = pcb_cleanup(u, child) /\ u \in KStates
       /\ SameBut(s, u, p) /\ u.pcbs[p] = [s.pcbs[p] EXCEPT !.children = @ - 1]
       /\ \A m \in QNames \ {"zombie"} : u.queues[m] = s.queues[m]
  BY <1>3, <1>4, <1>8 DEF Sane, SameQueues, SameBut, SamePcbs, SameCpu, v, c
<1> QED
  BY <1>7, <1>13, <1>14 DEF p

\* an interrupt moves the head of a queue of blocked processes to a ready queue
LEMMA WakeOK ==
  ASSUME NEW s, Start(s), NEW n \in {"sleeping", "reading"}, s.queues[n] # <<>>
  PROVE  Done(schedule(q_deque(s, n), Head(s.queues[n])))
<1> DEFINE p == Head(s.queues[n])
           c == s.current
           t == q_deque(s, n)
           u == schedule(t, p)
<1>1. n \in QNames /\ c \in Pcbs /\ Sane(s, {c}, 1)
  BY StartType DEF QNames, Start
<1>2. /\ p \in Pcbs \ {c} /\ Home(s.pcbs[p]) = n
      /\ Sane(t, {c} \cup {p}, 1 + 1) /\ SamePcbs(s, t)
  <2> HIDE DEF c
  <2> QED BY <1>1, DequeOK
<1> HIDE DEF p, t
<1> DEFINE D == {c} \cup {p}
<1>3. Sane(t, D, 2) /\ p \in D /\ D \ {p} = {c} /\ 2 - 1 = 1
  <2>1. 1 + 1 = 2 /\ 2 - 1 = 1
    OBVIOUS
  <2>2. Sane(t, D, 2)
    BY <1>2, <2>1, Zenon
  <2>3. p \in D /\ D \ {p} = {c}
    BY <1>2, Zenon
  <2> QED BY <2>1, <2>2, <2>3
<1>4. t.pcbs[p].state # "FREE"
  BY <1>2 DEF Home, SamePcbs
<1> HIDE DEF D, c
<1>5. Sane(u, D \ {p}, 2 - 1) /\ SameBut(t, u, p)
  <2>1. p \in Pcbs /\ 2 \in Nat /\ 2 > 0
    BY <1>2
  <2> QED BY <2>1, <1>3, <1>4, ScheduleOK
<1>6. Sane(u, {c}, 1) /\ SameBut(s, u, p) /\ p # c
  BY <1>2, <1>3, <1>5 DEF SameBut, SamePcbs, SameCpu
<1> HIDE DEF u
<1>7. Done(u)
  BY <1>6, RunningChange DEF c
<1> QED BY <1>7 DEF u, t, p

\* _sys_fork without a stack for the child: the PCB is given back
LEMMA NoStackOK ==
  ASSUME NEW s, Start(s), s.queues["free"] # <<>>
  PROVE  LET new == Head(s.queues["free"])
             t == pcb_dealloc(pcb_alloc(s), new)
         IN  /\ Done(t) /\ new \in Pcbs /\ SameBut(s, t, new)
             /\ s.pcbs[new].state = "FREE"
             /\ t.pcbs[new] = [s.pcbs[new] EXCEPT !.state = "FREE", !.pid = NO_PID,
                                                  !.ppid = NO_PID]
<1> DEFINE n == "free"
           p == Head(s.queues[n])
           k == s.current
           t == q_deque(s, n)
           c == [t.pcbs[p] EXCEPT !.state = "FREE", !.pid = NO_PID,
                                  !.ppid = NO_PID]
           u == WithPcb(t, p, c)
           v == q_enque(u, n, p)
<1>1. n \in QNames /\ k \in Pcbs /\ Sane(s, {k}, 1)
  BY StartType DEF QNames, Start
<1>2. /\ p \in Pcbs \ {k} /\ Home(s.pcbs[p]) = n
      /\ Sane(t, {k} \cup {p}, 1 + 1) /\ SamePcbs(s, t)
  <2> HIDE DEF k
  <2> QED BY <1>1, DequeOK
<1>3. pcb_dealloc(pcb_alloc(s), p)
        = q_enque([[t EXCEPT !.pcbs[p].state = "NEW"]
                     EXCEPT !.pcbs[p].state = "FREE", !.pcbs[p].pid = NO_PID,
                            !.pcbs[p].ppid = NO_PID], n, p)
  BY DEF pcb_dealloc, pcb_alloc
<1> HIDE DEF p, t
<1> DEFINE D == {k} \cup {p}
<1>4. Sane(t, D, 2) /\ p \in D /\ D \ {p} = {k} /\ 2 - 1 = 1
  <2>1. 1 + 1 = 2 /\ 2 - 1 = 1
    OBVIOUS
  <2>2. Sane(t, D, 2)
    BY <1>2, <2>1, Zenon
  <2>3. p \in D /\ D \ {p} = {k}
    BY <1>2, Zenon
  <2> QED BY <2>1, <2>2, <2>3
<1>5. t \in KStates /\ t.pcbs[p] \in PcbRecords /\ t.pcbs[p].state = "FREE"
  <2>1. t \in KStates /\ s \in KStates
    BY <1>1, <1>4 DEF Sane
  <2>2. t.pcbs[p] \in PcbRecords /\ t.pcbs[p] = s.pcbs[p]
    BY <1>2, <2>1 DEF KStates, SamePcbs
  <2> QED
    BY <1>2, <2>1, <2>2 DEF Home, Ready
<1>6. /\ c \in PcbRecords /\ c.stack = t.pcbs[p].stack /\ c.state = "FREE"
  <2>1. NO_PID \in Int
    BY DEF NO_PID
  <2> QED BY <1>5, <2>1 DEF PcbRecords, States
<1>7. pcb_dealloc(pcb_alloc(s), p) = v
  <2> DEFINE e == [t.pcbs[p] EXCEPT !.state = "NEW"]
             x == WithPcb(t, p, e)
  <2>1. x = [t EXCEPT !.pcbs[p].state = "NEW"]
    BY <1>2, <1>5 DEF WithPcb, KStates, PcbRecords
  <2>2. e \in PcbRecords
    BY <1>5 DEF PcbRecords, States
  <2>3. c = [e EXCEPT !.state = "FREE", !.pid = NO_PID, !.ppid = NO_PID]
    BY <1>5 DEF PcbRecords
  <2> HIDE DEF e, c
  <2>4. WithPcb(x, p, c) = u /\ x \in KStates /\ x.pcbs[p] = e
    BY <1>2, <1>5, <2>2 DEF WithPcb, KStates
  <2> HIDE DEF x, u
  <2>5. u = [x EXCEPT !.pcbs[p].state = "FREE", !.pcbs[p].pid = NO_PID,
                      !.pcbs[p].ppid = NO_PID]
    BY <1>2, <2>2, <2>3, <2>4 DEF WithPcb, KStates, PcbRecords
  <2> QED BY <1>3, <2>1, <2>5
<1> HIDE DEF c, D
<1>8. Sane(u, D, 2) /\ SameBut(t, u, p) /\ u.pcbs[p] = c
  BY <1>2, <1>4, <1>5, <1>6, Change, SetPcb
<1> HIDE DEF u
<1>9. Placeable(u, p) /\ Home(u.pcbs[p]) = n
  BY <1>6, <1>8 DEF Placeable, Home
<1>10. Sane(v, D \ {p}, 2 - 1) /\ SamePcbs(u, v)
  BY <1>1, <1>2, <1>4, <1>8, <1>9, EnqueOK
<1>11. Sane(v, {k}, 1) /\ SameBut(s, v, p) /\ p # k
  BY <1>2, <1>4, <1>8, <1>10 DEF SameBut, SamePcbs, SameCpu
<1>12. v.pcbs[p] = [s.pcbs[p] EXCEPT !.state = "FREE", !.pid = NO_PID,
                                     !.ppid = NO_PID]
  BY <1>2, <1>8, <1>10 DEF SamePcbs, c
<1> HIDE DEF v
<1>13. Done(v)
  BY <1>11, RunningChange DEF k
<1>14. s.pcbs[p].state = "FREE"
  BY <1>2, <1>5 DEF SamePcbs
<1> QED BY <1>2, <1>7, <1>11, <1>12, <1>13, <1>14 DEF p

(***************************************************************************)
(* The child gets a free PCB and a free stack, and starts as ready.        *)
(***************************************************************************)
LEMMA ForkOK ==
  ASSUME NEW s, Start(s), s.queues["free"] # <<>>, s.stacks # <<>>,
         next_pid \in Nat
  PROVE  LET new == Head(s.queues["free"])
             pcb == s.pcbs[s.current]
             t == fork_child(s, s.current)
         IN  /\ Done(t) /\ t.panic = s.panic /\ t.current = s.current
             /\ new \in Pcbs \ {s.current} /\ s.pcbs[new].state = "FREE"
             /\ \E w \in KStates :
                  /\ t = schedule(w, new)
                  /\ w.pcbs[new] = [pcb EXCEPT !.pid = to_pid(next_pid), !.ppid = pcb.pid,
                                               !.stack = Head(s.stacks),
                                               !.prog = forked(@)]
                  /\ w.pcbs[s.current] = [pcb EXCEPT !.children = @ + 1,
                                                     !.prog = after_fork(@)]
                  /\ \A r \in Pcbs \ {s.current, new} : w.pcbs[r] = s.pcbs[r]
                  /\ \A m \in QNames \ {"free"} : w.queues[m] = s.queues[m]
<1> DEFINE n == "free"
           new == Head(s.queues[n])
           p == s.current
           stk == Head(s.stacks)
           b == Tail(s.stacks)
           a == q_deque(s, n)
           m == a.qnodes + 1
           kid == [s.pcbs[p] EXCEPT !.pid = to_pid(next_pid),
                                    !.ppid = s.pcbs[p].pid,
                                    !.stack = stk,
                                    !.prog = forked(@)]
           par == [s.pcbs[p] EXCEPT !.children = @ + 1,
                                    !.prog = after_fork(@)]
           x == [a EXCEPT !.stacks = b, !.qnodes = m]
           y == WithPcb(x, p, par)
           w == WithPcb(y, new, kid)
           v == schedule(w, new)
<1>1. /\ n \in QNames /\ p \in Pcbs /\ Sane(s, {p}, 1) /\ s \in KStates
      /\ s.pcbs[p] \in PcbRecords /\ s.pcbs[p].state = "RUNNING"
      /\ s.stacks \in Seq(Stacks) /\ IsInjective(s.stacks) /\ Owned(s)
  BY StartType DEF QNames, Start, KStates, Sane, Owned
<1>2. /\ new \in Pcbs \ {p} /\ Home(s.pcbs[new]) = n
      /\ Sane(a, {p} \cup {new}, 1 + 1) /\ SamePcbs(s, a)
  <2> HIDE DEF p
  <2> QED BY <1>1, DequeOK
<1> DEFINE D == {p} \cup {new}
<1>3. /\ Sane(a, D, 2) /\ new \in D /\ D \ {new} = {p} /\ 2 - 1 = 1
      /\ a \in KStates
  BY <1>2 DEF Sane
<1>24. \A i \in QNames \ {"free"} : a.queues[i] = s.queues[i]
  BY <1>1, DequeElsewhere
<1>4. /\ b \in Seq(Stacks) /\ IsInjective(b) /\ Range(b) = Range(s.stacks) \ {stk}
      /\ Len(b) = Len(s.stacks) - 1 /\ stk \in Stacks /\ stk \in Range(s.stacks)
  BY <1>1, TailRange
<1>5. fork_child(s, p) = schedule(
        [[[a EXCEPT !.pcbs[new].state = "NEW"]
             EXCEPT !.stacks = b, !.qnodes = m]
             EXCEPT !.pcbs[new] = kid, !.pcbs[p].children = @ + 1,
                    !.pcbs[p].prog = after_fork(@)], new)
  <2>1. stk_alloc(pcb_alloc(s))
          = [[a EXCEPT !.pcbs[new].state = "NEW"] EXCEPT !.stacks = b, !.qnodes = m]
    <3>1. [a EXCEPT !.pcbs[new].state = "NEW"].stacks = s.stacks
      BY <1>2, <1>3 DEF KStates, SamePcbs
    <3>2. [a EXCEPT !.pcbs[new].state = "NEW"].qnodes = a.qnodes
      BY <1>3 DEF KStates
    <3> HIDE DEF new, a
    <3> QED
      BY <3>1, <3>2 DEF stk_alloc, pcb_alloc, a, new
  <2> QED
    BY <2>1 DEF fork_child
<1> HIDE DEF new, stk, b, a, D
<1>6. kid \in PcbRecords /\ kid.state = "RUNNING" /\ kid.stack = stk
  <2>1. to_pid(next_pid) \in Int
    BY NumberAssumption DEF to_pid
  <2>2. forked(s.pcbs[p].prog) \in Programs
    BY <1>1 DEF forked, init_forks, PcbRecords, Programs
  <2> DEFINE f == forked(s.pcbs[p].prog)
             i == to_pid(next_pid)
  <2>3. kid = [s.pcbs[p] EXCEPT !.pid = i, !.ppid = s.pcbs[p].pid,
                                !.stack = stk, !.prog = f]
    BY <1>1 DEF PcbRecords
  <2> HIDE DEF f, i, kid
  <2>4. f \in Programs /\ i \in Int
    BY <2>1, <2>2 DEF f, i
  <2> QED
    BY <1>1, <1>4, <2>3, <2>4 DEF PcbRecords
<1>7. /\ par \in PcbRecords /\ par.state = "RUNNING"
      /\ par.stack = s.pcbs[p].stack
  <2>1. after_fork(s.pcbs[p].prog) \in Programs
    BY <1>1 DEF after_fork, PcbRecords, Programs
  <2> DEFINE f == after_fork(s.pcbs[p].prog)
             i == s.pcbs[p].children + 1
  <2>2. par = [s.pcbs[p] EXCEPT !.children = i, !.prog = f]
    BY <1>1 DEF PcbRecords
  <2>3. i \in Nat
    BY <1>1 DEF PcbRecords
  <2> HIDE DEF f, i, par
  <2>4. f \in Programs
    BY <2>1 DEF f
  <2> QED
    BY <1>1, <2>2, <2>3, <2>4 DEF PcbRecords
<1>8. /\ x \in KStates /\ x.pcbs = s.pcbs /\ x.queues = a.queues
      /\ x.stacks = b /\ x.qnodes = m /\ SameCpu(s, x) /\ m \in Nat
  <2>1. m \in Nat /\ a.pcbs = s.pcbs /\ SameCpu(s, a)
    BY <1>2, <1>3 DEF KStates, SamePcbs, SameCpu
  <2> HIDE DEF m
  <2> QED
    BY <1>3, <1>4, <2>1 DEF KStates, SameCpu
<1> DEFINE e == [a.pcbs[new] EXCEPT !.state = "NEW"]
           z == WithPcb(x, new, e)
<1>9. fork_child(s, p) = v
  <2>1. z = [[a EXCEPT !.pcbs[new].state = "NEW"] EXCEPT !.stacks = b, !.qnodes = m]
    BY <1>2, <1>3 DEF WithPcb, KStates, PcbRecords
  <2>2. e \in PcbRecords
    <3>1. a.pcbs[new] \in PcbRecords
      BY <1>2, <1>3 DEF KStates
    <3> QED BY <3>1 DEF PcbRecords, States
  <2>3. z \in KStates /\ SameBut(x, z, new)
    BY <1>2, <1>8, <2>2, SetPcb
  <2>4. z.pcbs[p] = s.pcbs[p]
    BY <1>1, <1>2, <1>8, <2>3 DEF SameBut
  <2> HIDE DEF x, e, kid
  <2>5. WithPcb(WithPcb(z, p, par), new, kid) = w
    <3> HIDE DEF par
    <3> QED BY <1>1, <1>2, <1>8 DEF WithPcb, KStates
  <2> HIDE DEF z, w
  <2>6. w = [z EXCEPT !.pcbs[new] = kid, !.pcbs[p].children = @ + 1,
                      !.pcbs[p].prog = after_fork(@)]
    <3> DEFINE i == z.pcbs[p].children + 1
               f == after_fork(z.pcbs[p].prog)
               g == [z.pcbs EXCEPT ![p] = par]
               h == [z.pcbs EXCEPT ![new] = kid, ![p].children = i, ![p].prog = f]
    <3>1. par = [z.pcbs[p] EXCEPT !.children = i, !.prog = f]
      BY <1>1, <2>4 DEF PcbRecords
    <3> HIDE DEF i, f, par
    <3>2. z.pcbs \in [Pcbs -> PcbRecords]
      BY <2>3 DEF KStates
    <3>3. h = [g EXCEPT ![new] = kid]
      BY <1>1, <1>2, <3>1, <3>2 DEF PcbRecords
    <3> HIDE DEF g, h
    <3>4. w = [z EXCEPT !.pcbs = h]
      BY <1>1, <1>2, <2>3, <2>5, <3>3 DEF WithPcb, KStates, g
    <3>5. [z EXCEPT !.pcbs = h]
            = [z EXCEPT !.pcbs[new] = kid, !.pcbs[p].children = i,
                        !.pcbs[p].prog = f]
      BY <1>1, <1>2, <2>3, <3>2 DEF KStates, h
    <3> QED
      BY <3>4, <3>5 DEF i, f
  <2> QED BY <1>5, <2>1, <2>6
<1> HIDE DEF kid, par, m, x, e, z
<1>10. y \in KStates /\ SameQueues(x, y) /\ SameBut(x, y, p) /\ y.pcbs[p] = par
  BY <1>1, <1>7, <1>8, SetPcb
<1> HIDE DEF y
<1>11. /\ w \in KStates /\ SameQueues(y, w) /\ SameBut(y, w, new)
       /\ w.pcbs[new] = kid
  BY <1>2, <1>6, <1>10, SetPcb
<1> HIDE DEF w
<1>12. /\ w.pcbs[p] = par /\ w.queues = a.queues /\ w.stacks = b /\ w.qnodes = m
       /\ \A r \in Pcbs \ D : w.pcbs[r] = s.pcbs[r]
       /\ SameCpu(s, w) /\ p # new /\ a.pcbs = s.pcbs
  BY <1>1, <1>2, <1>8, <1>10, <1>11 DEF SameQueues, SameBut, SameCpu, SamePcbs, D
<1>13. Loose(w, D)
  BY <1>3, <1>12 DEF Sane, Loose
<1>14. Owned(w)
  <2>1. s.pcbs[new].state = "FREE"
    BY <1>1, <1>2 DEF Home, Ready, KStates
  <2>2. InUse(w) = InUse(s) \cup {new} /\ p \in InUse(s) /\ new \notin InUse(s)
    BY <1>1, <1>2, <1>6, <1>7, <1>11, <1>12, <2>1 DEF InUse, D
  <2>3. w.pcbs[new].stack = stk
    BY <1>6, <1>11
  <2>4. \A r \in InUse(s) : w.pcbs[r].stack = s.pcbs[r].stack
    BY <1>7, <1>12, <2>2 DEF InUse, D
  <2>5. \A r \in InUse(w) : w.pcbs[r].stack \notin Range(b)
    BY <1>1, <1>4, <2>2, <2>3, <2>4 DEF Owned
  <2>6. \A q, r \in InUse(w) : w.pcbs[q].stack = w.pcbs[r].stack => q = r
    BY <1>1, <1>4, <2>2, <2>3, <2>4 DEF Owned
  <2>7. \A i \in Stacks : i \in Range(b) \/ \E r \in InUse(w) : w.pcbs[r].stack = i
    BY <1>1, <1>4, <2>2, <2>3, <2>4 DEF Owned
  <2> QED
    BY <1>4, <1>12, <2>5, <2>6, <2>7 DEF Owned
<1>15. Balanced(w, 2)
  <2> DEFINE l == Len(s.stacks)
             g == a.qnodes
  <2>1. g = N_QNODES - N_PCBS + 2 - l /\ l \in Nat
    BY <1>1, <1>2, <1>3 DEF Sane, Balanced, SamePcbs
  <2>2. Len(w.stacks) = l - 1 /\ w.qnodes = g + 1
    BY <1>4, <1>12 DEF m
  <2> HIDE DEF l, g
  <2>3. g + 1 = N_QNODES - N_PCBS + 2 - (l - 1)
    BY <2>1, PoolAssumption
  <2> QED BY <2>2, <2>3 DEF Balanced
<1>16. Sane(w, D, 2) /\ w.pcbs[new].state # "FREE"
  BY <1>6, <1>11, <1>13, <1>14, <1>15 DEF Sane
<1>17. Sane(v, D \ {new}, 2 - 1) /\ SameBut(w, v, new)
  <2>1. new \in Pcbs /\ 2 \in Nat /\ 2 > 0
    BY <1>2
  <2> HIDE DEF p
  <2> QED BY <2>1, <1>3, <1>16, ScheduleOK
<1>18. v = schedule(w, new)
  OBVIOUS
<1> HIDE DEF v
<1>19. Sane(v, {p}, 1)
  BY <1>3, <1>17
<1>20. v.current = p /\ v.pcbs[p].state = "RUNNING" /\ v.panic = s.panic
  BY <1>1, <1>7, <1>12, <1>17 DEF SameBut, SameCpu
<1>21. Done(v)
  BY <1>19, <1>20 DEF Done, Sane, KStates
<1>22. s.pcbs[new].state = "FREE"
  BY <1>1, <1>2 DEF Home, Ready, KStates
<1>23. \E g \in KStates :
         /\ v = schedule(g, new)
         /\ g.pcbs[new] = [s.pcbs[p] EXCEPT !.pid = to_pid(next_pid), !.ppid = s.pcbs[p].pid,
                                            !.stack = Head(s.stacks),
                                            !.prog = forked(@)]
         /\ g.pcbs[p] = [s.pcbs[p] EXCEPT !.children = @ + 1, !.prog = after_fork(@)]
         /\ \A r \in Pcbs \ {p, new} : g.pcbs[r] = s.pcbs[r]
         /\ \A i \in QNames \ {"free"} : g.queues[i] = s.queues[i]
  <2>1. \A r \in Pcbs \ {p, new} : w.pcbs[r] = s.pcbs[r]
    BY <1>12 DEF D
  <2>2. w \in KStates
    BY <1>11
  <2> WITNESS w \in KStates
  <2> QED
    BY <1>11, <1>12, <1>18, <1>24, <2>1 DEF kid, par, stk
<1> QED
  BY <1>2, <1>9, <1>20, <1>21, <1>22, <1>23 DEF new

-----------------------------------------------------------------------------
(* The invariant *)

(***************************************************************************)
(* None of the parts is inductive alone: a queue operation keeps the       *)
(* discipline because a qnode is left, qnodes are left because stacks are  *)
(* owned once, and a freed PCB's stack is owned because the PCB was in use *)
(* and in flight.                                                          *)
(***************************************************************************)
IInv == /\ TypeOK /\ QueuesNeverFail
        /\ QueueDiscipline /\ StackOwnership /\ QnodesBalance

KType == K \in KStates /\ free_qnodes <= N_QNODES
OtherType == /\ now \in 0 .. TIME_MOD - 1
             /\ next_pid \in PID_FIRST_USER .. PID_LIMIT
             /\ isr \in {"none", "clock"}

\* The type invariant, split into the kernel record and the rest.
LEMMA TypeParts == TypeOK /\ QueuesNeverFail <=> KType /\ OtherType
<1>1. TypeOK /\ QueuesNeverFail => KType /\ OtherType
  BY DEF TypeOK, QueuesNeverFail, KType, OtherType, K, KStates, PanicNames
<1>2. KType /\ OtherType => TypeOK /\ QueuesNeverFail
  <2> SUFFICES ASSUME KType, OtherType PROVE TypeOK /\ QueuesNeverFail
    OBVIOUS
  <2>1. /\ K.pcbs = pcbs /\ K.queues = queues /\ K.stacks = free_stacks
        /\ K.qnodes = free_qnodes /\ K.current = current /\ K.ticks = q_ticks
        /\ K.panic = panic
    BY DEF K
  <2>2. /\ K.pcbs \in [Pcbs -> PcbRecords] /\ K.queues \in [QNames -> Seq(Pcbs)]
        /\ K.stacks \in Seq(Stacks) /\ K.qnodes \in Nat /\ K.current \in Pcbs
        /\ K.ticks \in 1 .. QUANT_STD /\ K.panic \in PanicNames
    BY DEF KType, KStates
  <2>3. free_qnodes \in 0 .. N_QNODES
    BY <2>1, <2>2, PoolAssumption DEF KType
  <2> QED
    BY <2>1, <2>2, <2>3 DEF TypeOK, QueuesNeverFail, OtherType, PanicNames
<1> QED BY <1>1, <1>2

\* K is the record of the variables.
LEMMA KFields ==
  /\ K.pcbs = pcbs /\ K.queues = queues /\ K.stacks = free_stacks
  /\ K.qnodes = free_qnodes /\ K.current = current /\ K.ticks = q_ticks
  /\ K.panic = panic
BY DEF K

\* The invariant is what a handler starts from ...
LEMMA InvStart == ASSUME IInv PROVE Start(K)
<1>1. K \in KStates
  BY TypeParts DEF IInv, KType
<1>2. Balanced(K, 1)
  <2> DEFINE l == Len(free_stacks)
  <2>1. l \in Nat /\ free_qnodes = N_QNODES - (N_PCBS - 1) - l
    BY DEF IInv, TypeOK, QnodesBalance
  <2> HIDE DEF l
  <2>2. free_qnodes = N_QNODES - N_PCBS + 1 - l
    BY <2>1, PoolAssumption
  <2> QED BY <2>2, KFields DEF Balanced, l
<1> QED
  BY <1>1, <1>2, KFields DEF IInv, QueueDiscipline, StackOwnership, Start, Sane

\* ... and all it has to restore.
LEMMA StartInv == Start(K) /\ OtherType => IInv
<1> SUFFICES ASSUME Start(K), OtherType PROVE IInv
  OBVIOUS
<1> DEFINE l == Len(free_stacks)
<1>1. K \in KStates /\ Balanced(K, 1)
  BY DEF Start, Sane
<1>2. l \in Nat /\ free_qnodes = N_QNODES - N_PCBS + 1 - l
  BY <1>1, KFields DEF Balanced, KStates
<1> HIDE DEF l
<1>3. free_qnodes <= N_QNODES /\ free_qnodes = N_QNODES - (N_PCBS - 1) - l
  BY <1>2, PoolAssumption
<1>4. TypeOK /\ QueuesNeverFail
  BY <1>1, <1>3, TypeParts DEF KType
<1> QED
  BY <1>3, <1>4, KFields
     DEF Start, Sane, IInv, QueueDiscipline, StackOwnership, QnodesBalance, l

\* _init establishes the invariant.
LEMMA InitOK == Init => IInv
<1> SUFFICES ASSUME Init PROVE IInv
  OBVIOUS
<1> DEFINE f == [i \in 1 .. N_PCBS - 1 |-> i]
           g == [i \in 1 .. N_STACKS - 1 |-> i]
           m == N_PCBS - 1
           k == N_STACKS - 1
<1>1. m \in Nat /\ k \in Nat /\ 0 \in Pcbs /\ 0 \in Stacks
  BY PoolAssumption DEF Pcbs, Stacks
<1>2. /\ f \in Seq(Pcbs) /\ IsInjective(f) /\ Range(f) = Pcbs \ {0}
  <2>1. Pcbs = 0 .. m /\ f = [i \in 1 .. m |-> i]
    BY DEF Pcbs
  <2> HIDE DEF m, f
  <2> QED BY <1>1, <2>1 DEF IsInjective, Range
<1>3. /\ g \in Seq(Stacks) /\ IsInjective(g) /\ Range(g) = Stacks \ {0}
      /\ Len(g) = k
  <2>1. Stacks = 0 .. k /\ g = [i \in 1 .. k |-> i]
    BY DEF Stacks
  <2> HIDE DEF k, g
  <2> QED BY <1>1, <2>1 DEF IsInjective, Range
<1>4. <<>> \in Seq(Pcbs) /\ IsInjective(<<>>) /\ Range(<<>>) = {}
  BY DEF IsInjective, Range
<1> HIDE DEF f, g
<1>5. InitPcb \in PcbRecords /\ FreePcb \in PcbRecords
  <2>1. 0 \in Stacks /\ NO_PID \in Int /\ PID_INIT \in Int /\ P_SYSTEM \in Int
    BY <1>1 DEF NO_PID, PID_INIT, P_SYSTEM
  <2> QED
    BY <2>1 DEF InitPcb, FreePcb, PcbRecords, States, Programs
<1>6. /\ pcbs \in [Pcbs -> PcbRecords] /\ pcbs[0] = InitPcb
      /\ \A p \in Pcbs \ {0} : pcbs[p] = FreePcb
  BY <1>1, <1>5 DEF Init
<1>7. /\ queues \in [QNames -> Seq(Pcbs)] /\ queues["free"] = f
      /\ \A n \in QNames \ {"free"} : queues[n] = <<>>
  BY <1>2, <1>4 DEF Init, QNames, f
<1>8. /\ free_stacks = g /\ free_qnodes = N_QNODES - m - k /\ current = 0
      /\ q_ticks = QUANT_STD /\ panic = "none"
  BY DEF Init, g
<1>9. free_qnodes \in Nat
  BY <1>1, <1>8, PoolAssumption
<1>10. K \in KStates
  BY <1>1, <1>3, <1>6, <1>7, <1>8, <1>9, NumberAssumption DEF K, KStates, PanicNames, Panics, QueuePanics
<1>11. Loose(K, {0})
  <2>1. \A p \in Pcbs \ {0} : K.pcbs[p].state = "FREE"
    BY <1>6, KFields DEF FreePcb
  <2>2. \A p \in Pcbs \ {0} : Home(K.pcbs[p]) = "free"
    BY <2>1 DEF Home
  <2> QED
    BY <1>2, <1>4, <1>7, <2>1, <2>2, KFields DEF Loose
<1>12. Owned(K)
  <2>1. InUse(K) = {0} /\ K.pcbs[0].stack = 0
    BY <1>1, <1>6, KFields DEF InUse, InitPcb, FreePcb
  <2> QED
    BY <1>1, <1>3, <1>8, <2>1, KFields DEF Owned
<1>13. Balanced(K, 1)
  <2>1. N_QNODES - m - k = N_QNODES - N_PCBS + 1 - k
    BY PoolAssumption
  <2> QED
    BY <1>3, <1>8, <2>1, KFields DEF Balanced
<1>14. Start(K)
  BY <1>6, <1>8, <1>10, <1>11, <1>12, <1>13, KFields DEF Start, Sane, InitPcb
<1>15. OtherType
  BY NumberAssumption DEF Init, OtherType
<1> QED
  BY <1>14, <1>15, StartInv

\* A handler whose result is proper restores the invariant, panic or not.
LEMMA ReturnOK ==
  ASSUME IInv, NEW t, Done(t), Return(t), OtherType'
  PROVE  IInv'
<1>1. CASE t.panic = "none"
  <2>1. t \in KStates /\ Start(t)
    BY <1>1 DEF Done, Sane, Start
  <2>2. /\ panic' = t.panic /\ pcbs' = t.pcbs /\ queues' = t.queues
        /\ free_stacks' = t.stacks /\ free_qnodes' = t.qnodes
        /\ current' = t.current /\ q_ticks' = t.ticks
    BY <1>1 DEF Return
  <2>3. K' = t
    BY <2>1, <2>2 DEF K, KStates
  <2>4. Start(K)'
    BY <2>1, <2>3
  <2>5. (Start(K) /\ OtherType => IInv)'
    BY StartInv, PTL
  <2> QED BY <2>4, <2>5
<1>2. CASE t.panic # "none"
  <2>1. /\ panic' \in PanicNames
        /\ UNCHANGED <<pcbs, queues, free_stacks, free_qnodes, current, q_ticks>>
    BY <1>2 DEF Return, Done
  <2>2. TypeOK' /\ QueuesNeverFail'
    BY <2>1 DEF IInv, TypeOK, QueuesNeverFail, OtherType, PanicNames
  <2>3. QueueDiscipline'
    BY <2>1 DEF IInv, QueueDiscipline, Loose, K
  <2>4. StackOwnership'
    BY <2>1 DEF IInv, StackOwnership, Owned, InUse, K
  <2>5. QnodesBalance'
    BY <2>1 DEF IInv, QnodesBalance
  <2> QED
    BY <2>2, <2>3, <2>4, <2>5 DEF IInv
<1> QED
  BY <1>1, <1>2

\* Handlers other than the clock keep now and isr; fork moves next_pid.
LEMMA NowStays ==
  ASSUME IInv, UNCHANGED <<now, isr>>,
         next_pid' = next_pid \/ (next_pid < PID_LIMIT /\ next_pid' = next_pid + 1)
  PROVE  OtherType'
<1>1. OtherType /\ next_pid \in Int
  BY TypeParts, NumberAssumption DEF IInv, OtherType
<1>2. next_pid' \in PID_FIRST_USER .. PID_LIMIT
  BY <1>1, NumberAssumption DEF OtherType
<1> QED BY <1>1, <1>2 DEF OtherType

(***************************************************************************)
(* Every handler preserves the invariant.                                  *)
(***************************************************************************)
LEMMA StepOK == IInv /\ [Next]_vars => IInv'
<1> SUFFICES ASSUME IInv, [Next]_vars PROVE IInv'
  OBVIOUS
<1>1. /\ Start(K) /\ K.current = current /\ current \in Pcbs /\ K \in KStates
      /\ Sane(K, {current}, 1) /\ K.pcbs[current].state = "RUNNING"
      /\ K.pcbs[current] \in PcbRecords
  BY InvStart, StartType, KFields DEF Start
<1>2. K.queues = queues /\ K.pcbs = pcbs /\ K.stacks = free_stacks
  BY KFields
<1>3. /\ now \in 0 .. TIME_MOD - 1 /\ next_pid \in Int
      /\ next_pid \in PID_FIRST_USER .. PID_LIMIT
      /\ q_ticks \in 1 .. QUANT_STD /\ isr \in {"none", "clock"}
  BY NumberAssumption DEF IInv, TypeOK
<1>4. CASE sys_exit
  <2>1. Done(dispatch(zombify(InState(K, current, "ZOMBIE"), current)))
    BY <1>1, DieOK
  <2> QED
    BY <1>4, <2>1, NowStays, ReturnOK DEF sys_exit, InState
<1>5. CASE page_fault_isr
  <2>1. Done(dispatch(zombify(InState(K, current, "KILLED"), current)))
    BY <1>1, DieOK
  <2> QED
    BY <1>5, <2>1, NowStays, ReturnOK DEF page_fault_isr, InState
<1>6. CASE sys_read_block
  <2> DEFINE t == InState(K, current, "BLOCKED")
             u == q_enque(t, "reading", current)
  <2>1. /\ Sane(t, {current}, 1) /\ SameBut(K, t, current)
        /\ t.pcbs[current].state = "BLOCKED"
    BY <1>1, ChangeState DEF States
  <2>2. /\ "reading" \in QNames /\ Placeable(t, current)
        /\ Home(t.pcbs[current]) = "reading"
    <3> HIDE DEF t
    <3> QED BY <2>1 DEF QNames, Placeable, Home
  <2>3. Done(dispatch(u))
    <3> HIDE DEF t
    <3> QED BY <1>1, <2>1, <2>2, BlockOK
  <2>4. K.qnodes # 0
    BY <1>6, KFields DEF sys_read_block, IInv, TypeOK
  <2>5. u = [q_enque(K, "reading", current) EXCEPT !.pcbs[current].state = "BLOCKED"]
    BY <1>1, <2>4 DEF q_enque, InState, KStates
  <2> HIDE DEF u
  <2> QED
    BY <1>6, <2>3, <2>5, NowStays, ReturnOK DEF sys_read_block
<1>7. ASSUME NEW msec \in SleepArgs, sys_sleep(msec) PROVE IInv'
  <2>1. CASE msec = 0
    <3>1. Done(dispatch(schedule(K, current)))
      BY <1>1, YieldOK
    <3> QED
      BY <1>7, <2>1, <3>1, NowStays, ReturnOK DEF sys_sleep
  <2>2. CASE msec # 0
    <3> DEFINE i == (now + msec) % TIME_MOD
               c == [K.pcbs[current] EXCEPT !.wakeup = i, !.state = "SLEEPING"]
               t == WithPcb(K, current, c)
               u == [K EXCEPT !.pcbs[current].wakeup = i,
                              !.pcbs[current].state = "SLEEPING"]
    <3>1. i \in Nat
      BY <1>3, NumberAssumption, ArgAssumption
    <3> HIDE DEF i
    <3>2. /\ c \in PcbRecords /\ c.stack = K.pcbs[current].stack
          /\ c.state = "SLEEPING"
      BY <1>1, <3>1 DEF PcbRecords, States
    <3>3. t = u
      BY <1>1 DEF WithPcb, KStates, PcbRecords
    <3> HIDE DEF c, u
    <3>4. Sane(t, {current}, 1) /\ t.pcbs[current] = c
      BY <1>1, <3>2, Change, SetPcb
    <3> HIDE DEF t
    <3>5. /\ "sleeping" \in QNames /\ Placeable(t, current)
          /\ Home(t.pcbs[current]) = "sleeping"
      BY <3>2, <3>4 DEF QNames, Placeable, Home
    <3>6. Done(dispatch(enque_or_panic(u, "sleeping", current, "_sys_sleep")))
      BY <1>1, <3>3, <3>4, <3>5, BlockOK
    <3>7. Return(dispatch(enque_or_panic(u, "sleeping", current, "_sys_sleep")))
      BY <1>7, <2>2 DEF sys_sleep, u, i
    <3> QED
      BY <1>7, <3>6, <3>7, NowStays, ReturnOK DEF sys_sleep
  <2> QED BY <2>1, <2>2
<1>8. ASSUME NEW pid \in KillArgs, sys_kill(pid) PROVE IInv'
  <2> DEFINE found == HavingPid(K, pid)
             victim == First(found)
  <2>1. Return(IF found = {} THEN K ELSE kill_victim(K, victim))
    BY <1>8 DEF sys_kill
  <2>2. CASE found = {}
    BY <1>1, <1>8, <2>1, <2>2, StartType, NowStays, ReturnOK DEF sys_kill
  <2>3. CASE found # {}
    <3>1. found \subseteq Nat /\ found \subseteq Pcbs
      BY DEF HavingPid, Pcbs
    <3> HIDE DEF found
    <3>2. victim \in Pcbs
      BY <2>3, <3>1, FirstIn
    <3>3. Done(kill_victim(K, victim))
      BY <1>1, <3>2, KillOK
    <3> QED
      BY <1>8, <2>1, <2>3, <3>3, NowStays, ReturnOK DEF sys_kill
  <2> QED BY <2>2, <2>3
<1>9. CASE sys_wait
  <2> DEFINE zombies == zombies_of(K, current)
             child == First(zombies)
  <2>1. Return(IF pcbs[current].children = 0 THEN K
               ELSE IF zombies # {} THEN wait_reap(K, current, child)
               ELSE wait_block(K, current))
    BY <1>9 DEF sys_wait
  <2>2. CASE pcbs[current].children = 0
    BY <1>1, <1>9, <2>1, <2>2, StartType, NowStays, ReturnOK DEF sys_wait
  <2>3. CASE pcbs[current].children # 0 /\ zombies # {}
    <3>1. /\ zombies \subseteq Nat /\ zombies \subseteq Pcbs
          /\ \A c \in zombies : K.pcbs[c].state = "ZOMBIE"
      BY DEF zombies_of, ChildrenOf, Pcbs
    <3> HIDE DEF zombies
    <3>2. child \in Pcbs /\ K.pcbs[child].state = "ZOMBIE"
      BY <2>3, <3>1, FirstIn
    <3> HIDE DEF child
    <3>3. Done(wait_reap(K, current, child))
      BY <1>1, <1>2, <2>3, <3>2, ReapOK
    <3> QED
      BY <1>9, <2>1, <2>3, <3>3, NowStays, ReturnOK DEF sys_wait
  <2>4. CASE pcbs[current].children # 0 /\ zombies = {}
    <3> DEFINE t == InState(K, current, "WAITING")
    <3>1. Sane(t, {current}, 1) /\ t.pcbs[current].state = "WAITING"
      BY <1>1, ChangeState DEF States
    <3> HIDE DEF t
    <3>2. /\ "waiting" \in QNames /\ Placeable(t, current)
          /\ Home(t.pcbs[current]) = "waiting"
      BY <3>1 DEF QNames, Placeable, Home
    <3>3. Done(dispatch(enque_or_panic(t, "waiting", current, "_sys_wait")))
      BY <1>1, <3>1, <3>2, BlockOK
    <3>4. Done(wait_block(K, current))
      BY <3>3 DEF wait_block, t, InState
    <3> QED
      BY <1>9, <2>1, <2>4, <3>4, NowStays, ReturnOK DEF sys_wait
  <2> QED BY <2>2, <2>3, <2>4
<1>10. CASE sys_fork
  <2>1. CASE next_pid >= PID_LIMIT \/ queues["free"] = <<>>
    BY <1>1, <1>10, <2>1, StartType, NowStays, ReturnOK DEF sys_fork
  <2>2. CASE ~(next_pid >= PID_LIMIT \/ queues["free"] = <<>>) /\ free_stacks = <<>>
    <3>1. Done(pcb_dealloc(pcb_alloc(K), Head(queues["free"])))
      BY <1>1, <1>2, <2>2, NoStackOK
    <3> QED
      BY <1>10, <2>2, <3>1, NowStays, ReturnOK DEF sys_fork
  <2>3. CASE ~(next_pid >= PID_LIMIT \/ queues["free"] = <<>>) /\ free_stacks # <<>>
    <3>1. next_pid \in Nat /\ next_pid < PID_LIMIT
      BY <1>3, <2>3, NumberAssumption
    <3>2. Done(fork_child(K, current))
      BY <1>1, <1>2, <2>3, <3>1, ForkOK
    <3> QED
      BY <1>10, <2>3, <3>1, <3>2, NowStays, ReturnOK DEF sys_fork
  <2> QED BY <2>1, <2>2, <2>3
<1>11. ASSUME NEW prio \in PrioArgs \cup {P_MIN}, sys_exec(prio) PROVE IInv'
  <2> DEFINE g == IF K.pcbs[current].prog = "user" THEN K.pcbs[current].prog
                  ELSE "idle"
             c == [K.pcbs[current] EXCEPT !.prio = prio, !.prog = g]
             t == WithPcb(K, current, c)
             u == [K EXCEPT !.pcbs[current].prio = prio,
                            !.pcbs[current].prog = g]
  <2>1. g \in Programs /\ prio \in Int
    BY <1>1, ArgAssumption DEF PcbRecords, Programs, P_MIN
  <2>2. Return(u)
    BY <1>11 DEF sys_exec
  <2> HIDE DEF g
  <2>3. /\ c \in PcbRecords /\ c.stack = K.pcbs[current].stack
        /\ c.state = "RUNNING"
    BY <1>1, <2>1 DEF PcbRecords
  <2>4. t = u
    BY <1>1 DEF WithPcb, KStates, PcbRecords
  <2> HIDE DEF c, u
  <2>5. Sane(t, {current}, 1) /\ t.pcbs[current] = c /\ SameBut(K, t, current)
    BY <1>1, <2>3, Change, SetPcb
  <2> HIDE DEF t
  <2>6. Done(t)
    BY <1>1, <2>3, <2>5 DEF Done, SameBut, SameCpu, KStates
  <2> QED
    BY <1>11, <2>2, <2>4, <2>6, NowStays, ReturnOK DEF sys_exec
<1>12. CASE sio_isr_reader
  <2>1. Done(schedule(q_deque(K, "reading"), Head(queues["reading"])))
    BY <1>1, <1>2, <1>12, WakeOK DEF sio_isr_reader
  <2> QED
    BY <1>12, <2>1, NowStays, ReturnOK DEF sio_isr_reader
<1>13. CASE clk_isr_tick
  <2>1. (now + 1) % TIME_MOD \in 0 .. TIME_MOD - 1
    BY <1>3, NumberAssumption
  <2>2. TypeOK' /\ QueuesNeverFail'
    BY <1>13, <2>1 DEF clk_isr_tick, IInv, TypeOK, QueuesNeverFail
  <2>3. /\ QueueDiscipline' /\ StackOwnership' /\ QnodesBalance'
    BY <1>13 DEF clk_isr_tick, IInv, QueueDiscipline, StackOwnership,
                 QnodesBalance, K, Loose, Owned, InUse
  <2> QED
    BY <2>2, <2>3 DEF IInv
<1>14. CASE clk_isr_wake
  <2>1. Done(schedule(q_deque(K, "sleeping"), Head(queues["sleeping"])))
    BY <1>1, <1>2, <1>14, WakeOK DEF clk_isr_wake, Overdue
  <2> QED
    BY <1>14, <2>1, NowStays, ReturnOK DEF clk_isr_wake
<1>15. CASE clk_isr_charge
  <2>1. OtherType'
    BY <1>3, <1>15 DEF clk_isr_charge, OtherType
  <2>2. CASE q_ticks - 1 < 1
    <3>1. Done(dispatch(schedule(K, current)))
      BY <1>1, YieldOK
    <3> QED
      BY <1>15, <2>1, <2>2, <3>1, ReturnOK DEF clk_isr_charge
  <2>3. CASE ~(q_ticks - 1 < 1)
    <3> DEFINE i == K.ticks - 1
               t == [K EXCEPT !.ticks = i]
    <3>1. i \in 1 .. QUANT_STD
      BY <1>3, <2>3, KFields, NumberAssumption
    <3>2. Return(t)
      BY <1>15, <2>3 DEF clk_isr_charge
    <3> HIDE DEF i
    <3>3. /\ t \in KStates /\ SameQueues(K, t) /\ t.pcbs = K.pcbs
          /\ t.current = current
      BY <1>1, <3>1 DEF KStates, SameQueues
    <3> HIDE DEF t
    <3>4. Sane(t, {current}, 1)
      BY <1>1, <3>3, Frame
    <3>5. Done(t)
      BY <1>1, <3>3, <3>4 DEF Done, KStates
    <3> QED
      BY <2>1, <3>2, <3>5, ReturnOK
  <2> QED BY <2>2, <2>3
<1>16. CASE UNCHANGED vars
  BY <1>16 DEF vars, IInv, TypeOK, QueuesNeverFail, QueueDiscipline, StackOwnership,
               QnodesBalance, K, Loose, Owned, InUse
<1>17. ASSUME NEW prio \in PrioArgs \cup {P_MIN}, sys_exec_no_page(prio) PROVE IInv'
  <2>1. Done(kpanic(K, "get_next_page"))
    BY <1>1, MemoryPanicDone DEF MemoryPanics
  <2> QED
    BY <1>17, <2>1, NowStays, ReturnOK DEF sys_exec_no_page
<1>18. CASE sys_mmap
  <2>1. Done(K) /\ Done(kpanic(K, "_k_mmap"))
    BY <1>1, StartType, MemoryPanicDone DEF MemoryPanics
  <2> QED
    BY <1>18, <2>1, NowStays, ReturnOK DEF sys_mmap
<1> QED
  BY <1>4, <1>5, <1>6, <1>7, <1>8, <1>9, <1>10, <1>11, <1>12, <1>13, <1>14,
     <1>15, <1>16, <1>17, <1>18 DEF Next, Halted

\* The inductive invariant holds throughout.
LEMMA Invariance == Spec => []IInv
<1>1. Init => IInv
  BY InitOK
<1>2. IInv /\ [Next]_vars => IInv'
  BY StepOK
<1> QED
  BY <1>1, <1>2, PTL DEF Spec

(***************************************************************************)
(* The kernel's globals keep their types.                                  *)
(***************************************************************************)
THEOREM TypeCorrect == Spec => []TypeOK
<1>1. IInv => TypeOK
  BY DEF IInv
<1> QED BY <1>1, Invariance, PTL

(***************************************************************************)
(* Between handlers the running process is on no queue and every other PCB *)
(* is on the queue its state names, once, however many PCBs there are.     *)
(***************************************************************************)
THEOREM QueuesHoldPcbs == Spec => []QueueDiscipline
<1>1. IInv => QueueDiscipline
  BY DEF IInv
<1> QED BY <1>1, Invariance, PTL

(***************************************************************************)
(* _stk_alloc and _stk_dealloc neither share nor lose a stack, over fork,  *)
(* exit, wait, kill and faults.                                            *)
(***************************************************************************)
THEOREM StacksOwnedOnce == Spec => []StackOwnership
<1>1. IInv => StackOwnership
  BY DEF IInv
<1> QED BY <1>1, Invariance, PTL

(***************************************************************************)
(* N_PCBS + N_STACKS qnodes are enough: the free list and the queues       *)
(* together always hold all of them ...                                    *)
(***************************************************************************)
THEOREM QnodesConserved == Spec => []QnodesBalance
<1>1. IInv => QnodesBalance
  BY DEF IInv
<1> QED BY <1>1, Invariance, PTL

(***************************************************************************)
(* ... and so no _q_enque fails for want of a qnode and no _q_remove fails *)
(* to find its PCB.                                                        *)
(***************************************************************************)
THEOREM QueueCallsSucceed == Spec => []QueuesNeverFail
<1>1. IInv => QueuesNeverFail
  BY DEF IInv
<1> QED BY <1>1, Invariance, PTL

-----------------------------------------------------------------------------
(***************************************************************************)
(* Part 2: PIDs, parents, children, wait() and exit().                     *)
(*                                                                         *)
(* Only the PCB table matters here.  A handler changes it by one of a few  *)
(* moves (Quiet, Waits, Orphans, Hands, Reaps, Forks); the first half      *)
(* shows that each move keeps the family invariant FInv of a table, the    *)
(* second that the handlers make only these moves.                         *)
(***************************************************************************)

Tables == [Pcbs -> PcbRecords]
Dead == {"KILLED", "ZOMBIE"}

\* states a process goes through without its family noticing
Awake == {"READY", "RUNNING", "SLEEPING", "BLOCKED"}

UsedIn(f) == {p \in Pcbs : f[p].state # "FREE"}
KidsIn(f, p) == {c \in UsedIn(f) \ {p} : f[c].ppid = f[p].pid}
Bearing(f, pid) == {c \in Pcbs : f[c].ppid = pid}

\* the PIDs given out when _next_pid is n
Given(n) == {PID_INIT} \cup {to_pid(m) : m \in PID_FIRST_USER .. n - 1}

(***************************************************************************)
(* The parts of the invariant.  InitFirst: init keeps the first PCB and is *)
(* its own parent.  Named and Distinct: PIDs.  Parented: every process has *)
(* a parent, alive or init, and only init is its own.  Counted: children.  *)
(* Heard: nobody but init waits over a zombie.                             *)
(***************************************************************************)
InitFirst(f) ==
  f[0].state # "FREE" /\ f[0].pid = PID_INIT /\ f[0].ppid = PID_INIT
Named(f, n) ==
  \A p \in Pcbs : IF f[p].state = "FREE"
                  THEN f[p].pid = NO_PID /\ f[p].ppid = NO_PID
                  ELSE f[p].pid \in Given(n)
Distinct(f) == \A p, r \in UsedIn(f) : f[p].pid = f[r].pid => p = r
Parented(f) ==
  \A p \in UsedIn(f) :
    /\ p # 0 => f[p].ppid # f[p].pid
    /\ \E r \in UsedIn(f) : f[r].pid = f[p].ppid /\ (f[r].state \in Dead => r = 0)
Counted(f) ==
  \A p \in UsedIn(f) : (p = 0 /\ f[p].state \in Dead)
                         \/ Cardinality(KidsIn(f, p)) <= f[p].children
Heard(f) ==
  \A p \in UsedIn(f) \ {0} : f[p].state = "WAITING"
                               => \A c \in KidsIn(f, p) : f[c].state # "ZOMBIE"

FInv(f, n) == /\ InitFirst(f) /\ Named(f, n) /\ Distinct(f) /\ Parented(f)
              /\ Counted(f) /\ Heard(f)

-----------------------------------------------------------------------------
(* Counting children *)

\* A set of PCBs is finite, and a part of it is not larger.
LEMMA CountPart ==
  ASSUME NEW S, NEW T, S \subseteq T, T \subseteq Pcbs
  PROVE  /\ IsFiniteSet(S) /\ IsFiniteSet(T)
         /\ Cardinality(S) \in Nat /\ Cardinality(T) \in Nat
         /\ Cardinality(S) <= Cardinality(T)
<1> DEFINE m == N_PCBS - 1
<1>1. 0 \in Int /\ m \in Int
  BY PoolAssumption
<1> HIDE DEF m
<1>2. IsFiniteSet(0 .. m)
  BY <1>1, FS_Interval
<1>3. IsFiniteSet(T)
  BY <1>2, FS_Subset DEF Pcbs, m
<1>4. IsFiniteSet(S) /\ Cardinality(S) <= Cardinality(T)
  BY <1>3, FS_Subset
<1> QED
  BY <1>3, <1>4, CountType

\* One more child is at most one more to count.
LEMMA CountAdd ==
  ASSUME NEW S, NEW T, NEW x \in Pcbs, S \subseteq T \cup {x}, T \subseteq Pcbs
  PROVE  Cardinality(S) <= Cardinality(T) + 1
<1>1. /\ IsFiniteSet(T) /\ Cardinality(T) \in Nat
  BY CountPart
<1>2. Cardinality(T \cup {x}) = IF x \in T THEN Cardinality(T) ELSE Cardinality(T) + 1
  BY <1>1, FS_AddElement
<1>3. Cardinality(S) <= Cardinality(T \cup {x})
      /\ Cardinality(S) \in Nat /\ Cardinality(T \cup {x}) \in Nat
  BY CountPart
<1> QED
  BY <1>1, <1>2, <1>3

\* A child taken away is one less.
LEMMA CountDrop ==
  ASSUME NEW S, NEW T, NEW x \in T, S \subseteq T \ {x}, T \subseteq Pcbs
  PROVE  Cardinality(S) <= Cardinality(T) - 1
<1>1. /\ IsFiniteSet(T) /\ Cardinality(T) \in Nat
  BY CountPart
<1>2. Cardinality(T \ {x}) = IF x \in T THEN Cardinality(T) - 1 ELSE Cardinality(T)
  BY <1>1, FS_RemoveElement
<1>3. Cardinality(S) <= Cardinality(T \ {x})
      /\ Cardinality(S) \in Nat /\ Cardinality(T \ {x}) \in Nat
  BY CountPart
<1> QED
  BY <1>1, <1>2, <1>3

\* Two families together are at most the sum.
LEMMA CountSum ==
  ASSUME NEW S, NEW T, NEW U, S \subseteq T \cup U, T \subseteq Pcbs, U \subseteq Pcbs
  PROVE  Cardinality(S) <= Cardinality(T) + Cardinality(U)
<1>1. /\ IsFiniteSet(T) /\ Cardinality(T) \in Nat
      /\ IsFiniteSet(U) /\ Cardinality(U) \in Nat
      /\ Cardinality(T \cap U) \in Nat
  BY CountPart
<1>2. Cardinality(T \cup U)
        = Cardinality(T) + Cardinality(U) - Cardinality(T \cap U)
  BY <1>1, FS_Union
<1>3. Cardinality(S) <= Cardinality(T \cup U)
      /\ Cardinality(S) \in Nat /\ Cardinality(T \cup U) \in Nat
  BY CountPart
<1> QED
  BY <1>1, <1>2, <1>3

\* The PIDs given out are not the mark of a free PCB, and the next is new.
LEMMA PidsFresh ==
  ASSUME NEW n \in PID_FIRST_USER .. PID_LIMIT
  PROVE  /\ NO_PID \notin Given(n)
         /\ n < PID_LIMIT => /\ to_pid(n) \notin Given(n)
                             /\ to_pid(n) # NO_PID
                             /\ Given(n + 1) = Given(n) \cup {to_pid(n)}
<1>1. \A m \in PID_FIRST_USER .. n - 1 : to_pid(m) \notin {NO_PID, PID_INIT}
  BY NumberAssumption DEF to_pid, NO_PID, PID_INIT
<1>2. n < PID_LIMIT => /\ to_pid(n) \notin {NO_PID, PID_INIT}
                       /\ \A m \in PID_FIRST_USER .. n - 1 : to_pid(m) # to_pid(n)
  BY NumberAssumption DEF to_pid, NO_PID, PID_INIT
<1>3. PID_FIRST_USER .. (n + 1) - 1 = (PID_FIRST_USER .. n - 1) \cup {n}
  BY NumberAssumption
<1>4. NO_PID # PID_INIT
  BY DEF NO_PID, PID_INIT
<1> QED
  BY <1>1, <1>2, <1>3, <1>4 DEF Given

-----------------------------------------------------------------------------
(* Moves that change no PID and no parent *)

SameFamily(c, d) == d.pid = c.pid /\ d.ppid = c.ppid /\ d.children = c.children

Quiet(f, g) ==
  \A r \in Pcbs : /\ SameFamily(f[r], g[r])
                  /\ g[r].state = f[r].state
                       \/ (f[r].state \in Awake /\ g[r].state \in Awake)

\* Quiet moves compose.
LEMMA QuietTwice ==
  ASSUME NEW f, NEW g, NEW h, Quiet(f, g), Quiet(g, h)
  PROVE  Quiet(f, h)
BY DEF Quiet, SameFamily

\* Scheduling, sleeping, blocking on input: the family is the same.
LEMMA QuietFam ==
  ASSUME NEW f, NEW g, NEW n, FInv(f, n), Quiet(f, g)
  PROVE  FInv(g, n)
<1>1. /\ \A r \in Pcbs : g[r].state = "FREE" <=> f[r].state = "FREE"
      /\ \A r \in Pcbs : g[r].state \in Dead <=> f[r].state \in Dead
      /\ \A r \in Pcbs : g[r].state = "WAITING" => f[r].state = "WAITING"
      /\ \A r \in Pcbs : g[r].state = "ZOMBIE" => f[r].state = "ZOMBIE"
      /\ \A r \in Pcbs : SameFamily(f[r], g[r])
  BY DEF Quiet, Awake, Dead
<1>2. UsedIn(g) = UsedIn(f) /\ UsedIn(f) \subseteq Pcbs
  BY <1>1 DEF UsedIn
<1>3. \A p \in Pcbs : KidsIn(g, p) = KidsIn(f, p) /\ KidsIn(f, p) \subseteq Pcbs
  BY <1>1, <1>2 DEF KidsIn, SameFamily
<1>4. 0 \in Pcbs
  BY PoolAssumption DEF Pcbs
<1>5. InitFirst(g)
  BY <1>1, <1>4 DEF FInv, InitFirst, SameFamily
<1>6. Named(g, n) /\ Distinct(g)
  BY <1>1, <1>2 DEF FInv, Named, Distinct, SameFamily
<1>7. Parented(g)
  BY <1>1, <1>2 DEF FInv, Parented, SameFamily
<1>8. Counted(g)
  BY <1>1, <1>2, <1>3 DEF FInv, Counted, SameFamily
<1>9. Heard(g)
  BY <1>1, <1>2, <1>3 DEF FInv, Heard
<1> QED
  BY <1>5, <1>6, <1>7, <1>8, <1>9 DEF FInv

\* p blocks in wait(), having seen no zombie child
Waits(f, g, p) ==
  /\ \A r \in Pcbs : SameFamily(f[r], g[r])
  /\ \A r \in Pcbs \ {p} : g[r].state = f[r].state
  /\ f[p].state \in Awake /\ g[p].state = "WAITING"
  /\ \A c \in KidsIn(f, p) : f[c].state # "ZOMBIE"

\* Blocking in wait() after a look at the children keeps the invariant.
LEMMA WaitsFam ==
  ASSUME NEW f, NEW g, NEW n, NEW p \in Pcbs, FInv(f, n), Waits(f, g, p)
  PROVE  FInv(g, n)
<1>1. /\ \A r \in Pcbs : g[r].state = "FREE" <=> f[r].state = "FREE"
      /\ \A r \in Pcbs : g[r].state \in Dead <=> f[r].state \in Dead
      /\ \A r \in Pcbs \ {p} : g[r].state = "WAITING" => f[r].state = "WAITING"
      /\ \A r \in Pcbs : g[r].state = "ZOMBIE" => f[r].state = "ZOMBIE"
      /\ \A r \in Pcbs : SameFamily(f[r], g[r])
  BY DEF Waits, Awake, Dead
<1>2. UsedIn(g) = UsedIn(f) /\ UsedIn(f) \subseteq Pcbs
  BY <1>1 DEF UsedIn
<1>3. \A q \in Pcbs : KidsIn(g, q) = KidsIn(f, q) /\ KidsIn(f, q) \subseteq Pcbs
  BY <1>1, <1>2 DEF KidsIn, SameFamily
<1>4. 0 \in Pcbs
  BY PoolAssumption DEF Pcbs
<1>5. InitFirst(g)
  BY <1>1, <1>4 DEF FInv, InitFirst, SameFamily
<1>6. Named(g, n) /\ Distinct(g)
  BY <1>1, <1>2 DEF FInv, Named, Distinct, SameFamily
<1>7. Parented(g)
  BY <1>1, <1>2 DEF FInv, Parented, SameFamily
<1>8. Counted(g)
  BY <1>1, <1>2, <1>3 DEF FInv, Counted, SameFamily
<1>9. Heard(g)
  <2>1. \A c \in KidsIn(f, p) : f[c].state # "ZOMBIE"
    BY DEF Waits
  <2> QED
    BY <1>1, <1>2, <1>3, <2>1 DEF FInv, Heard
<1> QED
  BY <1>5, <1>6, <1>7, <1>8, <1>9 DEF FInv

-----------------------------------------------------------------------------
(* Death *)

\* p dies with state st and its children go to init, as reparent does it
Orphans(f, h, p, st) ==
  /\ f[p].state \notin Dead \cup {"FREE"} /\ st \in Dead
  /\ \A r \in Pcbs :
       /\ h[r].pid = f[r].pid
       /\ h[r].state = IF r = p THEN st ELSE f[r].state
       /\ h[r].ppid = IF f[p].children > 0 /\ f[r].ppid = f[p].pid
                      THEN PID_INIT ELSE f[r].ppid
       /\ h[r].children = IF ~(f[p].children > 0) THEN f[r].children
                          ELSE IF r = p THEN 0
                          ELSE IF r = 0
                          THEN f[r].children + Cardinality(Bearing(f, f[p].pid))
                          ELSE f[r].children

(***************************************************************************)
(* The family after a death, before the parent has heard of it.  A count   *)
(* of zero is trusted: by Counted there is nobody to hand over then.       *)
(***************************************************************************)
LEMMA OrphansFam ==
  ASSUME NEW f \in Tables, NEW h \in Tables, NEW n \in PID_FIRST_USER .. PID_LIMIT,
         NEW p \in Pcbs, NEW st, FInv(f, n), Orphans(f, h, p, st)
  PROVE  /\ InitFirst(h) /\ Named(h, n) /\ Distinct(h) /\ Parented(h) /\ Counted(h)
         /\ \A q \in UsedIn(h) \ {0} : h[q].state = "WAITING" =>
              \A c \in KidsIn(h, q) \ {p} : h[c].state # "ZOMBIE"
         /\ p = 0 \/ KidsIn(h, p) = {}
<1> DEFINE pid == f[p].pid
           kids == Bearing(f, pid)
<1>1. UsedIn(h) = UsedIn(f) /\ UsedIn(f) \subseteq Pcbs /\ p \in UsedIn(f)
  BY DEF UsedIn, Orphans, Dead
<1>2. 0 \in Pcbs /\ 0 \in UsedIn(f)
  BY PoolAssumption DEF Pcbs, FInv, InitFirst, UsedIn
<1>3. p # 0 => pid # PID_INIT
  BY <1>1, <1>2 DEF FInv, InitFirst, Distinct
<1>4. pid # PID_INIT => \A r \in UsedIn(h) \ {0} : h[r].ppid # pid
  <2>1. SUFFICES ASSUME pid # PID_INIT, NEW r \in UsedIn(h) \ {0}, h[r].ppid = pid
                 PROVE  FALSE
    OBVIOUS
  <2>2. r \in UsedIn(f) /\ f[r].ppid = pid /\ ~(f[p].children > 0)
    BY <1>1, <2>1 DEF Orphans
  <2>3. r # p
    BY <2>2, <1>1 DEF FInv, Parented
  <2>4. r \in KidsIn(f, p)
    BY <2>2, <2>3 DEF KidsIn
  <2>5. p # 0
    BY <1>2, <2>1 DEF FInv, InitFirst
  <2>6. Cardinality(KidsIn(f, p)) <= f[p].children
    BY <1>1, <2>5 DEF FInv, Counted
  <2>7. IsFiniteSet(KidsIn(f, p)) /\ Cardinality(KidsIn(f, p)) \in Nat
    BY <1>1, CountPart DEF KidsIn
  <2>8. f[p].children \in Nat
    BY DEF Tables, PcbRecords
  <2>9. Cardinality(KidsIn(f, p)) = 0
    BY <2>2, <2>6, <2>7, <2>8
  <2> QED
    BY <2>4, <2>7, <2>9, FS_EmptySet
<1>5. InitFirst(h)
  BY <1>2 DEF FInv, InitFirst, Orphans, Dead
<1>6. Named(h, n)
  <2>1. pid # NO_PID
    BY <1>1, PidsFresh DEF FInv, Named, UsedIn
  <2>2. ASSUME NEW r \in Pcbs, h[r].state = "FREE"
        PROVE  h[r].pid = NO_PID /\ h[r].ppid = NO_PID
    <3>1. r # p /\ f[r].state = "FREE"
      BY <2>2 DEF Orphans, Dead
    <3>2. f[r].pid = NO_PID /\ f[r].ppid = NO_PID
      BY <3>1 DEF FInv, Named
    <3> QED BY <2>1, <3>1, <3>2 DEF Orphans
  <2>3. ASSUME NEW r \in Pcbs, h[r].state # "FREE"
        PROVE  h[r].pid \in Given(n)
    <3>1. r \in UsedIn(f)
      BY <1>1, <2>3 DEF UsedIn
    <3> QED BY <3>1 DEF FInv, Named, Orphans, UsedIn
  <2> QED BY <2>2, <2>3 DEF Named
<1>7. Distinct(h)
  BY <1>1 DEF FInv, Distinct, Orphans
<1>8. \A r \in UsedIn(f) \ {0} : f[r].pid # PID_INIT
  BY <1>2 DEF FInv, InitFirst, Distinct
<1>9. Parented(h)
  <2>1. SUFFICES ASSUME NEW q \in UsedIn(h)
                 PROVE  /\ q # 0 => h[q].ppid # h[q].pid
                        /\ \E r \in UsedIn(h) :
                             h[r].pid = h[q].ppid /\ (h[r].state \in Dead => r = 0)
    BY DEF Parented
  <2>2. q \in UsedIn(f) /\ q \in Pcbs
    BY <1>1
  <2>3. q # 0 => h[q].ppid # h[q].pid
    BY <1>8, <2>2 DEF Orphans, FInv, Parented
  <2>4. CASE h[q].ppid = PID_INIT
    BY <1>1, <1>2, <1>5, <2>3, <2>4 DEF InitFirst
  <2>5. CASE h[q].ppid # PID_INIT
    <3>1. h[q].ppid = f[q].ppid
      BY <2>2, <2>5 DEF Orphans
    <3>2. PICK r \in UsedIn(f) : f[r].pid = f[q].ppid /\ (f[r].state \in Dead => r = 0)
      BY <2>2 DEF FInv, Parented
    <3>3. CASE r # p
      BY <1>1, <2>3, <3>1, <3>2, <3>3 DEF Orphans
    <3>4. CASE r = p
      <4>1. h[q].ppid = pid
        BY <3>1, <3>2, <3>4
      <4>2. q = 0
        BY <1>4, <2>1, <2>5, <4>1
      <4> QED
        BY <1>5, <2>5, <4>2 DEF InitFirst
    <3> QED BY <3>3, <3>4
  <2> QED BY <2>4, <2>5
<1>10. p = 0 \/ KidsIn(h, p) = {}
  <2>1. h[p].pid = pid /\ h[0].ppid = PID_INIT
    BY <1>5 DEF Orphans, InitFirst
  <2> QED
    BY <1>3, <1>4, <2>1 DEF KidsIn
<1>11. \A q \in UsedIn(h) \ {0} : KidsIn(h, q) \subseteq KidsIn(f, q)
  <2>1. SUFFICES ASSUME NEW q \in UsedIn(h) \ {0}, NEW c \in KidsIn(h, q)
                 PROVE  c \in KidsIn(f, q)
    OBVIOUS
  <2>2. c \in UsedIn(h) /\ c # q /\ h[c].ppid = h[q].pid /\ c \in Pcbs /\ q \in Pcbs
    BY <1>1, <2>1 DEF KidsIn
  <2>3. h[q].pid = f[q].pid /\ h[q].pid # PID_INIT
    BY <1>1, <1>8, <2>1, <2>2 DEF Orphans
  <2>4. h[c].ppid = f[c].ppid
    BY <2>2, <2>3 DEF Orphans
  <2> QED
    BY <1>1, <2>2, <2>3, <2>4 DEF KidsIn
<1>12. Counted(h)
  <2>1. SUFFICES ASSUME NEW q \in UsedIn(h), ~(q = 0 /\ h[q].state \in Dead)
                 PROVE  Cardinality(KidsIn(h, q)) <= h[q].children
    BY DEF Counted
  <2>2. q \in Pcbs /\ f[q].children \in Nat /\ h[q].children \in Nat
        /\ f[0].children \in Nat
    BY <1>1, <1>2 DEF Tables, PcbRecords
  <2>3. CASE q = 0
    <3>1. q # p /\ f[q].state \notin Dead
      BY <2>1, <2>2, <2>3 DEF Orphans
    <3>2. Cardinality(KidsIn(f, q)) <= f[q].children
      BY <1>2, <2>3, <3>1 DEF FInv, Counted
    <3>3. KidsIn(f, q) \subseteq Pcbs /\ kids \subseteq Pcbs
      BY <1>1 DEF KidsIn, Bearing
    <3>4. h[q].pid = f[q].pid
      BY <2>2 DEF Orphans
    <3>5. CASE f[p].children > 0
      <4>1. KidsIn(h, q) \subseteq KidsIn(f, q) \cup kids
        BY <1>1, <3>4 DEF KidsIn, Bearing, Orphans
      <4>2. Cardinality(KidsIn(h, q)) <= Cardinality(KidsIn(f, q)) + Cardinality(kids)
        <5> HIDE DEF kids
        <5> QED BY <3>3, <4>1, CountSum
      <4>3. h[q].children = f[q].children + Cardinality(kids)
        BY <2>2, <2>3, <3>1, <3>5 DEF Orphans
      <4>4. /\ Cardinality(KidsIn(h, q)) \in Nat /\ Cardinality(KidsIn(f, q)) \in Nat
            /\ Cardinality(kids) \in Nat
        <5>1. KidsIn(h, q) \subseteq Pcbs
          BY <1>1 DEF KidsIn
        <5> HIDE DEF kids
        <5> QED BY <3>3, <5>1, CountType
      <4> HIDE DEF kids
      <4> QED
        BY <2>2, <3>2, <4>2, <4>3, <4>4
    <3>6. CASE ~(f[p].children > 0)
      <4>1. KidsIn(h, q) = KidsIn(f, q)
        BY <1>1, <3>4, <3>6 DEF KidsIn, Orphans
      <4>2. h[q].children = f[q].children
        BY <2>2, <3>6 DEF Orphans
      <4> QED BY <3>2, <4>1, <4>2
    <3> QED BY <3>5, <3>6
  <2>4. CASE q # 0 /\ q = p
    <3>1. KidsIn(h, q) = {}
      BY <1>10, <2>4
    <3> QED BY <2>2, <3>1, FS_EmptySet
  <2>5. CASE q # 0 /\ q # p
    <3>1. Cardinality(KidsIn(f, q)) <= f[q].children
      BY <1>1, <2>5 DEF FInv, Counted
    <3>2. h[q].children = f[q].children
      BY <2>2, <2>5 DEF Orphans
    <3>3. /\ Cardinality(KidsIn(h, q)) <= Cardinality(KidsIn(f, q))
          /\ Cardinality(KidsIn(h, q)) \in Nat /\ Cardinality(KidsIn(f, q)) \in Nat
      <4>1. KidsIn(h, q) \subseteq KidsIn(f, q) /\ KidsIn(f, q) \subseteq Pcbs
        BY <1>1, <1>11, <2>5 DEF KidsIn
      <4> QED BY <4>1, CountPart
    <3> QED BY <2>2, <3>1, <3>2, <3>3
  <2> QED BY <2>3, <2>4, <2>5
<1>13. ASSUME NEW q \in UsedIn(h) \ {0}, h[q].state = "WAITING",
              NEW c \in KidsIn(h, q) \ {p}
       PROVE  h[c].state # "ZOMBIE"
  <2>1. q # p /\ f[q].state = "WAITING" /\ q \in UsedIn(f)
    BY <1>1, <1>13 DEF Orphans, Dead
  <2>2. c \in KidsIn(f, q) /\ c \in Pcbs
    BY <1>1, <1>11, <1>13 DEF KidsIn
  <2>3. f[c].state # "ZOMBIE"
    BY <2>1, <2>2, <1>13 DEF FInv, Heard
  <2> QED
    BY <2>2, <2>3, <1>13 DEF Orphans
<1> QED
  BY <1>5, <1>6, <1>7, <1>9, <1>10, <1>12, <1>13

\* A death the parent does not wait for keeps the invariant.
LEMMA UnheardFam ==
  ASSUME NEW f \in Tables, NEW h \in Tables, NEW n \in PID_FIRST_USER .. PID_LIMIT,
         NEW p \in Pcbs, NEW st, FInv(f, n), Orphans(f, h, p, st),
         \A q \in UsedIn(h) : h[q].pid = h[p].ppid => h[q].state # "WAITING"
  PROVE  FInv(h, n)
<1>1. /\ InitFirst(h) /\ Named(h, n) /\ Distinct(h) /\ Parented(h) /\ Counted(h)
      /\ \A q \in UsedIn(h) \ {0} : h[q].state = "WAITING" =>
           \A c \in KidsIn(h, q) \ {p} : h[c].state # "ZOMBIE"
  BY OrphansFam
<1>2. \A q \in UsedIn(h) : p \in KidsIn(h, q) => h[q].state # "WAITING"
  BY DEF KidsIn
<1>3. Heard(h)
  BY <1>1, <1>2 DEF Heard
<1> QED
  BY <1>1, <1>3 DEF FInv

\* Nobody names a dead process as parent, unless it is init.
LEMMA DeadChildless ==
  ASSUME NEW f, Distinct(f), Parented(f), NEW p \in UsedIn(f), p # 0,
         f[p].state \in Dead
  PROVE  \A c \in UsedIn(f) : f[c].ppid # f[p].pid
<1>1. SUFFICES ASSUME NEW c \in UsedIn(f), f[c].ppid = f[p].pid PROVE FALSE
  OBVIOUS
<1>2. PICK r \in UsedIn(f) : f[r].pid = f[c].ppid /\ (f[r].state \in Dead => r = 0)
  BY DEF Parented
<1>3. r = p
  BY <1>1, <1>2 DEF Distinct
<1> QED BY <1>2, <1>3

\* the PCB of p is given back
Freed(c) == c.state = "FREE" /\ c.pid = NO_PID /\ c.ppid = NO_PID

\* the dead p is handed to q, which waits and is made ready
Hands(h, g, p, q) ==
  /\ \A r \in Pcbs \ {p} : SameFamily(h[r], g[r])
  /\ \A r \in Pcbs \ {p, q} : g[r].state = h[r].state
  /\ Freed(g[p])
  /\ h[q].state = "WAITING" /\ g[q].state = "READY"

\* A death the parent waits for leaves neither the child nor the wait.
LEMMA HandsFam ==
  ASSUME NEW f \in Tables, NEW h \in Tables, NEW g \in Tables,
         NEW n \in PID_FIRST_USER .. PID_LIMIT,
         NEW p \in Pcbs, NEW q \in Pcbs, NEW st, FInv(f, n), Orphans(f, h, p, st),
         Hands(h, g, p, q), h[q].pid = h[p].ppid
  PROVE  FInv(g, n)
<1>1. /\ InitFirst(h) /\ Named(h, n) /\ Distinct(h) /\ Parented(h) /\ Counted(h)
      /\ \A r \in UsedIn(h) \ {0} : h[r].state = "WAITING" =>
           \A c \in KidsIn(h, r) \ {p} : h[c].state # "ZOMBIE"
  BY OrphansFam
<1>2. /\ q # p /\ h[p].state \in Dead /\ p \in UsedIn(h) /\ q \in UsedIn(h)
      /\ UsedIn(h) \subseteq Pcbs /\ 0 \in Pcbs
  BY PoolAssumption DEF Orphans, Hands, Dead, UsedIn, Pcbs
<1>3. p # 0
  BY <1>1, <1>2 DEF InitFirst, Distinct
<1>4. \A c \in UsedIn(h) : h[c].ppid # h[p].pid
  BY <1>1, <1>2, <1>3, DeadChildless
<1>5. UsedIn(g) = UsedIn(h) \ {p}
  BY <1>2 DEF UsedIn, Hands, Freed
<1>6. /\ \A r \in UsedIn(g) : SameFamily(h[r], g[r])
      /\ \A r \in UsedIn(g) : g[r].state \in Dead => h[r].state \in Dead
      /\ \A r \in UsedIn(g) : g[r].state = "WAITING" => h[r].state = "WAITING"
      /\ \A r \in UsedIn(g) : g[r].state = "ZOMBIE" => h[r].state = "ZOMBIE"
      /\ \A r \in UsedIn(g) : r \in UsedIn(h) /\ r \in Pcbs /\ r # p
  BY <1>2, <1>5 DEF Hands, Dead
<1>7. \A r \in UsedIn(g) : KidsIn(g, r) \subseteq KidsIn(h, r) \ {p}
  BY <1>5, <1>6 DEF KidsIn, SameFamily
<1>8. 0 \in UsedIn(g)
  BY <1>1, <1>2, <1>3, <1>5 DEF InitFirst, UsedIn
<1>9. InitFirst(g)
  BY <1>1, <1>6, <1>8 DEF InitFirst, SameFamily, UsedIn
<1>10. Named(g, n)
  <2>1. ASSUME NEW r \in Pcbs, g[r].state = "FREE"
        PROVE  g[r].pid = NO_PID /\ g[r].ppid = NO_PID
    <3>1. CASE r = p
      BY <3>1 DEF Hands, Freed
    <3>2. CASE r # p
      <4>1. h[r].state = "FREE"
        BY <2>1, <3>2, <1>5 DEF UsedIn
      <4> QED BY <1>1, <3>2, <4>1 DEF Named, Hands, SameFamily
    <3> QED BY <3>1, <3>2
  <2>2. ASSUME NEW r \in Pcbs, g[r].state # "FREE" PROVE g[r].pid \in Given(n)
    <3>1. r \in UsedIn(g)
      BY <2>2 DEF UsedIn
    <3> QED BY <1>1, <1>6, <3>1 DEF Named, SameFamily, UsedIn
  <2> QED BY <2>1, <2>2 DEF Named
<1>11. Distinct(g)
  BY <1>1, <1>6 DEF Distinct, SameFamily
<1>12. Parented(g)
  <2>1. SUFFICES ASSUME NEW c \in UsedIn(g)
                 PROVE  /\ c # 0 => g[c].ppid # g[c].pid
                        /\ \E r \in UsedIn(g) :
                             g[r].pid = g[c].ppid /\ (g[r].state \in Dead => r = 0)
    BY DEF Parented
  <2>2. c \in UsedIn(h) /\ SameFamily(h[c], g[c])
    BY <1>6
  <2>3. PICK r \in UsedIn(h) : h[r].pid = h[c].ppid /\ (h[r].state \in Dead => r = 0)
    BY <1>1, <2>2 DEF Parented
  <2>4. r # p
    BY <1>4, <2>2, <2>3
  <2>5. r \in UsedIn(g)
    BY <1>5, <2>4
  <2>6. g[r].pid = g[c].ppid /\ (g[r].state \in Dead => r = 0)
    BY <1>6, <2>2, <2>3, <2>5 DEF SameFamily
  <2>7. c # 0 => g[c].ppid # g[c].pid
    BY <1>1, <2>2 DEF Parented, SameFamily
  <2> QED BY <2>5, <2>6, <2>7
<1>13. Counted(g)
  <2>1. SUFFICES ASSUME NEW r \in UsedIn(g), ~(r = 0 /\ g[r].state \in Dead)
                 PROVE  Cardinality(KidsIn(g, r)) <= g[r].children
    BY DEF Counted
  <2>2. r \in UsedIn(h) /\ g[r].children = h[r].children
    BY <1>6 DEF SameFamily
  <2>3. r = 0 => h[r].state \notin Dead
    <3>1. CASE r = q
      BY <3>1 DEF Hands, Dead
    <3>2. CASE r # q
      BY <1>6, <2>1, <3>2 DEF Hands
    <3> QED BY <3>1, <3>2
  <2>4. Cardinality(KidsIn(h, r)) <= h[r].children
    BY <1>1, <2>2, <2>3 DEF Counted
  <2>5. /\ Cardinality(KidsIn(g, r)) <= Cardinality(KidsIn(h, r))
        /\ Cardinality(KidsIn(g, r)) \in Nat /\ Cardinality(KidsIn(h, r)) \in Nat
    <3>1. KidsIn(g, r) \subseteq KidsIn(h, r) /\ KidsIn(h, r) \subseteq Pcbs
      BY <1>2, <1>7 DEF KidsIn
    <3> QED BY <3>1, CountPart
  <2>6. h[r].children \in Nat
    BY <1>2, <2>2 DEF Tables, PcbRecords
  <2> QED BY <2>2, <2>4, <2>5, <2>6
<1>14. Heard(g)
  <2>1. SUFFICES ASSUME NEW r \in UsedIn(g) \ {0}, g[r].state = "WAITING",
                        NEW c \in KidsIn(g, r)
                 PROVE  g[c].state # "ZOMBIE"
    BY DEF Heard
  <2>2. c \in KidsIn(h, r) \ {p} /\ c \in UsedIn(g) /\ h[r].state = "WAITING"
    BY <1>6, <1>7, <2>1 DEF KidsIn
  <2>3. h[c].state # "ZOMBIE"
    BY <1>1, <1>6, <2>1, <2>2
  <2> QED BY <1>6, <2>2, <2>3
<1> QED
  BY <1>9, <1>10, <1>11, <1>12, <1>13, <1>14 DEF FInv

-----------------------------------------------------------------------------
(* wait() with a zombie, and fork() *)

\* p buries its zombie child c and counts it off
Reaps(f, g, p, c) ==
  /\ f[p].state \in Awake /\ f[p].children # 0
  /\ f[c].state = "ZOMBIE" /\ f[c].ppid = f[p].pid
  /\ Freed(g[c])
  /\ \A r \in Pcbs \ {c} : /\ g[r].pid = f[r].pid /\ g[r].ppid = f[r].ppid
                           /\ g[r].state = f[r].state
                           /\ g[r].children = IF r = p THEN f[r].children - 1
                                              ELSE f[r].children

\* Counting off one child and removing one keep the count right.
LEMMA ReapsFam ==
  ASSUME NEW f \in Tables, NEW g \in Tables, NEW n, NEW p \in Pcbs, NEW c \in Pcbs,
         FInv(f, n), Reaps(f, g, p, c)
  PROVE  FInv(g, n)
<1>1. /\ InitFirst(f) /\ Named(f, n) /\ Distinct(f) /\ Parented(f) /\ Counted(f)
      /\ Heard(f)
  BY DEF FInv
<1>2. /\ c # p /\ c \in UsedIn(f) /\ p \in UsedIn(f)
      /\ UsedIn(f) \subseteq Pcbs /\ 0 \in Pcbs
  BY PoolAssumption DEF Reaps, Awake, UsedIn, Pcbs
<1>3. c # 0
  BY <1>1, <1>2 DEF Reaps, InitFirst, Distinct, UsedIn
<1>4. \A r \in UsedIn(f) : f[r].ppid # f[c].pid
  BY <1>1, <1>2, <1>3, DeadChildless DEF Reaps, Dead
<1>5. UsedIn(g) = UsedIn(f) \ {c}
  BY <1>2 DEF UsedIn, Reaps, Freed
<1>6. \A r \in UsedIn(g) :
        /\ g[r].pid = f[r].pid /\ g[r].ppid = f[r].ppid /\ g[r].state = f[r].state
        /\ r \in UsedIn(f) /\ r \in Pcbs /\ r # c
  BY <1>2, <1>5 DEF Reaps
<1>7. \A r \in UsedIn(g) : KidsIn(g, r) \subseteq KidsIn(f, r) \ {c}
  BY <1>5, <1>6 DEF KidsIn
<1>8. 0 \in UsedIn(g)
  BY <1>1, <1>2, <1>3, <1>5 DEF InitFirst, UsedIn
<1>9. InitFirst(g)
  BY <1>1, <1>6, <1>8 DEF InitFirst, UsedIn
<1>10. Named(g, n)
  <2>1. ASSUME NEW r \in Pcbs, g[r].state = "FREE"
        PROVE  g[r].pid = NO_PID /\ g[r].ppid = NO_PID
    <3>1. CASE r = c
      BY <3>1 DEF Reaps, Freed
    <3>2. CASE r # c
      BY <1>1, <2>1, <3>2 DEF Named, Reaps
    <3> QED BY <3>1, <3>2
  <2>2. ASSUME NEW r \in Pcbs, g[r].state # "FREE" PROVE g[r].pid \in Given(n)
    <3>1. r \in UsedIn(g)
      BY <2>2 DEF UsedIn
    <3> QED BY <1>1, <1>6, <3>1 DEF Named, UsedIn
  <2> QED BY <2>1, <2>2 DEF Named
<1>11. Distinct(g)
  BY <1>1, <1>6 DEF Distinct
<1>12. Parented(g)
  <2>1. SUFFICES ASSUME NEW x \in UsedIn(g)
                 PROVE  /\ x # 0 => g[x].ppid # g[x].pid
                        /\ \E r \in UsedIn(g) :
                             g[r].pid = g[x].ppid /\ (g[r].state \in Dead => r = 0)
    BY DEF Parented
  <2>2. PICK r \in UsedIn(f) : f[r].pid = f[x].ppid /\ (f[r].state \in Dead => r = 0)
    BY <1>1, <1>6 DEF Parented
  <2>3. r # c
    BY <1>4, <1>6, <2>2
  <2>4. r \in UsedIn(g)
    BY <1>5, <2>3
  <2>5. g[r].pid = g[x].ppid /\ (g[r].state \in Dead => r = 0)
    BY <1>6, <2>2, <2>4
  <2>6. x # 0 => g[x].ppid # g[x].pid
    BY <1>1, <1>6 DEF Parented
  <2> QED BY <2>4, <2>5, <2>6
<1>13. Counted(g)
  <2>1. SUFFICES ASSUME NEW r \in UsedIn(g), ~(r = 0 /\ g[r].state \in Dead)
                 PROVE  Cardinality(KidsIn(g, r)) <= g[r].children
    BY DEF Counted
  <2>2. r \in UsedIn(f) /\ r \in Pcbs /\ r # c /\ ~(r = 0 /\ f[r].state \in Dead)
    BY <1>6, <2>1
  <2>3. Cardinality(KidsIn(f, r)) <= f[r].children
    BY <1>1, <2>2 DEF Counted
  <2>4. /\ Cardinality(KidsIn(g, r)) <= Cardinality(KidsIn(f, r))
        /\ Cardinality(KidsIn(g, r)) \in Nat /\ Cardinality(KidsIn(f, r)) \in Nat
        /\ KidsIn(f, r) \subseteq Pcbs
    <3>1. KidsIn(g, r) \subseteq KidsIn(f, r) /\ KidsIn(f, r) \subseteq Pcbs
      BY <1>2, <1>7 DEF KidsIn
    <3> QED BY <3>1, CountPart
  <2>5. f[r].children \in Nat
    BY <2>2 DEF Tables, PcbRecords
  <2>6. CASE r = p
    <3>1. c \in KidsIn(f, r) /\ KidsIn(g, r) \subseteq KidsIn(f, r) \ {c}
      BY <1>2, <1>7, <2>6 DEF KidsIn, Reaps
    <3>2. Cardinality(KidsIn(g, r)) <= Cardinality(KidsIn(f, r)) - 1
      BY <2>4, <3>1, CountDrop
    <3>3. g[r].children = f[r].children - 1
      BY <2>2, <2>6 DEF Reaps
    <3> QED BY <2>3, <2>4, <2>5, <3>2, <3>3
  <2>7. CASE r # p
    <3>1. g[r].children = f[r].children
      BY <2>2, <2>7 DEF Reaps
    <3> QED BY <2>3, <2>4, <2>5, <3>1
  <2> QED BY <2>6, <2>7
<1>14. Heard(g)
  <2>1. SUFFICES ASSUME NEW r \in UsedIn(g) \ {0}, g[r].state = "WAITING",
                        NEW x \in KidsIn(g, r)
                 PROVE  g[x].state # "ZOMBIE"
    BY DEF Heard
  <2>2. x \in KidsIn(f, r) /\ x \in UsedIn(g) /\ f[r].state = "WAITING"
    BY <1>6, <1>7, <2>1 DEF KidsIn
  <2>3. f[x].state # "ZOMBIE"
    BY <1>1, <1>6, <2>1, <2>2 DEF Heard
  <2> QED BY <1>6, <2>2, <2>3
<1> QED
  BY <1>9, <1>10, <1>11, <1>12, <1>13, <1>14 DEF FInv

\* p forks c: a copy of the count, its own PID, and one more child for p
Forks(f, g, p, c, pid) ==
  /\ f[p].state \in Awake /\ f[c].state = "FREE" /\ g[c].state \in Awake
  /\ g[c].pid = pid /\ g[c].ppid = f[p].pid /\ g[c].children = f[p].children
  /\ \A r \in Pcbs \ {c} : /\ g[r].pid = f[r].pid /\ g[r].ppid = f[r].ppid
                           /\ g[r].state = f[r].state
                           /\ g[r].children = IF r = p THEN f[r].children + 1
                                              ELSE f[r].children

(***************************************************************************)
(* fork() keeps the invariant.  Nobody can already name the new PID as     *)
(* parent: by Parented such a parent would be in the table.                *)
(***************************************************************************)
LEMMA ForksFam ==
  ASSUME NEW f \in Tables, NEW g \in Tables, NEW n \in PID_FIRST_USER .. PID_LIMIT,
         n < PID_LIMIT, NEW p \in Pcbs, NEW c \in Pcbs,
         FInv(f, n), Forks(f, g, p, c, to_pid(n))
  PROVE  FInv(g, n + 1)
<1>1. /\ InitFirst(f) /\ Named(f, n) /\ Distinct(f) /\ Parented(f) /\ Counted(f)
      /\ Heard(f)
  BY DEF FInv
<1>2. /\ c # p /\ c \notin UsedIn(f) /\ p \in UsedIn(f) /\ c \in UsedIn(g)
      /\ UsedIn(f) \subseteq Pcbs /\ 0 \in Pcbs
  BY PoolAssumption DEF Forks, Awake, UsedIn, Pcbs
<1>3. c # 0 /\ 0 \in UsedIn(f)
  BY <1>1, <1>2 DEF InitFirst, UsedIn
<1>4. UsedIn(g) = UsedIn(f) \cup {c}
  BY <1>2 DEF UsedIn, Forks
<1>5. \A r \in UsedIn(f) :
        /\ g[r].pid = f[r].pid /\ g[r].ppid = f[r].ppid /\ g[r].state = f[r].state
        /\ r \in UsedIn(g) /\ r \in Pcbs /\ r # c
  BY <1>2, <1>4 DEF Forks
<1>6. /\ to_pid(n) \notin Given(n) /\ to_pid(n) # NO_PID /\ NO_PID \notin Given(n)
      /\ Given(n + 1) = Given(n) \cup {to_pid(n)}
  BY PidsFresh
<1>7. \A r \in UsedIn(f) : f[r].pid \in Given(n) /\ f[r].pid # to_pid(n)
  BY <1>1, <1>6 DEF Named, UsedIn
<1>8. \A r \in UsedIn(f) : f[r].ppid # to_pid(n)
  BY <1>1, <1>7 DEF Parented
<1>9. InitFirst(g)
  BY <1>1, <1>3, <1>5 DEF InitFirst
<1>10. Named(g, n + 1)
  <2>1. ASSUME NEW r \in Pcbs, g[r].state = "FREE"
        PROVE  g[r].pid = NO_PID /\ g[r].ppid = NO_PID
    <3>1. r # c
      BY <2>1 DEF Forks, Awake
    <3> QED BY <1>1, <2>1, <3>1 DEF Named, Forks
  <2>2. ASSUME NEW r \in Pcbs, g[r].state # "FREE" PROVE g[r].pid \in Given(n + 1)
    <3>1. CASE r = c
      BY <1>6, <3>1 DEF Forks
    <3>2. CASE r # c
      BY <1>4, <1>5, <1>6, <1>7, <2>2, <3>2 DEF UsedIn
    <3> QED BY <3>1, <3>2
  <2> QED BY <2>1, <2>2 DEF Named
<1>11. Distinct(g)
  <2>1. g[c].pid = to_pid(n)
    BY DEF Forks
  <2> QED
    BY <1>1, <1>4, <1>5, <1>7, <2>1 DEF Distinct
<1>12. Parented(g)
  <2>1. SUFFICES ASSUME NEW x \in UsedIn(g)
                 PROVE  /\ x # 0 => g[x].ppid # g[x].pid
                        /\ \E r \in UsedIn(g) :
                             g[r].pid = g[x].ppid /\ (g[r].state \in Dead => r = 0)
    BY DEF Parented
  <2>2. CASE x = c
    <3>1. g[x].ppid = f[p].pid /\ g[x].pid = to_pid(n)
      BY <2>2 DEF Forks
    <3>2. g[p].pid = f[p].pid /\ g[p].state \notin Dead /\ p \in UsedIn(g)
      BY <1>2, <1>5 DEF Forks, Awake, Dead
    <3> QED BY <1>2, <1>7, <3>1, <3>2
  <2>3. CASE x # c
    <3>1. x \in UsedIn(f)
      BY <1>4, <2>3
    <3>2. PICK r \in UsedIn(f) : f[r].pid = f[x].ppid /\ (f[r].state \in Dead => r = 0)
      BY <1>1, <3>1 DEF Parented
    <3>3. r \in UsedIn(g) /\ g[r].pid = g[x].ppid /\ (g[r].state \in Dead => r = 0)
      BY <1>5, <3>1, <3>2
    <3>4. x # 0 => g[x].ppid # g[x].pid
      BY <1>1, <1>5, <3>1 DEF Parented
    <3> QED BY <3>3, <3>4
  <2> QED BY <2>2, <2>3
<1>13. Counted(g)
  <2>1. SUFFICES ASSUME NEW r \in UsedIn(g), ~(r = 0 /\ g[r].state \in Dead)
                 PROVE  Cardinality(KidsIn(g, r)) <= g[r].children
    BY DEF Counted
  <2>2. CASE r = c
    <3>1. g[r].pid = to_pid(n)
      BY <2>2 DEF Forks
    <3>2. KidsIn(g, r) = {}
      BY <1>4, <1>5, <1>8, <2>2, <3>1 DEF KidsIn
    <3>3. g[r].children \in Nat
      BY <2>2 DEF Tables, PcbRecords
    <3> QED BY <3>2, <3>3, FS_EmptySet
  <2>3. CASE r # c
    <3>1. r \in UsedIn(f) /\ r \in Pcbs /\ ~(r = 0 /\ f[r].state \in Dead)
      BY <1>4, <1>5, <2>1, <2>3
    <3>2. Cardinality(KidsIn(f, r)) <= f[r].children /\ f[r].children \in Nat
      BY <1>1, <3>1 DEF Counted, Tables, PcbRecords
    <3>3. KidsIn(f, r) \subseteq Pcbs /\ KidsIn(g, r) \subseteq Pcbs
      BY <1>2, <1>4 DEF KidsIn
    <3>4. Cardinality(KidsIn(f, r)) \in Nat /\ Cardinality(KidsIn(g, r)) \in Nat
      BY <3>3, CountType
    <3>5. CASE r = p
      <4>1. KidsIn(g, r) \subseteq KidsIn(f, r) \cup {c}
        BY <1>4, <1>5, <3>1 DEF KidsIn
      <4>2. Cardinality(KidsIn(g, r)) <= Cardinality(KidsIn(f, r)) + 1
        BY <3>3, <4>1, CountAdd
      <4>3. g[r].children = f[r].children + 1
        BY <2>3, <3>1, <3>5 DEF Forks
      <4> QED BY <3>2, <3>4, <4>2, <4>3
    <3>6. CASE r # p
      <4>1. g[c].ppid = f[p].pid /\ f[p].pid # f[r].pid
        BY <1>1, <1>2, <3>1, <3>6 DEF Forks, Distinct
      <4>2. KidsIn(g, r) \subseteq KidsIn(f, r)
        BY <1>4, <1>5, <3>1, <4>1 DEF KidsIn
      <4>3. Cardinality(KidsIn(g, r)) <= Cardinality(KidsIn(f, r))
        BY <3>3, <4>2, CountPart
      <4>4. g[r].children = f[r].children
        BY <2>3, <3>1, <3>6 DEF Forks
      <4> QED BY <3>2, <3>4, <4>3, <4>4
    <3> QED BY <3>5, <3>6
  <2> QED BY <2>2, <2>3
<1>14. Heard(g)
  <2>1. SUFFICES ASSUME NEW r \in UsedIn(g) \ {0}, g[r].state = "WAITING",
                        NEW x \in KidsIn(g, r)
                 PROVE  g[x].state # "ZOMBIE"
    BY DEF Heard
  <2>2. r # c
    BY <2>1 DEF Forks, Awake
  <2>3. CASE x = c
    BY <2>3 DEF Forks, Awake
  <2>4. CASE x # c
    <3>1. r \in UsedIn(f) /\ x \in UsedIn(f) /\ x \in KidsIn(f, r)
      BY <1>4, <1>5, <2>1, <2>2, <2>4 DEF KidsIn
    <3>2. f[x].state # "ZOMBIE"
      BY <1>1, <1>5, <2>1, <3>1 DEF Heard
    <3> QED BY <1>5, <3>1, <3>2
  <2> QED BY <2>3, <2>4
<1> QED
  BY <1>9, <1>10, <1>11, <1>12, <1>13, <1>14 DEF FInv

-----------------------------------------------------------------------------
(***************************************************************************)
(* What a handler does to the dead and to those who wait, as the action    *)
(* properties DeadStayDead and WaitEndsWithChild say it.                   *)
(***************************************************************************)
Fate(f, g) ==
  /\ \A p \in Pcbs : f[p].state \in Dead =>
       (g[p].state = f[p].state /\ g[p].pid = f[p].pid) \/ g[p].state = "FREE"
  /\ \A p \in Pcbs : f[p].state = "WAITING" /\ g[p].state \in Awake =>
       \E c \in KidsIn(f, p) : f[c].state \notin Dead /\ g[c].state = "FREE"

\* what is shown of each move
Kept(f, g, n) == FInv(g, n) /\ Fate(f, g)

\* A quiet move bears out nobody's fate ...
LEMMA QuietKept ==
  ASSUME NEW f, NEW g, NEW n, FInv(f, n), Quiet(f, g)
  PROVE  Kept(f, g, n)
<1>1. FInv(g, n)
  BY QuietFam
<1>2. Fate(f, g)
  BY DEF Fate, Quiet, SameFamily, Awake, Dead
<1> QED
  BY <1>1, <1>2 DEF Kept

\* ... and may follow any other.
LEMMA ThenQuiet ==
  ASSUME NEW f, NEW g, NEW h, NEW n, Kept(f, g, n), Quiet(g, h)
  PROVE  Kept(f, h, n)
<1>1. FInv(h, n)
  BY QuietFam DEF Kept
<1>2. /\ \A r \in Pcbs : g[r].state = "FREE" => h[r].state = "FREE"
      /\ \A r \in Pcbs : g[r].state \in Dead => h[r].state = g[r].state
      /\ \A r \in Pcbs : h[r].state \in Awake => g[r].state \in Awake
      /\ \A r \in Pcbs : h[r].pid = g[r].pid
  BY DEF Quiet, SameFamily, Awake, Dead
<1>3. \A p \in Pcbs : KidsIn(f, p) \subseteq Pcbs
  BY DEF KidsIn, UsedIn
<1>4. ASSUME NEW p \in Pcbs, f[p].state \in Dead
      PROVE  \/ h[p].state = f[p].state /\ h[p].pid = f[p].pid
             \/ h[p].state = "FREE"
  BY <1>2, <1>4 DEF Kept, Fate
<1>5. ASSUME NEW p \in Pcbs, f[p].state = "WAITING", h[p].state \in Awake
      PROVE  \E c \in KidsIn(f, p) : f[c].state \notin Dead /\ h[c].state = "FREE"
  BY <1>2, <1>3, <1>5 DEF Kept, Fate
<1> QED
  BY <1>1, <1>4, <1>5 DEF Kept, Fate

\* Blocking in wait().
LEMMA WaitsKept ==
  ASSUME NEW f, NEW g, NEW n, NEW p \in Pcbs, FInv(f, n), Waits(f, g, p)
  PROVE  Kept(f, g, n)
<1>1. FInv(g, n)
  BY WaitsFam
<1>2. Fate(f, g)
  BY DEF Fate, Waits, SameFamily, Awake, Dead
<1> QED
  BY <1>1, <1>2 DEF Kept

\* Burying a zombie in wait().
LEMMA ReapsKept ==
  ASSUME NEW f \in Tables, NEW g \in Tables, NEW n, NEW p \in Pcbs, NEW c \in Pcbs,
         FInv(f, n), Reaps(f, g, p, c)
  PROVE  Kept(f, g, n)
<1>1. FInv(g, n)
  BY ReapsFam
<1>2. Fate(f, g)
  BY DEF Fate, Reaps, Freed, Awake, Dead
<1> QED
  BY <1>1, <1>2 DEF Kept

\* fork().
LEMMA ForksKept ==
  ASSUME NEW f \in Tables, NEW g \in Tables, NEW n \in PID_FIRST_USER .. PID_LIMIT,
         n < PID_LIMIT, NEW p \in Pcbs, NEW c \in Pcbs,
         FInv(f, n), Forks(f, g, p, c, to_pid(n))
  PROVE  Kept(f, g, n + 1)
<1>1. FInv(g, n + 1)
  BY ForksFam
<1>2. Fate(f, g)
  BY DEF Fate, Forks, Awake, Dead
<1> QED
  BY <1>1, <1>2 DEF Kept

\* A death, heard of later.
LEMMA UnheardKept ==
  ASSUME NEW f \in Tables, NEW h \in Tables, NEW n \in PID_FIRST_USER .. PID_LIMIT,
         NEW p \in Pcbs, NEW st, FInv(f, n), Orphans(f, h, p, st),
         \A q \in UsedIn(h) : h[q].pid = h[p].ppid => h[q].state # "WAITING"
  PROVE  Kept(f, h, n)
<1>1. FInv(h, n)
  BY UnheardFam
<1>2. Fate(f, h)
  BY DEF Fate, Orphans, Awake, Dead
<1> QED
  BY <1>1, <1>2 DEF Kept

\* A death, heard of at once.
LEMMA HandsKept ==
  ASSUME NEW f \in Tables, NEW h \in Tables, NEW g \in Tables,
         NEW n \in PID_FIRST_USER .. PID_LIMIT,
         NEW p \in Pcbs, NEW q \in Pcbs, NEW st, FInv(f, n), Orphans(f, h, p, st),
         Hands(h, g, p, q), h[q].pid = h[p].ppid
  PROVE  Kept(f, g, n)
<1>1. FInv(g, n)
  BY HandsFam
<1>2. \A r \in Pcbs : f[r].state \in Dead => r # p /\ g[r].state = f[r].state
                                              /\ g[r].pid = f[r].pid
  BY DEF Hands, Orphans, SameFamily, Dead
<1>3. ASSUME NEW r \in Pcbs, f[r].state = "WAITING", g[r].state \in Awake
      PROVE  \E c \in KidsIn(f, r) : f[c].state \notin Dead /\ g[c].state = "FREE"
  <2>1. r = q
    <3>1. r # p
      BY <1>3 DEF Hands, Freed, Awake
    <3> QED
      BY <1>3, <3>1 DEF Hands, Orphans, Awake
  <2>2. q # p /\ p \in UsedIn(f) /\ f[p].state \notin Dead /\ g[p].state = "FREE"
        /\ f[q].pid = h[q].pid
    BY DEF Hands, Orphans, UsedIn, Freed, Dead
  <2>3. CASE f[p].ppid = h[p].ppid
    BY <2>1, <2>2, <2>3 DEF KidsIn
  <2>4. CASE f[p].ppid # h[p].ppid
    <3>1. f[p].ppid = f[p].pid /\ h[p].ppid = PID_INIT
      BY <2>4 DEF Orphans
    <3>2. p = 0
      BY <2>2, <3>1 DEF FInv, Parented
    <3> QED
      BY <2>4, <3>1, <3>2 DEF FInv, InitFirst
  <2> QED BY <2>3, <2>4
<1> QED
  BY <1>1, <1>2, <1>3 DEF Kept, Fate

-----------------------------------------------------------------------------
(* The moves the kernel functions make *)

\* _schedule makes p ready and changes nothing else of the table.
LEMMA SchedulePcbs ==
  ASSUME NEW s \in KStates, NEW p \in Pcbs
  PROVE  /\ schedule(s, p).pcbs \in Tables
         /\ \A r \in Pcbs \ {p} : schedule(s, p).pcbs[r] = s.pcbs[r]
         /\ SameFamily(s.pcbs[p], schedule(s, p).pcbs[p])
         /\ schedule(s, p).pcbs[p].state = "READY"
         /\ schedule(s, p).pcbs[p].prog = s.pcbs[p].prog
<1> DEFINE prio == IF s.pcbs[p].prio \in Prios THEN s.pcbs[p].prio ELSE P_LOW
           c == [s.pcbs[p] EXCEPT !.prio = prio, !.state = "READY"]
           u == WithPcb(s, p, c)
           n == Ready(prio)
<1>1. s.pcbs[p] \in PcbRecords /\ prio \in Int
  BY DEF KStates, PcbRecords, P_LOW
<1>2. /\ c \in PcbRecords /\ c.state = "READY" /\ SameFamily(s.pcbs[p], c)
      /\ c.prog = s.pcbs[p].prog
  <2> HIDE DEF prio
  <2> QED BY <1>1 DEF PcbRecords, States, SameFamily
<1>3. u = [s EXCEPT !.pcbs[p].prio = prio, !.pcbs[p].state = "READY"]
  <2> HIDE DEF prio
  <2> QED BY <1>1 DEF WithPcb, KStates, PcbRecords
<1>4. schedule(s, p) = enque_or_panic(u, n, p, "_schedule")
  <2> HIDE DEF u
  <2> QED BY <1>3 DEF schedule
<1> HIDE DEF prio, c, u, n
<1>5. u \in KStates /\ SameBut(s, u, p) /\ u.pcbs[p] = c
  BY <1>2, SetPcb DEF u
<1>6. schedule(s, p).pcbs = u.pcbs
  BY <1>4, <1>5 DEF enque_or_panic, kpanic, q_enque, KStates
<1> QED
  BY <1>2, <1>5, <1>6 DEF SameBut, KStates, Tables

\* Scheduling a process that is neither waiting nor dead is a quiet move.
LEMMA ScheduleQuiet ==
  ASSUME NEW s \in KStates, NEW p \in Pcbs, s.pcbs[p].state \in Awake
  PROVE  Quiet(s.pcbs, schedule(s, p).pcbs)
BY SchedulePcbs DEF Quiet, SameFamily, Awake

\* _dispatch moves a ready process to the CPU.
LEMMA DispatchQuiet ==
  ASSUME NEW s, Sane(s, {}, 0), dispatch(s).panic = "none"
  PROVE  /\ Quiet(s.pcbs, dispatch(s).pcbs) /\ s.panic = "none"
         /\ \A r \in Pcbs : dispatch(s).pcbs[r].prog = s.pcbs[r].prog
         /\ \A r \in Pcbs : s.pcbs[r].state = "READY" =>
              dispatch(s).pcbs[r].state \in {"READY", "RUNNING"}
<1> DEFINE nonempty == {r \in Prios : s.queues[Ready(r)] # <<>>}
           n == Ready(First(nonempty))
           p == Head(s.queues[n])
           t == q_deque(s, n)
           c == [s.pcbs[p] EXCEPT !.state = "RUNNING"]
           g == [s.pcbs EXCEPT ![p] = c]
<1>1. s \in KStates
  BY DEF Sane
<1>2. nonempty # {}
  BY <1>1 DEF dispatch, kpanic, KStates
<1>3. First(nonempty) \in nonempty
  <2>1. nonempty \subseteq Nat
    BY DEF Prios, P_SYSTEM, P_MIN
  <2> HIDE DEF nonempty
  <2> QED BY <1>2, <2>1, FirstIn
<1>4. n \in QNames /\ s.queues[n] # <<>>
  BY <1>3, ReadyType
<1>5. dispatch(s) = [t EXCEPT !.current = p, !.pcbs[p].state = "RUNNING",
                              !.ticks = QUANT_STD]
  BY <1>2 DEF dispatch
<1>6. n = "ready0" \/ n = "ready1" \/ n = "ready2" \/ n = "ready3"
  BY DEF Ready
<1> HIDE DEF nonempty, n
<1>7. /\ p \in Pcbs /\ Home(s.pcbs[p]) = n
      /\ Sane(t, {} \cup {p}, 0 + 1) /\ SamePcbs(s, t)
  BY <1>4, DequeOK
<1> HIDE DEF t, p
<1>8. s.pcbs[p].state = "READY" /\ s.pcbs[p] \in PcbRecords
  BY <1>1, <1>6, <1>7 DEF Home, KStates
<1>9. dispatch(s).pcbs = g /\ dispatch(s).panic = s.panic
  BY <1>1, <1>5, <1>7, <1>8 DEF SamePcbs, KStates, PcbRecords, Sane
<1>10. \A r \in Pcbs : g[r] = IF r = p THEN c ELSE s.pcbs[r]
  BY <1>1, <1>7 DEF KStates
<1>11. /\ SameFamily(s.pcbs[p], c) /\ c.state = "RUNNING" /\ c.prog = s.pcbs[p].prog
  BY <1>8 DEF SameFamily, PcbRecords
<1> HIDE DEF g, c
<1> QED
  BY <1>8, <1>9, <1>10, <1>11 DEF Quiet, SameFamily, Awake

\* _pcb_cleanup frees the PCB.
LEMMA CleanupPcbs ==
  ASSUME NEW s \in KStates, NEW p \in Pcbs
  PROVE  /\ \A r \in Pcbs \ {p} : pcb_cleanup(s, p).pcbs[r] = s.pcbs[r]
         /\ Freed(pcb_cleanup(s, p).pcbs[p])
<1> DEFINE t == stk_dealloc(s, s.pcbs[p].stack)
           c == [s.pcbs[p] EXCEPT !.state = "FREE", !.pid = NO_PID,
                                  !.ppid = NO_PID]
           u == [t EXCEPT !.pcbs[p].state = "FREE", !.pcbs[p].pid = NO_PID,
                          !.pcbs[p].ppid = NO_PID]
<1>1. /\ t.pcbs = s.pcbs /\ s.pcbs[p] \in PcbRecords
      /\ DOMAIN t = {"pcbs", "queues", "stacks", "qnodes", "current", "ticks", "panic"}
  BY DEF stk_dealloc, KStates
<1>2. Freed(c)
  BY <1>1 DEF Freed, PcbRecords
<1> HIDE DEF t
<1>3. u.pcbs = [s.pcbs EXCEPT ![p] = c]
  BY <1>1 DEF KStates, PcbRecords
<1>4. pcb_cleanup(s, p).pcbs = u.pcbs
  BY <1>1 DEF pcb_cleanup, pcb_dealloc, q_enque, t
<1> HIDE DEF c, u
<1> QED
  BY <1>2, <1>3, <1>4 DEF KStates

\* Dying and handing the children over, as the move Orphans.
LEMMA ReparentPcbs ==
  ASSUME NEW s \in KStates, NEW p \in Pcbs, NEW st \in Dead,
         s.pcbs[p].state \notin Dead \cup {"FREE"}
  PROVE  /\ reparent(InState(s, p, st), p).pcbs \in Tables
         /\ Orphans(s.pcbs, reparent(InState(s, p, st), p).pcbs, p, st)
         /\ \A r \in Pcbs : reparent(InState(s, p, st), p).pcbs[r].prog = s.pcbs[r].prog
<1> DEFINE f == s.pcbs
           b == [f[p] EXCEPT !.state = st]
           i == InState(s, p, st)
           kids == ChildrenOf(i, i.pcbs[p].pid)
           adopt(r) == [i.pcbs[r] EXCEPT
                         !.ppid = IF r \in kids THEN PID_INIT ELSE @,
                         !.children = IF r = p THEN 0
                                      ELSE IF r = 0 THEN @ + Cardinality(kids)
                                      ELSE @]
           adopted == [r \in Pcbs |-> adopt(r)]
           h == reparent(i, p).pcbs
<1>1. f \in Tables /\ f[p] \in PcbRecords /\ st \in States
  BY DEF KStates, Tables, Dead, States
<1>2. b \in PcbRecords /\ b.state = st /\ SameFamily(f[p], b) /\ b.prog = f[p].prog
  BY <1>1 DEF PcbRecords, SameFamily
<1>3. i = WithPcb(s, p, b)
  BY <1>1 DEF InState, WithPcb, KStates, PcbRecords
<1> HIDE DEF b, i
<1>4. /\ i \in KStates /\ i.pcbs[p] = b
      /\ \A r \in Pcbs \ {p} : i.pcbs[r] = f[r]
  BY <1>2, <1>3, SetPcb DEF SameBut
<1>5. \A r \in Pcbs : /\ SameFamily(f[r], i.pcbs[r])
                      /\ i.pcbs[r].state = IF r = p THEN st ELSE f[r].state
                      /\ i.pcbs[r] \in PcbRecords /\ i.pcbs[r].prog = f[r].prog
  BY <1>2, <1>4 DEF SameFamily, KStates
<1>6. kids = Bearing(f, f[p].pid)
  BY <1>5 DEF ChildrenOf, Bearing, SameFamily
<1>7. Cardinality(kids) \in Nat
  BY CountType DEF ChildrenOf
<1>8. i.pcbs[p].children = f[p].children
  BY <1>5 DEF SameFamily
<1> HIDE DEF kids
<1>9. CASE f[p].children > 0
  <2>1. h = adopted
    BY <1>4, <1>8, <1>9 DEF reparent, kids, KStates
  <2>2. ASSUME NEW r \in Pcbs
        PROVE  /\ adopt(r) \in PcbRecords
               /\ adopt(r).pid = i.pcbs[r].pid
               /\ adopt(r).state = i.pcbs[r].state
               /\ adopt(r).prog = i.pcbs[r].prog
               /\ adopt(r).ppid = IF r \in kids THEN PID_INIT ELSE i.pcbs[r].ppid
               /\ adopt(r).children = IF r = p THEN 0
                                      ELSE IF r = 0
                                      THEN i.pcbs[r].children + Cardinality(kids)
                                      ELSE i.pcbs[r].children
    <3> DEFINE a == i.pcbs[r]
               x == IF r \in kids THEN PID_INIT ELSE a.ppid
               y == IF r = p THEN 0
                    ELSE IF r = 0 THEN a.children + Cardinality(kids)
                    ELSE a.children
    <3>1. a \in PcbRecords /\ x \in Int /\ y \in Nat
      BY <1>5, <1>7 DEF PcbRecords, PID_INIT
    <3>2. adopt(r) = [a EXCEPT !.ppid = x, !.children = y]
      BY <3>1 DEF PcbRecords
    <3>3. /\ [a EXCEPT !.ppid = x, !.children = y] \in PcbRecords
          /\ [a EXCEPT !.ppid = x, !.children = y].pid = a.pid
          /\ [a EXCEPT !.ppid = x, !.children = y].state = a.state
          /\ [a EXCEPT !.ppid = x, !.children = y].prog = a.prog
          /\ [a EXCEPT !.ppid = x, !.children = y].ppid = x
          /\ [a EXCEPT !.ppid = x, !.children = y].children = y
      <4> HIDE DEF a, x, y
      <4> QED BY <3>1 DEF PcbRecords
    <3> QED BY <3>2, <3>3
  <2> HIDE DEF adopt
  <2>3. /\ adopted \in Tables /\ \A r \in Pcbs : adopted[r] = adopt(r)
    BY <2>2 DEF Tables
  <2> HIDE DEF adopted
  <2>4. \A r \in Pcbs : r \in kids <=> f[r].ppid = f[p].pid
    BY <1>6 DEF Bearing
  <2> HIDE DEF h
  <2>5. Orphans(f, h, p, st)
    BY <1>5, <1>6, <1>9, <2>1, <2>2, <2>3, <2>4 DEF Orphans, SameFamily
  <2> QED
    BY <1>5, <2>1, <2>2, <2>3, <2>5 DEF h, i
<1>10. CASE ~(f[p].children > 0)
  <2>1. h = i.pcbs
    BY <1>8, <1>10 DEF reparent
  <2>2. h \in Tables
    BY <1>4, <2>1 DEF Tables, KStates
  <2> HIDE DEF h
  <2>3. Orphans(f, h, p, st)
    BY <1>5, <1>10, <2>1 DEF Orphans, SameFamily
  <2> QED
    BY <1>5, <2>1, <2>2, <2>3 DEF h, i
<1> QED BY <1>9, <1>10

\* the processes left have the PIDs and programs they had
Stays(f, g) == \A r \in UsedIn(g) : /\ r \in UsedIn(f) /\ g[r].pid = f[r].pid
                                    /\ g[r].prog = f[r].prog
StayReady(f, g, p) ==
  \A r \in Pcbs \ {p} : f[r].state = "READY" => g[r].state = "READY"

(***************************************************************************)
(* _zombify after the state is set: the parent is found, so there is no    *)
(* panic, and either waits and is handed the dead, or will find it.        *)
(***************************************************************************)
LEMMA BuryKept ==
  ASSUME NEW s, NEW D, NEW d \in Nat, d > 0, Sane(s, D, d),
         NEW p \in Pcbs, p \in D, NEW st \in Dead,
         s.pcbs[p].state \notin Dead \cup {"FREE"},
         \A r \in D \ {p} : s.pcbs[r].state # "WAITING",
         NEW n \in PID_FIRST_USER .. PID_LIMIT, FInv(s.pcbs, n)
  PROVE  /\ Kept(s.pcbs, zombify(InState(s, p, st), p).pcbs, n)
         /\ zombify(InState(s, p, st), p).panic = s.panic
         /\ Stays(s.pcbs, zombify(InState(s, p, st), p).pcbs)
         /\ StayReady(s.pcbs, zombify(InState(s, p, st), p).pcbs, p)
<1> DEFINE i == InState(s, p, st)
           t == reparent(i, p)
           f == s.pcbs
           h == t.pcbs
           found == HavingPid(t, t.pcbs[p].ppid)
           q == First(found)
           u == q_remove(t, "waiting", q, "_zombify")
           v == pcb_cleanup(u, p)
           w == schedule(v, q)
           z == q_enque(t, "zombie", p)
<1>1. s \in KStates /\ f \in Tables
  BY DEF Sane, KStates, Tables
<1>2. h \in Tables /\ Orphans(f, h, p, st) /\ \A r \in Pcbs : h[r].prog = f[r].prog
  BY <1>1, ReparentPcbs
<1>3. Sane(i, D, d) /\ SameBut(s, i, p) /\ i.pcbs[p].state = st
  BY ChangeState DEF States, Dead
<1> HIDE DEF i
<1>4. /\ Sane(t, D, d) /\ SameCpu(i, t) /\ t \in KStates
      /\ \A r \in Pcbs : t.pcbs[r].state = i.pcbs[r].state
  BY <1>3, ReparentOK DEF Sane
<1> HIDE DEF t, h, f
<1>5. t.panic = s.panic
  BY <1>3, <1>4 DEF SameBut, SameCpu
<1>6. /\ InitFirst(h) /\ Named(h, n) /\ Distinct(h) /\ Parented(h) /\ Counted(h)
  BY <1>1, <1>2, OrphansFam DEF f
<1>7. p \in UsedIn(h) /\ h[p].state \in Dead
  BY <1>2 DEF Orphans, UsedIn, Dead
<1>8. PICK r \in UsedIn(h) : h[r].pid = h[p].ppid
  BY <1>6, <1>7 DEF Parented
<1>9. h[p].ppid # NO_PID
  BY <1>6, <1>8, PidsFresh DEF Named, UsedIn
<1>10. q \in found /\ found \subseteq Pcbs /\ found # {}
  <2>1. found \subseteq Nat /\ found \subseteq Pcbs /\ r \in found
    BY <1>8 DEF HavingPid, Pcbs, UsedIn, h
  <2> HIDE DEF found
  <2> QED BY <2>1, FirstIn
<1>11. q \in Pcbs /\ h[q].pid = h[p].ppid
  BY <1>10 DEF HavingPid, h
<1>12. q \in UsedIn(h)
  BY <1>6, <1>9, <1>11 DEF Named, UsedIn
<1> HIDE DEF found, q
<1>13. CASE t.pcbs[q].state = "WAITING"
  <2>1. zombify(i, p) = w
    BY <1>10, <1>13 DEF zombify, t, found, q
  <2>2. /\ q # p /\ q \notin D /\ "waiting" \in QNames
        /\ Home(t.pcbs[q]) = "waiting"
    <3>1. q # p
      BY <1>7, <1>13 DEF Dead, h
    <3>2. i.pcbs[q] = s.pcbs[q]
      BY <1>3, <1>11, <3>1 DEF SameBut
    <3> QED
      BY <1>4, <1>11, <1>13, <3>1, <3>2 DEF Home, QNames
  <2>3. Sane(u, D \cup {q}, d + 1) /\ SamePcbs(t, u)
    BY <1>4, <1>11, <2>2, RemoveOK
  <2> HIDE DEF u
  <2>4. u.pcbs[p].state # "FREE" /\ d + 1 \in Nat /\ d + 1 > 0
    BY <1>3, <1>4, <2>3 DEF SamePcbs, Dead
  <2>5. Sane(v, (D \cup {q}) \ {p}, (d + 1) - 1) /\ SameBut(u, v, p)
    BY <2>3, <2>4, CleanupOK
  <2>6. Freed(v.pcbs[p]) /\ \A x \in Pcbs \ {p} : v.pcbs[x] = u.pcbs[x]
    BY <2>3, CleanupPcbs DEF Sane
  <2> HIDE DEF v
  <2>7. /\ w.pcbs \in Tables /\ \A x \in Pcbs \ {q} : w.pcbs[x] = v.pcbs[x]
        /\ SameFamily(v.pcbs[q], w.pcbs[q]) /\ w.pcbs[q].state = "READY"
        /\ w.pcbs[q].prog = v.pcbs[q].prog
    BY <1>11, <2>5, SchedulePcbs DEF Sane
  <2>8. w.panic = v.panic
    <3>1. (d + 1) - 1 = d
      OBVIOUS
    <3>2. v.pcbs[q].state # "FREE" /\ q \in (D \cup {q}) \ {p}
      BY <1>11, <1>13, <2>2, <2>3, <2>6 DEF SamePcbs
    <3>3. Sane(v, (D \cup {q}) \ {p}, d)
      BY <2>5, <3>1
    <3> QED BY <1>11, <3>2, <3>3, ScheduleOK, ZenonT(60) DEF SameBut, SameCpu
  <2> HIDE DEF w
  <2>9. w.panic = s.panic
    BY <1>5, <2>3, <2>5, <2>8 DEF SameBut, SameCpu, SamePcbs
  <2>10. Hands(h, w.pcbs, p, q)
    BY <1>13, <2>2, <2>3, <2>6, <2>7 DEF Hands, SamePcbs, SameFamily, h
  <2>11. Kept(f, w.pcbs, n)
    BY <1>1, <1>2, <1>11, <2>7, <2>10, HandsKept DEF f
  <2>12. \A x \in Pcbs \ {p} : w.pcbs[x].prog = f[x].prog
    BY <1>2, <2>2, <2>3, <2>6, <2>7 DEF SamePcbs, h
  <2>13. Stays(f, w.pcbs)
    BY <1>2, <2>10, <2>12 DEF Stays, Hands, Orphans, UsedIn, SameFamily, Freed, Dead
  <2>14. StayReady(f, w.pcbs, p)
    BY <1>2, <2>10 DEF StayReady, Hands, Orphans
  <2> QED
    BY <2>1, <2>9, <2>11, <2>13, <2>14 DEF i, f
<1>14. CASE t.pcbs[q].state # "WAITING"
  <2>1. zombify(i, p) = enque_or_panic(t, "zombie", p, "_zombify")
    BY <1>10, <1>14 DEF zombify, t, found, q
  <2>2. Placeable(t, p) /\ Home(t.pcbs[p]) = "zombie" /\ "zombie" \in QNames
    BY <1>3, <1>4 DEF Placeable, Home, QNames, Dead
  <2>3. t.qnodes # 0 /\ SamePcbs(t, z)
    BY <1>4, <2>2, EnqueOK
  <2>4. zombify(i, p) = z
    BY <2>1, <2>3 DEF enque_or_panic
  <2> HIDE DEF z
  <2>5. zombify(i, p).pcbs = h /\ zombify(i, p).panic = s.panic
    BY <1>5, <2>3, <2>4 DEF SamePcbs, h
  <2>6. \A x \in UsedIn(h) : h[x].pid = h[p].ppid => h[x].state # "WAITING"
    BY <1>6, <1>11, <1>12, <1>14 DEF Distinct, h
  <2>7. Kept(f, h, n)
    BY <1>1, <1>2, <2>6, UnheardKept DEF f
  <2>8. Stays(f, h) /\ StayReady(f, h, p)
    BY <1>2 DEF Stays, StayReady, Orphans, UsedIn, Dead
  <2> QED
    BY <2>5, <2>7, <2>8 DEF i, f
<1> QED BY <1>13, <1>14

-----------------------------------------------------------------------------
(* Handlers *)

\* the processes r a handler must find ready for the machine to go on with
Survives(t, r) == t.panic = "none" /\ t.pcbs[r].state \in {"READY", "RUNNING"}

\* what is shown of a handler that takes s to t and starts no program
Handles(s, t, n) ==
  t.panic = "none" => Kept(s.pcbs, t.pcbs, n) /\ Stays(s.pcbs, t.pcbs)

\* A process on a ready queue is all _dispatch needs.
LEMMA DispatchSurvives ==
  ASSUME NEW s, Sane(s, {}, 0), s.panic = "none",
         NEW r \in Pcbs, s.pcbs[r].state = "READY"
  PROVE  Survives(dispatch(s), r)
<1> DEFINE nonempty == {x \in Prios : s.queues[Ready(x)] # <<>>}
<1>1. s \in KStates /\ s.pcbs[r].prio \in Prios
  BY DEF Sane, Loose
<1>2. r \in Range(s.queues[Ready(s.pcbs[r].prio)])
  <2>1. Home(s.pcbs[r]) = Ready(s.pcbs[r].prio)
    BY DEF Home
  <2> QED BY <2>1, ReadyType DEF Sane, Loose
<1>3. s.pcbs[r].prio \in nonempty
  <2>1. s.queues[Ready(s.pcbs[r].prio)] # <<>>
    BY <1>2 DEF Range
  <2> QED BY <1>1, <2>1
<1>4. dispatch(s).panic = "none"
  <2>1. nonempty # {}
    BY <1>3
  <2> HIDE DEF nonempty
  <2> QED BY <1>1, <2>1 DEF dispatch, q_deque, KStates, nonempty
<1> QED
  BY <1>4, DispatchQuiet DEF Survives

\* _dispatch at the end of a handler adds nothing the family could notice.
LEMMA DispatchHandles ==
  ASSUME NEW s, NEW t, NEW n, Sane(t, {}, 0),
         Kept(s.pcbs, t.pcbs, n), Stays(s.pcbs, t.pcbs)
  PROVE  Handles(s, dispatch(t), n)
<1>1. SUFFICES ASSUME dispatch(t).panic = "none"
               PROVE  /\ Kept(s.pcbs, dispatch(t).pcbs, n)
                      /\ Stays(s.pcbs, dispatch(t).pcbs)
  BY DEF Handles
<1>2. /\ Quiet(t.pcbs, dispatch(t).pcbs)
      /\ \A r \in Pcbs : dispatch(t).pcbs[r].prog = t.pcbs[r].prog
  BY <1>1, DispatchQuiet
<1>3. Kept(s.pcbs, dispatch(t).pcbs, n)
  BY <1>2, ThenQuiet
<1>4. Stays(s.pcbs, dispatch(t).pcbs)
  BY <1>2 DEF Stays, Quiet, SameFamily, UsedIn, Awake
<1> QED BY <1>3, <1>4

\* exit() and a page fault.
LEMMA DieHandles ==
  ASSUME NEW s, Start(s), s.panic = "none", NEW st \in Dead,
         NEW n \in PID_FIRST_USER .. PID_LIMIT, FInv(s.pcbs, n)
  PROVE  LET t == dispatch(zombify(InState(s, s.current, st), s.current))
         IN  /\ Handles(s, t, n)
             /\ \A r \in Pcbs \ {s.current} :
                  s.pcbs[r].state = "READY" => Survives(t, r)
<1> DEFINE p == s.current
           i == InState(s, p, st)
           z == zombify(i, p)
<1>1. /\ p \in Pcbs /\ Sane(s, {p}, 1) /\ s.pcbs[p].state = "RUNNING"
      /\ s \in KStates
  BY StartType DEF Start
<1> HIDE DEF p
<1>2. /\ Kept(s.pcbs, z.pcbs, n) /\ z.panic = "none"
      /\ Stays(s.pcbs, z.pcbs) /\ StayReady(s.pcbs, z.pcbs, p)
  <2>1. s.pcbs[p].state \notin Dead \cup {"FREE"} /\ 1 \in Nat /\ 1 > 0
    BY <1>1 DEF Dead
  <2>2. \A r \in {p} \ {p} : s.pcbs[r].state # "WAITING"
    OBVIOUS
  <2> QED BY <1>1, <2>1, <2>2, BuryKept
<1>3. Sane(i, {p}, 1) /\ i.pcbs[p].state = st
  BY <1>1, ChangeState DEF States, Dead
<1> HIDE DEF i
<1>4. Ok(z, {p} \ {p}, 1 - 1)
  BY <1>1, <1>3, ZombifyOK DEF Dead
<1>5. {p} \ {p} = {} /\ 1 - 1 = 0
  OBVIOUS
<1>6. Sane(z, {}, 0)
  BY <1>2, <1>4, <1>5 DEF Ok
<1> HIDE DEF z
<1>7. Handles(s, dispatch(z), n)
  BY <1>2, <1>6, DispatchHandles
<1>8. ASSUME NEW r \in Pcbs \ {p}, s.pcbs[r].state = "READY"
      PROVE  Survives(dispatch(z), r)
  BY <1>2, <1>6, <1>8, DispatchSurvives DEF StayReady
<1> QED
  BY <1>7, <1>8 DEF z, i, p

\* The running process yields.
LEMMA YieldHandles ==
  ASSUME NEW s, Start(s), s.panic = "none", NEW n, FInv(s.pcbs, n)
  PROVE  LET t == dispatch(schedule(s, s.current))
         IN  /\ Handles(s, t, n)
             /\ \A r \in Pcbs : s.pcbs[r].state \in {"READY", "RUNNING"} => Survives(t, r)
<1> DEFINE p == s.current
           t == schedule(s, p)
<1>1. /\ p \in Pcbs /\ Sane(s, {p}, 1) /\ s.pcbs[p].state = "RUNNING"
      /\ s \in KStates
  BY StartType DEF Start
<1> HIDE DEF p
<1>2. Sane(t, {p} \ {p}, 1 - 1) /\ SameBut(s, t, p)
  BY <1>1, ScheduleOK
<1>3. {p} \ {p} = {} /\ 1 - 1 = 0
  OBVIOUS
<1>4. Sane(t, {}, 0) /\ t.panic = "none"
  BY <1>2, <1>3 DEF SameBut, SameCpu
<1>5. /\ \A r \in Pcbs \ {p} : t.pcbs[r] = s.pcbs[r]
      /\ SameFamily(s.pcbs[p], t.pcbs[p]) /\ t.pcbs[p].state = "READY"
      /\ t.pcbs[p].prog = s.pcbs[p].prog
  BY <1>1, SchedulePcbs
<1>6. Quiet(s.pcbs, t.pcbs)
  BY <1>1, ScheduleQuiet DEF Awake
<1> HIDE DEF t
<1>7. Kept(s.pcbs, t.pcbs, n)
  BY <1>6, QuietKept
<1>8. Stays(s.pcbs, t.pcbs)
  BY <1>1, <1>5 DEF Stays, UsedIn, SameFamily
<1>9. Handles(s, dispatch(t), n)
  BY <1>4, <1>7, <1>8, DispatchHandles
<1>10. ASSUME NEW r \in Pcbs, s.pcbs[r].state \in {"READY", "RUNNING"}
       PROVE  Survives(dispatch(t), r)
  <2>1. t.pcbs[r].state = "READY"
    <3>1. CASE r = p
      BY <1>5, <3>1
    <3>2. CASE r # p
      BY <1>1, <1>5, <1>10, <3>2 DEF Sane, Loose
    <3> QED BY <3>1, <3>2
  <2> QED BY <1>4, <2>1, DispatchSurvives
<1> QED
  BY <1>9, <1>10 DEF t, p

\* The running process blocks: u is s with its PCB marked for queue q.
LEMMA BlockHandles ==
  ASSUME NEW s, Start(s), s.panic = "none", NEW n, NEW u, NEW q \in QNames, NEW who,
         Sane(u, {s.current}, 1), SameBut(s, u, s.current),
         u.pcbs[s.current].pid = s.pcbs[s.current].pid,
         u.pcbs[s.current].prog = s.pcbs[s.current].prog,
         Placeable(u, s.current), Home(u.pcbs[s.current]) = q,
         Kept(s.pcbs, u.pcbs, n),
         NEW t, \/ t = dispatch(q_enque(u, q, s.current))
                \/ t = dispatch(enque_or_panic(u, q, s.current, who))
  PROVE  /\ Handles(s, t, n)
         /\ \A r \in Pcbs \ {s.current} : s.pcbs[r].state = "READY" => Survives(t, r)
<1> DEFINE p == s.current
           v == q_enque(u, q, p)
<1>1. p \in Pcbs /\ s.pcbs[p].state = "RUNNING"
  BY StartType DEF Start
<1>2. SameBut(s, u, p) /\ u.pcbs[p].pid = s.pcbs[p].pid
      /\ u.pcbs[p].prog = s.pcbs[p].prog
  OBVIOUS
<1>3. u.qnodes # 0 /\ Sane(v, {p} \ {p}, 1 - 1) /\ SamePcbs(u, v)
  <2>1. /\ Sane(u, {p}, 1) /\ Placeable(u, p) /\ Home(u.pcbs[p]) = q
        /\ 1 \in Nat /\ 1 > 0 /\ p \in {p}
    OBVIOUS
  <2> HIDE DEF p
  <2> QED BY <1>1, <2>1, EnqueOK
<1>4. {p} \ {p} = {} /\ 1 - 1 = 0
  OBVIOUS
<1>5. t = dispatch(v)
  BY <1>3 DEF enque_or_panic
<1> HIDE DEF p, v
<1>6. Sane(v, {}, 0) /\ v.panic = "none" /\ v.pcbs = u.pcbs
  BY <1>2, <1>3, <1>4 DEF SameBut, SameCpu, SamePcbs
<1>7. Stays(s.pcbs, u.pcbs)
  BY <1>1, <1>2 DEF Stays, SameBut, UsedIn
<1>8. Handles(s, dispatch(v), n)
  BY <1>6, <1>7, DispatchHandles
<1>9. ASSUME NEW r \in Pcbs \ {p}, s.pcbs[r].state = "READY"
      PROVE  Survives(dispatch(v), r)
  BY <1>2, <1>6, <1>9, DispatchSurvives DEF SameBut
<1> QED
  BY <1>5, <1>8, <1>9 DEF p, v

\* An interrupt makes the head of a queue of blocked processes ready.
LEMMA WakeHandles ==
  ASSUME NEW s, Start(s), s.panic = "none", NEW n, FInv(s.pcbs, n),
         NEW q \in {"sleeping", "reading"}, s.queues[q] # <<>>
  PROVE  LET t == schedule(q_deque(s, q), Head(s.queues[q]))
         IN  /\ Handles(s, t, n)
             /\ \A r \in Pcbs : s.pcbs[r].state \in {"READY", "RUNNING"} => Survives(t, r)
<1> DEFINE p == Head(s.queues[q])
           c == s.current
           t == q_deque(s, q)
           u == schedule(t, p)
<1>1. q \in QNames /\ c \in Pcbs /\ Sane(s, {c}, 1)
  BY StartType DEF QNames, Start
<1>2. /\ p \in Pcbs \ {c} /\ Home(s.pcbs[p]) = q
      /\ Sane(t, {c} \cup {p}, 1 + 1) /\ SamePcbs(s, t)
  <2> HIDE DEF c
  <2> QED BY <1>1, DequeOK
<1> HIDE DEF p, t, c
<1>3. s.pcbs[p].state \in {"SLEEPING", "BLOCKED"} /\ t.pcbs = s.pcbs /\ t.panic = "none"
  BY <1>1, <1>2 DEF Home, Ready, SamePcbs
<1>4. u.panic = "none"
  <2>1. 1 + 1 \in Nat /\ 1 + 1 > 0
    OBVIOUS
  <2>2. t.pcbs[p].state # "FREE" /\ p \in {c} \cup {p}
    BY <1>3
  <2> QED BY <1>2, <1>3, <2>1, <2>2, ScheduleOK, ZenonT(60) DEF SameBut, SameCpu
<1>5. /\ \A r \in Pcbs \ {p} : u.pcbs[r] = s.pcbs[r]
      /\ SameFamily(s.pcbs[p], u.pcbs[p]) /\ u.pcbs[p].state = "READY"
      /\ u.pcbs[p].prog = s.pcbs[p].prog
  BY <1>2, <1>3, SchedulePcbs DEF Sane
<1>6. Quiet(s.pcbs, u.pcbs)
  BY <1>2, <1>3, <1>5 DEF Quiet, SameFamily, Awake
<1> HIDE DEF u
<1>7. Kept(s.pcbs, u.pcbs, n)
  BY <1>6, QuietKept
<1>8. Stays(s.pcbs, u.pcbs)
  BY <1>2, <1>3, <1>5 DEF Stays, UsedIn, SameFamily
<1>9. ASSUME NEW r \in Pcbs, s.pcbs[r].state \in {"READY", "RUNNING"}
      PROVE  Survives(u, r)
  BY <1>3, <1>4, <1>5, <1>9 DEF Survives
<1> QED
  BY <1>7, <1>8, <1>9 DEF Handles, u, t, p

\* wait() with a zombie child.
LEMMA ReapHandles ==
  ASSUME NEW s, Start(s), s.panic = "none", NEW n, FInv(s.pcbs, n),
         s.pcbs[s.current].children # 0,
         NEW child \in Pcbs, s.pcbs[child].state = "ZOMBIE",
         s.pcbs[child].ppid = s.pcbs[s.current].pid
  PROVE  LET t == wait_reap(s, s.current, child)
         IN  /\ Handles(s, t, n)
             /\ \A r \in Pcbs : s.pcbs[r].state \in {"READY", "RUNNING"} => Survives(t, r)
<1> DEFINE p == s.current
           t == wait_reap(s, p, child)
           c == s.pcbs[p]
<1>1. /\ p \in Pcbs /\ s.pcbs[p].state = "RUNNING" /\ s.pcbs \in Tables
      /\ c \in PcbRecords
  BY StartType DEF Start, KStates, Tables
<1>2. PICK u \in KStates : /\ t = pcb_cleanup(u, child)
                           /\ SameBut(s, u, p)
                           /\ u.pcbs[p] = [c EXCEPT !.children = @ - 1]
  BY ReapOK
<1>3. t.panic = "none" /\ Done(t)
  BY ReapOK
<1>4. t.pcbs \in Tables
  BY <1>3 DEF Done, Sane, KStates, Tables
<1> HIDE DEF p, t
<1>5. /\ u.pcbs[p].children = c.children - 1 /\ u.pcbs[p].state = c.state
      /\ u.pcbs[p].pid = c.pid /\ u.pcbs[p].ppid = c.ppid /\ u.pcbs[p].prog = c.prog
  BY <1>1, <1>2 DEF PcbRecords
<1>6. Freed(t.pcbs[child]) /\ \A r \in Pcbs \ {child} : t.pcbs[r] = u.pcbs[r]
  BY <1>2, CleanupPcbs
<1>7. child # p
  BY <1>1
<1>8. Reaps(s.pcbs, t.pcbs, p, child)
  <2>1. c.children # 0 /\ s.pcbs[child].ppid = c.pid
    BY DEF p
  <2> QED
    BY <1>1, <1>2, <1>5, <1>6, <1>7, <2>1 DEF Reaps, SameBut, Awake
<1>9. Kept(s.pcbs, t.pcbs, n)
  BY <1>1, <1>4, <1>8, ReapsKept
<1>10. Stays(s.pcbs, t.pcbs)
  <2>1. t.pcbs[child].state = "FREE"
    BY <1>6 DEF Freed
  <2>2. \A r \in Pcbs \ {child, p} : t.pcbs[r] = s.pcbs[r]
    BY <1>2, <1>6 DEF SameBut
  <2>3. /\ t.pcbs[p].pid = c.pid /\ t.pcbs[p].prog = c.prog
        /\ t.pcbs[p].state = c.state
    BY <1>1, <1>5, <1>6, <1>7
  <2> HIDE DEF c
  <2> QED BY <1>1, <2>1, <2>2, <2>3 DEF Stays, UsedIn, c
<1>11. ASSUME NEW r \in Pcbs, s.pcbs[r].state \in {"READY", "RUNNING"}
       PROVE  Survives(t, r)
  BY <1>3, <1>8, <1>11 DEF Survives, Reaps
<1> QED
  BY <1>9, <1>10, <1>11 DEF Handles, t, p

(***************************************************************************)
(* kill(): the victim may be on any queue, or be the caller.               *)
(***************************************************************************)
LEMMA KillHandles ==
  ASSUME NEW s, Start(s), s.panic = "none", NEW victim \in Pcbs,
         NEW n \in PID_FIRST_USER .. PID_LIMIT, FInv(s.pcbs, n)
  PROVE  LET t == kill_victim(s, victim)
         IN  /\ Handles(s, t, n)
             /\ s.pcbs[victim].state # "FREE" =>
                  \A r \in Pcbs \ {s.current, victim} :
                    s.pcbs[r].state = "READY" => Survives(t, r)
<1> DEFINE pcb == s.pcbs[victim]
           off == IF pcb.state = "RUNNING" THEN s
                  ELSE q_remove(s, Home(pcb), victim, "_sys_kill")
           i == InState(off, victim, "KILLED")
           dead == zombify(i, victim)
           t == kill_victim(s, victim)
<1>1. /\ s \in KStates /\ pcb \in PcbRecords /\ s.current \in Pcbs
      /\ Sane(s, {s.current}, 1) /\ s.pcbs[s.current].state = "RUNNING"
  BY StartType DEF Start, KStates
<1>2. CASE pcb.state \in {"KILLED", "ZOMBIE"}
  <2>1. t = s
    BY <1>2 DEF kill_victim
  <2>2. Quiet(s.pcbs, s.pcbs) /\ Stays(s.pcbs, s.pcbs)
    BY DEF Quiet, SameFamily, Stays
  <2>3. Kept(s.pcbs, s.pcbs, n)
    BY <2>2, QuietKept
  <2> QED
    BY <2>1, <2>2, <2>3 DEF Handles, Survives
<1>3. CASE pcb.state \in {"FREE", "NEW"}
  <2>1. t = kpanic(s, "bad victim state") /\ pcb.state = "FREE"
    BY <1>1, <1>3 DEF kill_victim, Sane, Loose
  <2> QED
    BY <1>1, <2>1, PanicType DEF PanicNames, Panics, QueuePanics, Handles
<1>4. CASE pcb.state \notin {"KILLED", "ZOMBIE", "FREE", "NEW"}
  <2>1. t = IF victim = s.current THEN dispatch(dead) ELSE dead
    BY <1>4 DEF kill_victim, InState
  <2>2. CASE victim = s.current
    <3>1. off = s
      BY <1>1, <2>2
    <3> QED
      BY <2>1, <2>2, <3>1, DieHandles DEF Dead
  <2>3. CASE victim # s.current
    <3>1. pcb.state # "RUNNING"
      BY <1>1, <2>3 DEF Sane, Loose
    <3>2. off = q_remove(s, Home(pcb), victim, "_sys_kill")
      BY <3>1
    <3>3. Home(pcb) \in QNames
      BY <1>1, HomeType
    <3> HIDE DEF off
    <3>4. Sane(off, {s.current} \cup {victim}, 1 + 1) /\ SamePcbs(s, off)
      BY <1>1, <2>3, <3>2, <3>3, RemoveOK
    <3> DEFINE D == {s.current} \cup {victim}
    <3>5. /\ Sane(off, D, 2) /\ victim \in D /\ 2 \in Nat /\ 2 > 0
          /\ off.pcbs = s.pcbs /\ off.panic = "none"
      BY <3>4 DEF SamePcbs
    <3>6. \A r \in D \ {victim} : off.pcbs[r].state # "WAITING"
      BY <1>1, <3>5
    <3> HIDE DEF D
    <3>7. off.pcbs[victim].state \notin Dead \cup {"FREE"} /\ "KILLED" \in Dead
      BY <1>4, <3>5 DEF Dead
    <3>8. /\ Kept(s.pcbs, dead.pcbs, n) /\ dead.panic = "none"
          /\ Stays(s.pcbs, dead.pcbs) /\ StayReady(s.pcbs, dead.pcbs, victim)
      BY <3>5, <3>6, <3>7, BuryKept
    <3> HIDE DEF dead
    <3> QED
      BY <2>1, <2>3, <3>8 DEF Handles, Survives, StayReady
  <2> QED BY <2>2, <2>3
<1> QED
  BY <1>2, <1>3, <1>4

\* fork() without a stack for the child: the free PCB is as it was.
LEMMA NoStackHandles ==
  ASSUME NEW s, Start(s), s.panic = "none", NEW n, FInv(s.pcbs, n),
         s.queues["free"] # <<>>
  PROVE  LET t == pcb_dealloc(pcb_alloc(s), Head(s.queues["free"]))
         IN  /\ Handles(s, t, n)
             /\ \A r \in Pcbs : s.pcbs[r].state \in {"READY", "RUNNING"} => Survives(t, r)
<1> DEFINE new == Head(s.queues["free"])
           t == pcb_dealloc(pcb_alloc(s), new)
           c == s.pcbs[new]
<1>1. /\ new \in Pcbs /\ SameBut(s, t, new) /\ c.state = "FREE"
      /\ t.pcbs[new] = [c EXCEPT !.state = "FREE", !.pid = NO_PID, !.ppid = NO_PID]
  BY NoStackOK
<1> HIDE DEF new, t
<1>2. c \in PcbRecords
  BY <1>1, StartType DEF KStates
<1>3. c.pid = NO_PID /\ c.ppid = NO_PID
  BY <1>1 DEF FInv, Named
<1>4. SameFamily(c, t.pcbs[new]) /\ t.pcbs[new].state = c.state
  BY <1>1, <1>2, <1>3 DEF SameFamily, PcbRecords
<1>5. Quiet(s.pcbs, t.pcbs)
  BY <1>1, <1>4 DEF Quiet, SameBut, SameFamily
<1>6. Kept(s.pcbs, t.pcbs, n)
  BY <1>5, QuietKept
<1>7. Stays(s.pcbs, t.pcbs)
  BY <1>1, <1>4 DEF Stays, UsedIn, SameBut
<1>8. ASSUME NEW r \in Pcbs, s.pcbs[r].state \in {"READY", "RUNNING"}
      PROVE  Survives(t, r)
  BY <1>1, <1>8 DEF Survives, SameBut, SameCpu
<1> QED
  BY <1>6, <1>7, <1>8 DEF Handles, t, new

\* fork(): the child is ready, and everybody else keeps state and PID.
LEMMA ForkHandles ==
  ASSUME NEW s, Start(s), s.panic = "none",
         next_pid \in PID_FIRST_USER .. PID_LIMIT, next_pid < PID_LIMIT,
         FInv(s.pcbs, next_pid), s.queues["free"] # <<>>, s.stacks # <<>>
  PROVE  LET new == Head(s.queues["free"])
             t == fork_child(s, s.current)
         IN  /\ t.panic = "none" /\ Kept(s.pcbs, t.pcbs, next_pid + 1)
             /\ new \in Pcbs \ {s.current} /\ s.pcbs[new].state = "FREE"
             /\ t.pcbs[new].state = "READY" /\ t.pcbs[new].pid = to_pid(next_pid)
             /\ t.pcbs[new].prog = forked(s.pcbs[s.current].prog)
             /\ t.pcbs[s.current].prog = after_fork(s.pcbs[s.current].prog)
             /\ \A r \in Pcbs \ {new} : /\ t.pcbs[r].state = s.pcbs[r].state
                                        /\ t.pcbs[r].pid = s.pcbs[r].pid
             /\ \A r \in Pcbs \ {new, s.current} : t.pcbs[r].prog = s.pcbs[r].prog
<1> DEFINE new == Head(s.queues["free"])
           p == s.current
           c == s.pcbs[p]
           t == fork_child(s, p)
           a == to_pid(next_pid)
           b == Head(s.stacks)
           g == forked(c.prog)
           h == after_fork(c.prog)
           m == c.children + 1
<1>1. /\ p \in Pcbs /\ s.pcbs[p].state = "RUNNING" /\ s.pcbs \in Tables
      /\ c \in PcbRecords
  BY StartType DEF Start, KStates, Tables
<1>2. next_pid \in Nat
  BY NumberAssumption
<1>3. /\ Done(t) /\ t.panic = s.panic
      /\ new \in Pcbs \ {p} /\ s.pcbs[new].state = "FREE"
      /\ \E w \in KStates :
           /\ t = schedule(w, new)
           /\ w.pcbs[new] = [c EXCEPT !.pid = a, !.ppid = c.pid, !.stack = b,
                                      !.prog = forked(@)]
           /\ w.pcbs[p] = [c EXCEPT !.children = @ + 1, !.prog = after_fork(@)]
           /\ \A r \in Pcbs \ {p, new} : w.pcbs[r] = s.pcbs[r]
  BY <1>2, ForkOK
<1>4. PICK w \in KStates :
           /\ t = schedule(w, new)
           /\ w.pcbs[new] = [c EXCEPT !.pid = a, !.ppid = c.pid, !.stack = b,
                                      !.prog = g]
           /\ w.pcbs[p] = [c EXCEPT !.children = m, !.prog = h]
           /\ \A r \in Pcbs \ {p, new} : w.pcbs[r] = s.pcbs[r]
  BY <1>1, <1>3 DEF PcbRecords
<1>5. t.pcbs \in Tables
  BY <1>3 DEF Done, Sane, KStates, Tables
<1> HIDE DEF p, new, t, a, b, g, h, m
<1> DEFINE q == s.pcbs
<1>10. new \in Pcbs /\ new # p /\ q[new].state = "FREE" /\ t.panic = "none"
  BY <1>3
<1>6. /\ w.pcbs[new].pid = a /\ w.pcbs[new].ppid = c.pid /\ w.pcbs[new].prog = g
      /\ w.pcbs[new].children = c.children
      /\ w.pcbs[p].pid = c.pid /\ w.pcbs[p].ppid = c.ppid /\ w.pcbs[p].prog = h
      /\ w.pcbs[p].children = m /\ w.pcbs[p].state = c.state
  BY <1>1, <1>4 DEF PcbRecords
<1>7. /\ \A r \in Pcbs \ {new} : t.pcbs[r] = w.pcbs[r]
      /\ SameFamily(w.pcbs[new], t.pcbs[new]) /\ t.pcbs[new].state = "READY"
      /\ t.pcbs[new].prog = w.pcbs[new].prog
  <2>1. t = schedule(w, new) /\ w \in KStates
    BY <1>4
  <2> QED BY <1>10, <2>1, SchedulePcbs
<1>8. Forks(s.pcbs, t.pcbs, p, new, a)
  <2>1. \A r \in Pcbs \ {p, new} : t.pcbs[r] = q[r]
    BY <1>4, <1>7
  <2>2. /\ t.pcbs[new].pid = a /\ t.pcbs[new].ppid = c.pid
        /\ t.pcbs[new].children = c.children
    BY <1>6, <1>7 DEF SameFamily
  <2>3. /\ t.pcbs[p].pid = c.pid /\ t.pcbs[p].ppid = c.ppid
        /\ t.pcbs[p].children = m /\ t.pcbs[p].state = c.state
    BY <1>1, <1>6, <1>7, <1>10
  <2> QED
    BY <1>1, <1>7, <1>10, <2>1, <2>2, <2>3 DEF Forks, Awake, m
<1>9. Kept(s.pcbs, t.pcbs, next_pid + 1)
  BY <1>1, <1>5, <1>8, <1>10, ForksKept DEF a
<1>11. /\ t.pcbs[new].pid = a /\ t.pcbs[new].prog = g /\ t.pcbs[p].prog = h
       /\ \A r \in Pcbs \ {new} : t.pcbs[r].state = q[r].state /\ t.pcbs[r].pid = q[r].pid
  BY <1>8, <1>1, <1>6, <1>7, <1>10 DEF Forks
<1>12. \A r \in Pcbs \ {new, p} : t.pcbs[r].prog = q[r].prog
  BY <1>4, <1>7
<1> QED
  BY <1>7, <1>9, <1>10, <1>11, <1>12 DEF p, new, t, a, g, h

-----------------------------------------------------------------------------
(* Steps *)

FamilyInv == FInv(pcbs, next_pid)

\* what init and idle run before there are other processes, and after
Idlers == {"boot", "idleboot", "idle"}

(***************************************************************************)
(* The kinds of steps     , by what they do to the family and to a process *)
(* that is ready: any call but the next three, kill(), a fork() that makes *)
(* a child, and exec().                                                    *)
(***************************************************************************)
Ordinary(t) ==
  /\ Return(t) /\ next_pid' = next_pid /\ Handles(K, t, next_pid)
  /\ \A r \in Pcbs : \/ r # current /\ pcbs[r].state = "READY"
                     \/ r = current /\ pcbs[r].prog \in Idlers
                     => Survives(t, r)

Kills(t, pid, victim) ==
  /\ Return(t) /\ next_pid' = next_pid /\ Handles(K, t, next_pid)
  /\ pcbs[current].prog = "user" /\ pcbs[victim].pid = pid
  /\ pcbs[victim].state # "FREE" =>
       \A r \in Pcbs \ {current, victim} : pcbs[r].state = "READY" => Survives(t, r)

Begets(t, new) ==
  /\ Return(t) /\ next_pid' = next_pid + 1 /\ Kept(pcbs, t.pcbs, next_pid + 1)
  /\ t.panic = "none" /\ pcbs[current].prog \in {"boot", "init", "user"}
  /\ new # current /\ pcbs[new].state = "FREE"
  /\ t.pcbs[new].state = "READY" /\ t.pcbs[new].pid = to_pid(next_pid)
  /\ t.pcbs[new].prog = forked(pcbs[current].prog)
  /\ t.pcbs[current].prog = after_fork(pcbs[current].prog)
  /\ \A r \in Pcbs \ {new} : /\ t.pcbs[r].state = pcbs[r].state
                             /\ t.pcbs[r].pid = pcbs[r].pid
  /\ \A r \in Pcbs \ {new, current} : t.pcbs[r].prog = pcbs[r].prog

Execs(t) ==
  /\ Return(t) /\ next_pid' = next_pid /\ Quiet(pcbs, t.pcbs) /\ t.panic = "none"
  /\ pcbs[current].prog \in {"user", "idleboot"}
  /\ t.pcbs[current].prog = IF pcbs[current].prog = "user" THEN "user" ELSE "idle"
  /\ \A r \in Pcbs : t.pcbs[r].state = pcbs[r].state
  /\ \A r \in Pcbs \ {current} : t.pcbs[r].prog = pcbs[r].prog

\* memory_map.c stops the machine, or it stands still.
Stops ==
  /\ UNCHANGED <<pcbs, next_pid>>
  /\ panic' = panic \/ panic' \in MemoryPanics

\* A handler that returns without doing anything.
LEMMA Nothing ==
  ASSUME IInv, FamilyInv, panic = "none", Return(K), next_pid' = next_pid
  PROVE  Ordinary(K)
<1>1. Quiet(pcbs, pcbs) /\ Stays(pcbs, pcbs)
  BY DEF Quiet, SameFamily, Stays
<1>2. Handles(K, K, next_pid)
  BY <1>1, QuietKept, KFields DEF Handles, FamilyInv
<1>3. pcbs[current].state = "RUNNING"
  BY DEF IInv, QueueDiscipline
<1> QED
  BY <1>2, <1>3, KFields DEF Ordinary, Survives

(***************************************************************************)
(* Every step of the system is one of these.                               *)
(***************************************************************************)
LEMMA StepKinds ==
  ASSUME IInv, FamilyInv, Next
  PROVE  \/ \E t : Ordinary(t)
         \/ \E t : \E pid \in KillArgs, victim \in Pcbs : Kills(t, pid, victim)
         \/ \E t : \E new \in Pcbs : Begets(t, new)
         \/ \E t : Execs(t)
         \/ Stops
<1> DEFINE SomeKind ==
             \/ \E t : Ordinary(t)
             \/ \E t : \E pid \in KillArgs, victim \in Pcbs : Kills(t, pid, victim)
             \/ \E t : \E new \in Pcbs : Begets(t, new)
             \/ \E t : Execs(t)
             \/ Stops
<1>1. /\ Start(K) /\ K.current = current /\ current \in Pcbs /\ K \in KStates
      /\ Sane(K, {current}, 1) /\ K.pcbs[current].state = "RUNNING"
      /\ K.pcbs[current] \in PcbRecords
  BY InvStart, StartType, KFields DEF Start
<1>2. K.queues = queues /\ K.pcbs = pcbs /\ K.stacks = free_stacks /\ K.panic = panic
  BY KFields
<1>3. /\ now \in 0 .. TIME_MOD - 1 /\ next_pid \in PID_FIRST_USER .. PID_LIMIT
      /\ q_ticks \in 1 .. QUANT_STD
  BY DEF IInv, TypeOK
<1>19. CASE Halted
  BY <1>19 DEF Halted, vars, Stops
<1> SUFFICES ASSUME ~Halted PROVE SomeKind
  BY <1>19
<1>4. panic = "none"
  BY DEF Next, sys_exit, page_fault_isr, sys_read_block, sys_sleep, sys_kill, sys_wait,
         sys_fork, sys_exec, sys_exec_no_page, ExecCalls, sys_mmap, sio_isr_reader,
         clk_isr_tick, clk_isr_wake, clk_isr_charge, Calls, Running
<1>20. ASSUME NEW who \in MemoryPanics, Return(kpanic(K, who)), next_pid' = next_pid
       PROVE  Stops
  <2>1. kpanic(K, who).panic = who /\ who # "none"
    BY <1>1, <1>2, <1>4 DEF kpanic, KStates, MemoryPanics
  <2> QED BY <1>20, <2>1 DEF Return, Stops
<1>5. /\ FInv(K.pcbs, next_pid) /\ K.panic = "none"
  BY <1>2, <1>4 DEF FamilyInv
<1>6. CASE sys_exit
  <2> DEFINE t == dispatch(zombify(InState(K, current, "ZOMBIE"), current))
  <2>1. /\ Handles(K, t, next_pid)
        /\ \A r \in Pcbs \ {current} : K.pcbs[r].state = "READY" => Survives(t, r)
    BY <1>1, <1>3, <1>5, DieHandles DEF Dead
  <2>2. Return(t) /\ next_pid' = next_pid /\ pcbs[current].prog = "user"
    BY <1>6 DEF sys_exit, InState, Calls
  <2> HIDE DEF t
  <2>3. Ordinary(t)
    BY <1>2, <2>1, <2>2 DEF Ordinary, Idlers
  <2> QED BY <1>4, <2>3
<1>7. CASE page_fault_isr
  <2> DEFINE t == dispatch(zombify(InState(K, current, "KILLED"), current))
  <2>1. /\ Handles(K, t, next_pid)
        /\ \A r \in Pcbs \ {current} : K.pcbs[r].state = "READY" => Survives(t, r)
    BY <1>1, <1>3, <1>5, DieHandles DEF Dead
  <2>2. Return(t) /\ next_pid' = next_pid /\ pcbs[current].prog = "user"
    BY <1>7 DEF page_fault_isr, InState, Calls
  <2> HIDE DEF t
  <2>3. Ordinary(t)
    BY <1>2, <2>1, <2>2 DEF Ordinary, Idlers
  <2> QED BY <1>4, <2>3
<1>8. CASE sys_read_block
  <2> DEFINE i == InState(K, current, "BLOCKED")
             u == q_enque(i, "reading", current)
             t == dispatch(u)
             c == [K.pcbs[current] EXCEPT !.state = "BLOCKED"]
  <2>1. /\ Sane(i, {current}, 1) /\ SameBut(K, i, current)
        /\ i.pcbs[current].state = "BLOCKED"
    BY <1>1, ChangeState DEF States
  <2>2. i.pcbs[current] = c
    BY <1>1 DEF InState, KStates
  <2>3. SameFamily(K.pcbs[current], c) /\ c.prog = K.pcbs[current].prog
    BY <1>1 DEF PcbRecords, SameFamily
  <2>4. K.qnodes # 0
    BY <1>8, KFields DEF sys_read_block, IInv, TypeOK
  <2>5. u = [q_enque(K, "reading", current) EXCEPT !.pcbs[current].state = "BLOCKED"]
    BY <1>1, <2>4 DEF q_enque, InState, KStates
  <2>6. Return(t) /\ next_pid' = next_pid /\ pcbs[current].prog = "user"
    <3> HIDE DEF u
    <3> QED BY <1>8, <2>5 DEF sys_read_block, Calls
  <2> HIDE DEF i, c
  <2>7. /\ "reading" \in QNames /\ Placeable(i, current)
        /\ Home(i.pcbs[current]) = "reading"
    BY <2>1 DEF QNames, Placeable, Home
  <2>8. Quiet(K.pcbs, i.pcbs)
    BY <1>1, <2>1, <2>2, <2>3 DEF Quiet, SameBut, SameFamily, Awake
  <2>9. Kept(K.pcbs, i.pcbs, next_pid)
    BY <1>5, <2>8, QuietKept
  <2>10. /\ Handles(K, t, next_pid)
         /\ \A r \in Pcbs \ {current} : K.pcbs[r].state = "READY" => Survives(t, r)
    <3>1. /\ i.pcbs[K.current].pid = K.pcbs[K.current].pid
          /\ i.pcbs[K.current].prog = K.pcbs[K.current].prog
      BY <1>1, <2>2, <2>3 DEF SameFamily
    <3> QED BY <1>1, <1>5, <2>1, <2>7, <2>9, <3>1, BlockHandles
  <2> HIDE DEF t
  <2>11. Ordinary(t)
    BY <1>2, <2>6, <2>10 DEF Ordinary, Idlers
  <2> QED BY <1>4, <2>11
<1>9. ASSUME NEW msec \in SleepArgs, sys_sleep(msec) PROVE \E t : Ordinary(t)
  <2>1. next_pid' = next_pid /\ pcbs[current].prog = "user"
    BY <1>9 DEF sys_sleep, Calls
  <2>2. CASE msec = 0
    <3> DEFINE t == dispatch(schedule(K, current))
    <3>1. /\ Handles(K, t, next_pid)
          /\ \A r \in Pcbs : K.pcbs[r].state \in {"READY", "RUNNING"} => Survives(t, r)
      BY <1>1, <1>5, YieldHandles
    <3>2. Return(t)
      BY <1>9, <2>2 DEF sys_sleep
    <3> HIDE DEF t
    <3>3. Ordinary(t)
      BY <1>2, <2>1, <3>1, <3>2 DEF Ordinary, Idlers
    <3> QED BY <3>3
  <2>3. CASE msec # 0
    <3> DEFINE i == (now + msec) % TIME_MOD
               c == [K.pcbs[current] EXCEPT !.wakeup = i, !.state = "SLEEPING"]
               v == WithPcb(K, current, c)
               u == [K EXCEPT !.pcbs[current].wakeup = i,
                              !.pcbs[current].state = "SLEEPING"]
               t == dispatch(enque_or_panic(u, "sleeping", current, "_sys_sleep"))
    <3>1. i \in Nat
      BY <1>3, NumberAssumption, ArgAssumption
    <3>2. Return(t)
      BY <1>9, <2>3 DEF sys_sleep
    <3> HIDE DEF i
    <3>3. /\ c \in PcbRecords /\ c.stack = K.pcbs[current].stack
          /\ c.state = "SLEEPING" /\ SameFamily(K.pcbs[current], c)
          /\ c.prog = K.pcbs[current].prog
      BY <1>1, <3>1 DEF PcbRecords, States, SameFamily
    <3>4. v = u
      BY <1>1 DEF WithPcb, KStates, PcbRecords
    <3> HIDE DEF c, u
    <3>5. Sane(v, {current}, 1) /\ v.pcbs[current] = c /\ SameBut(K, v, current)
      BY <1>1, <3>3, Change, SetPcb
    <3> HIDE DEF v
    <3>6. /\ "sleeping" \in QNames /\ Placeable(v, current)
          /\ Home(v.pcbs[current]) = "sleeping"
      BY <3>3, <3>5 DEF QNames, Placeable, Home
    <3>7. Quiet(K.pcbs, v.pcbs)
      BY <1>1, <3>3, <3>5 DEF Quiet, SameBut, SameFamily, Awake
    <3>8. Kept(K.pcbs, v.pcbs, next_pid)
      BY <1>5, <3>7, QuietKept
    <3>9. t = dispatch(enque_or_panic(v, "sleeping", current, "_sys_sleep"))
      BY <3>4
    <3> HIDE DEF t
    <3>10. /\ Handles(K, t, next_pid)
           /\ \A r \in Pcbs \ {current} : K.pcbs[r].state = "READY" => Survives(t, r)
      <4>1. /\ v.pcbs[K.current].pid = K.pcbs[K.current].pid
            /\ v.pcbs[K.current].prog = K.pcbs[K.current].prog
        BY <1>1, <3>3, <3>5 DEF SameFamily
      <4> QED BY <1>1, <1>5, <3>5, <3>6, <3>8, <3>9, <4>1, BlockHandles
    <3>11. Ordinary(t)
      BY <1>2, <2>1, <3>2, <3>10 DEF Ordinary, Idlers
    <3> QED BY <3>11
  <2> QED BY <2>2, <2>3
<1>10. ASSUME NEW pid \in KillArgs, sys_kill(pid)
       PROVE  \E t : Ordinary(t) \/ \E victim \in Pcbs : Kills(t, pid, victim)
  <2> DEFINE found == HavingPid(K, pid)
             victim == First(found)
  <2>1. /\ Return(IF found = {} THEN K ELSE kill_victim(K, victim))
        /\ next_pid' = next_pid /\ pcbs[current].prog = "user"
    BY <1>10 DEF sys_kill, Calls
  <2>2. CASE found = {}
    <3>1. Return(K)
      BY <2>1, <2>2
    <3> QED BY <1>4, <2>1, <3>1, Nothing
  <2>3. CASE found # {}
    <3>1. found \subseteq Nat /\ found \subseteq Pcbs
      BY DEF HavingPid, Pcbs
    <3>2. victim \in found
      <4> HIDE DEF found
      <4> QED BY <2>3, <3>1, FirstIn
    <3>3. victim \in Pcbs /\ pcbs[victim].pid = pid
      BY <1>2, <3>2 DEF HavingPid
    <3> DEFINE t == kill_victim(K, victim)
    <3>4. Return(t)
      BY <2>1, <2>3
    <3> HIDE DEF found, victim
    <3>5. /\ Handles(K, t, next_pid)
          /\ K.pcbs[victim].state # "FREE" =>
               \A r \in Pcbs \ {current, victim} :
                 K.pcbs[r].state = "READY" => Survives(t, r)
      BY <1>1, <1>3, <1>5, <3>3, KillHandles
    <3> HIDE DEF t
    <3>6. Kills(t, pid, victim)
      BY <1>2, <2>1, <3>3, <3>4, <3>5 DEF Kills
    <3> QED BY <3>3, <3>6
  <2> QED BY <2>2, <2>3
<1>11. CASE sys_wait
  <2> DEFINE zombies == zombies_of(K, current)
             child == First(zombies)
  <2>1. /\ Return(IF pcbs[current].children = 0 THEN K
                  ELSE IF zombies # {} THEN wait_reap(K, current, child)
                  ELSE wait_block(K, current))
        /\ next_pid' = next_pid /\ pcbs[current].prog \in {"init", "user"}
    BY <1>11 DEF sys_wait, Calls
  <2>2. CASE pcbs[current].children = 0
    <3>1. Return(K)
      BY <2>1, <2>2
    <3> QED BY <1>4, <2>1, <3>1, Nothing
  <2>3. CASE pcbs[current].children # 0 /\ zombies # {}
    <3>1. /\ zombies \subseteq Nat /\ zombies \subseteq Pcbs
          /\ \A c \in zombies : /\ K.pcbs[c].state = "ZOMBIE"
                                /\ K.pcbs[c].ppid = K.pcbs[current].pid
      BY DEF zombies_of, ChildrenOf, Pcbs
    <3> HIDE DEF zombies
    <3>2. /\ child \in Pcbs /\ K.pcbs[child].state = "ZOMBIE"
          /\ K.pcbs[child].ppid = K.pcbs[current].pid
      BY <2>3, <3>1, FirstIn
    <3> DEFINE t == wait_reap(K, current, child)
    <3>3. Return(t)
      BY <2>1, <2>3
    <3> HIDE DEF child
    <3>4. /\ Handles(K, t, next_pid)
          /\ \A r \in Pcbs : K.pcbs[r].state \in {"READY", "RUNNING"} => Survives(t, r)
      BY <1>1, <1>2, <1>5, <2>3, <3>2, ReapHandles
    <3> HIDE DEF t
    <3>5. Ordinary(t)
      BY <1>2, <2>1, <3>3, <3>4 DEF Ordinary, Idlers
    <3> QED BY <1>4, <3>5
  <2>4. CASE pcbs[current].children # 0 /\ zombies = {}
    <3> DEFINE i == InState(K, current, "WAITING")
               c == [K.pcbs[current] EXCEPT !.state = "WAITING"]
               t == wait_block(K, current)
    <3>1. /\ Sane(i, {current}, 1) /\ SameBut(K, i, current)
          /\ i.pcbs[current].state = "WAITING"
      BY <1>1, ChangeState DEF States
    <3>2. i.pcbs[current] = c
      BY <1>1 DEF InState, KStates
    <3>3. SameFamily(K.pcbs[current], c) /\ c.prog = K.pcbs[current].prog
      BY <1>1 DEF PcbRecords, SameFamily
    <3>4. t = dispatch(enque_or_panic(i, "waiting", current, "_sys_wait"))
      BY DEF wait_block, InState
    <3>5. Return(t)
      BY <2>1, <2>4
    <3>6. \A x \in KidsIn(K.pcbs, current) : K.pcbs[x].state # "ZOMBIE"
      BY <2>4 DEF KidsIn, UsedIn, zombies_of, ChildrenOf
    <3> HIDE DEF i, c, t
    <3>7. /\ "waiting" \in QNames /\ Placeable(i, current)
          /\ Home(i.pcbs[current]) = "waiting"
      BY <3>1 DEF QNames, Placeable, Home
    <3>8. Waits(K.pcbs, i.pcbs, current)
      BY <1>1, <3>1, <3>2, <3>3, <3>6 DEF Waits, SameBut, SameFamily, Awake
    <3>9. Kept(K.pcbs, i.pcbs, next_pid)
      BY <1>1, <1>5, <3>8, WaitsKept
    <3>10. /\ Handles(K, t, next_pid)
           /\ \A r \in Pcbs \ {current} : K.pcbs[r].state = "READY" => Survives(t, r)
      <4>1. /\ i.pcbs[K.current].pid = K.pcbs[K.current].pid
            /\ i.pcbs[K.current].prog = K.pcbs[K.current].prog
        BY <1>1, <3>2, <3>3 DEF SameFamily
      <4> QED BY <1>1, <1>5, <3>1, <3>4, <3>7, <3>9, <4>1, BlockHandles
    <3>11. Ordinary(t)
      BY <1>2, <2>1, <3>5, <3>10 DEF Ordinary, Idlers
    <3> QED BY <1>4, <3>11
  <2> QED BY <2>2, <2>3, <2>4
<1>12. CASE sys_fork
  <2>1. pcbs[current].prog \in {"boot", "init", "user"}
    BY <1>12 DEF sys_fork, Calls
  <2>2. CASE next_pid >= PID_LIMIT \/ queues["free"] = <<>>
    <3>1. Return(K) /\ next_pid' = next_pid
      BY <1>12, <2>2 DEF sys_fork
    <3> QED BY <1>4, <3>1, Nothing
  <2>3. CASE ~(next_pid >= PID_LIMIT \/ queues["free"] = <<>>) /\ free_stacks = <<>>
    <3> DEFINE t == pcb_dealloc(pcb_alloc(K), Head(queues["free"]))
    <3>1. Return(t) /\ next_pid' = next_pid
      BY <1>12, <2>3 DEF sys_fork
    <3>2. /\ Handles(K, t, next_pid)
          /\ \A r \in Pcbs : K.pcbs[r].state \in {"READY", "RUNNING"} => Survives(t, r)
      BY <1>1, <1>2, <1>5, <2>3, NoStackHandles
    <3> HIDE DEF t
    <3>3. Ordinary(t)
      BY <1>1, <1>2, <3>1, <3>2 DEF Ordinary
    <3> QED BY <1>4, <3>3
  <2>4. CASE ~(next_pid >= PID_LIMIT \/ queues["free"] = <<>>) /\ free_stacks # <<>>
    <3> DEFINE t == fork_child(K, current)
               new == Head(queues["free"])
    <3>1. Return(t) /\ next_pid' = next_pid + 1
      BY <1>12, <2>4 DEF sys_fork
    <3>2. next_pid < PID_LIMIT
      BY <1>3, <2>4, NumberAssumption
    <3>3. /\ t.panic = "none" /\ Kept(pcbs, t.pcbs, next_pid + 1)
          /\ new \in Pcbs \ {current} /\ pcbs[new].state = "FREE"
          /\ t.pcbs[new].state = "READY" /\ t.pcbs[new].pid = to_pid(next_pid)
          /\ t.pcbs[new].prog = forked(pcbs[current].prog)
          /\ t.pcbs[current].prog = after_fork(pcbs[current].prog)
          /\ \A r \in Pcbs \ {new} : /\ t.pcbs[r].state = pcbs[r].state
                                     /\ t.pcbs[r].pid = pcbs[r].pid
          /\ \A r \in Pcbs \ {new, current} : t.pcbs[r].prog = pcbs[r].prog
      BY <1>1, <1>2, <1>3, <1>5, <2>4, <3>2, ForkHandles
    <3> HIDE DEF t, new
    <3>4. Begets(t, new)
      BY <2>1, <3>1, <3>3, Zenon DEF Begets
    <3> QED BY <1>4, <3>3, <3>4
  <2> QED BY <2>2, <2>3, <2>4
<1>13. ASSUME NEW prio \in PrioArgs \cup {P_MIN}, sys_exec(prio) PROVE \E t : Execs(t)
  <2> DEFINE g == IF K.pcbs[current].prog = "user" THEN K.pcbs[current].prog
                  ELSE "idle"
             c == [K.pcbs[current] EXCEPT !.prio = prio, !.prog = g]
             v == WithPcb(K, current, c)
             u == [K EXCEPT !.pcbs[current].prio = prio,
                            !.pcbs[current].prog = g]
  <2>1. g \in Programs /\ prio \in Int
    BY <1>1, ArgAssumption DEF PcbRecords, Programs, P_MIN
  <2>2. Return(u) /\ next_pid' = next_pid /\ pcbs[current].prog \in {"user", "idleboot"}
    BY <1>13 DEF sys_exec, ExecCalls, Calls
  <2>3. g = IF pcbs[current].prog = "user" THEN "user" ELSE "idle"
    BY <1>2
  <2> HIDE DEF g
  <2>4. /\ c \in PcbRecords /\ c.prog = g /\ c.state = "RUNNING"
        /\ SameFamily(K.pcbs[current], c)
    BY <1>1, <2>1 DEF PcbRecords, SameFamily
  <2>5. v = u
    BY <1>1 DEF WithPcb, KStates, PcbRecords
  <2> HIDE DEF c, u
  <2>6. v.pcbs[current] = c /\ SameBut(K, v, current)
    BY <1>1, <2>4, SetPcb
  <2> HIDE DEF v
  <2>7. /\ \A r \in Pcbs \ {current} : v.pcbs[r] = pcbs[r]
        /\ v.panic = "none" /\ pcbs[current].state = "RUNNING"
        /\ SameFamily(pcbs[current], c)
    BY <1>1, <1>2, <1>5, <2>4, <2>6 DEF SameBut, SameCpu
  <2>8. Quiet(pcbs, v.pcbs)
    BY <2>4, <2>6, <2>7 DEF Quiet, SameFamily
  <2>9. Execs(v)
    BY <2>2, <2>3, <2>4, <2>5, <2>6, <2>7, <2>8 DEF Execs
  <2> QED BY <2>9
<1>14. ASSUME NEW q \in {"sleeping", "reading"}, queues[q] # <<>>,
              Return(schedule(q_deque(K, q), Head(queues[q]))), next_pid' = next_pid
       PROVE  \E t : Ordinary(t)
  <2> DEFINE t == schedule(q_deque(K, q), Head(queues[q]))
  <2>1. /\ Handles(K, t, next_pid)
        /\ \A r \in Pcbs : K.pcbs[r].state \in {"READY", "RUNNING"} => Survives(t, r)
    BY <1>1, <1>2, <1>5, <1>14, WakeHandles
  <2>2. Return(t)
    BY <1>14
  <2> HIDE DEF t
  <2>3. Ordinary(t)
    BY <1>1, <1>2, <1>14, <2>1, <2>2 DEF Ordinary
  <2> QED BY <2>3
<1>15. CASE sio_isr_reader
  BY <1>4, <1>14, <1>15 DEF sio_isr_reader
<1>16. CASE clk_isr_tick
  <2>1. Return(K) /\ next_pid' = next_pid
    BY <1>4, <1>16, KFields DEF clk_isr_tick, Return
  <2> QED BY <1>4, <2>1, Nothing
<1>17. CASE clk_isr_wake
  BY <1>4, <1>14, <1>17 DEF clk_isr_wake, Overdue
<1>18. CASE clk_isr_charge
  <2>1. next_pid' = next_pid
    BY <1>18 DEF clk_isr_charge
  <2>2. CASE q_ticks - 1 < 1
    <3> DEFINE t == dispatch(schedule(K, current))
    <3>1. /\ Handles(K, t, next_pid)
          /\ \A r \in Pcbs : K.pcbs[r].state \in {"READY", "RUNNING"} => Survives(t, r)
      BY <1>1, <1>5, YieldHandles
    <3>2. Return(t)
      BY <1>18, <2>2 DEF clk_isr_charge
    <3> HIDE DEF t
    <3>3. Ordinary(t)
      BY <1>1, <1>2, <2>1, <3>1, <3>2 DEF Ordinary
    <3> QED BY <1>4, <3>3
  <2>3. CASE ~(q_ticks - 1 < 1)
    <3> DEFINE t == [K EXCEPT !.ticks = @ - 1]
    <3>1. Return(t)
      BY <1>18, <2>3 DEF clk_isr_charge
    <3>2. t.pcbs = pcbs /\ t.panic = "none"
      BY <1>4 DEF K
    <3> HIDE DEF t
    <3>3. Quiet(pcbs, pcbs) /\ Stays(pcbs, pcbs)
      BY DEF Quiet, SameFamily, Stays
    <3>4. Kept(pcbs, t.pcbs, next_pid) /\ Stays(pcbs, t.pcbs)
      BY <3>2, <3>3, QuietKept DEF FamilyInv
    <3>5. Ordinary(t)
      BY <1>1, <1>2, <2>1, <3>1, <3>2, <3>4 DEF Ordinary, Handles, Survives
    <3> QED BY <1>4, <3>5
  <2> QED BY <2>2, <2>3
<1>21. ASSUME NEW prio \in PrioArgs \cup {P_MIN}, sys_exec_no_page(prio) PROVE Stops
  BY <1>20, <1>21 DEF sys_exec_no_page, MemoryPanics
<1>22. CASE sys_mmap
  BY <1>4, <1>20, <1>22, Nothing DEF sys_mmap, MemoryPanics
<1> QED
  BY <1>6, <1>7, <1>8, <1>9, <1>10, <1>11, <1>12, <1>13, <1>15, <1>16, <1>17,
     <1>18, <1>21, <1>22 DEF Next

\* A handler's end, as far as the family goes.
LEMMA ReturnFamily ==
  ASSUME FamilyInv, NEW t, NEW n, Return(t), next_pid' = n,
         t.panic = "none" => Kept(pcbs, t.pcbs, n),
         t.panic # "none" => n = next_pid
  PROVE  FamilyInv' /\ Fate(pcbs, pcbs')
<1>1. CASE t.panic = "none"
  <2>1. pcbs' = t.pcbs
    BY <1>1 DEF Return
  <2>2. FInv(t.pcbs, n) /\ Fate(pcbs, t.pcbs)
    BY <1>1 DEF Kept
  <2>3. FInv(pcbs', next_pid')
    BY <2>1, <2>2
  <2> QED BY <2>1, <2>2, <2>3 DEF FamilyInv
<1>2. CASE t.panic # "none"
  <2>1. pcbs' = pcbs /\ next_pid' = next_pid
    BY <1>2 DEF Return
  <2>2. FInv(pcbs', next_pid')
    BY <2>1 DEF FamilyInv
  <2>3. Fate(pcbs, pcbs)
    BY DEF Fate, Awake
  <2> QED BY <2>1, <2>2, <2>3 DEF FamilyInv
<1> QED BY <1>1, <1>2

(***************************************************************************)
(* Every step keeps the family invariant, and whoever was dead or waiting  *)
(* meets the fate Fate allows.                                             *)
(***************************************************************************)
LEMMA FamilyStep ==
  ASSUME IInv, FamilyInv, [Next]_vars
  PROVE  FamilyInv' /\ Fate(pcbs, pcbs')
<1>1. K.pcbs = pcbs
  BY KFields
<1>2. ASSUME NEW t, Return(t), next_pid' = next_pid, Handles(K, t, next_pid)
      PROVE  FamilyInv' /\ Fate(pcbs, pcbs')
  <2>1. t.panic = "none" => Kept(pcbs, t.pcbs, next_pid)
    BY <1>1, <1>2 DEF Handles
  <2> QED BY <1>2, <2>1, ReturnFamily
<1>4. ASSUME UNCHANGED <<pcbs, next_pid>> PROVE FamilyInv' /\ Fate(pcbs, pcbs')
  <2>1. pcbs' = pcbs /\ next_pid' = next_pid
    BY <1>4
  <2>2. FInv(pcbs', next_pid')
    BY <2>1 DEF FamilyInv
  <2>3. Fate(pcbs, pcbs)
    BY DEF Fate, Awake
  <2> QED BY <2>1, <2>2, <2>3 DEF FamilyInv
<1>3. CASE Next
  <2>1. CASE \E t : Ordinary(t)
    BY <1>2, <2>1 DEF Ordinary
  <2>2. CASE \E t : \E pid \in KillArgs, victim \in Pcbs : Kills(t, pid, victim)
    BY <1>2, <2>2 DEF Kills
  <2>3. CASE \E t : \E new \in Pcbs : Begets(t, new)
    <3>1. PICK t : \E new \in Pcbs : Begets(t, new)
      BY <2>3
    <3>2. Return(t) /\ next_pid' = next_pid + 1 /\ Kept(pcbs, t.pcbs, next_pid + 1)
          /\ t.panic = "none"
      BY <3>1 DEF Begets
    <3> QED BY <3>2, ReturnFamily
  <2>4. CASE \E t : Execs(t)
    <3>1. PICK t : Execs(t)
      BY <2>4
    <3>2. Return(t) /\ next_pid' = next_pid /\ Kept(pcbs, t.pcbs, next_pid)
      BY <3>1, QuietKept DEF Execs, FamilyInv
    <3> QED BY <3>2, ReturnFamily
  <2> QED BY <1>3, <1>4, <2>1, <2>2, <2>3, <2>4, StepKinds DEF Stops
<1>5. CASE UNCHANGED vars
  BY <1>4, <1>5 DEF vars
<1> QED BY <1>3, <1>5

\* At the start there is init alone, its own parent.
LEMMA FamilyInit == Init => FamilyInv
<1> SUFFICES ASSUME Init PROVE FInv(pcbs, next_pid)
  BY DEF FamilyInv
<1>1. 0 \in Pcbs
  BY PoolAssumption DEF Pcbs
<1>2. /\ pcbs[0] = InitPcb /\ \A p \in Pcbs \ {0} : pcbs[p] = FreePcb
  BY <1>1 DEF Init
<1>3. UsedIn(pcbs) = {0}
  BY <1>1, <1>2 DEF UsedIn, InitPcb, FreePcb
<1>4. KidsIn(pcbs, 0) = {}
  BY <1>3 DEF KidsIn
<1>5. InitFirst(pcbs) /\ Distinct(pcbs) /\ Heard(pcbs)
  BY <1>2, <1>3 DEF InitFirst, Distinct, Heard, InitPcb
<1>6. Named(pcbs, next_pid)
  BY <1>1, <1>2 DEF Named, InitPcb, FreePcb, Given
<1>7. Parented(pcbs)
  BY <1>2, <1>3 DEF Parented, InitPcb
<1>8. Counted(pcbs)
  <2>1. Cardinality({}) = 0
    BY FS_EmptySet
  <2> QED BY <1>2, <1>3, <1>4, <2>1 DEF Counted, InitPcb
<1> QED BY <1>5, <1>6, <1>7, <1>8 DEF FInv

\* The family invariant holds throughout.
LEMMA FamilyInvariance == Spec => [](IInv /\ FamilyInv)
<1>1. Init => IInv /\ FamilyInv
  BY InitOK, FamilyInit
<1>2. IInv /\ FamilyInv /\ [Next]_vars => (IInv /\ FamilyInv)'
  <2>1. IInv /\ [Next]_vars => IInv'
    BY StepOK
  <2>2. IInv /\ FamilyInv /\ [Next]_vars => FamilyInv'
    BY FamilyStep
  <2> QED BY <2>1, <2>2
<1> QED
  BY <1>1, <1>2, PTL DEF Spec

\* UsedIn and KidsIn are Active and Kids of the model.
LEMMA SameNotions ==
  /\ UsedIn(pcbs) = Active /\ \A p \in Pcbs : KidsIn(pcbs, p) = Kids(p)
  /\ \A p \in Pcbs : pcbs[p].state \in Dead <=> IsDead(p)
<1>1. K.pcbs = pcbs
  BY KFields
<1>2. UsedIn(pcbs) = Active
  BY <1>1 DEF UsedIn, Active, InUse
<1>3. ASSUME NEW p \in Pcbs PROVE KidsIn(pcbs, p) = Kids(p)
  BY <1>2 DEF KidsIn, Kids
<1> QED
  BY <1>2, <1>3 DEF Dead, IsDead

(***************************************************************************)
(* The PIDs _sys_fork gives out up to PID_LIMIT never meet each other,     *)
(* init's, or the NO_PID of a free PCB, for any width of pid_t.            *)
(***************************************************************************)
THEOREM PidsNeverClash == Spec => []PidsUnique
<1>1. IInv /\ FamilyInv => PidsUnique
  <2> SUFFICES ASSUME IInv, FamilyInv PROVE PidsUnique
    OBVIOUS
  <2>1. next_pid \in PID_FIRST_USER .. PID_LIMIT
    BY DEF IInv, TypeOK
  <2>2. NO_PID \notin Given(next_pid)
    BY <2>1, PidsFresh
  <2>3. Named(pcbs, next_pid) /\ Distinct(pcbs)
    BY DEF FamilyInv, FInv
  <2>4. \A p \in Pcbs : p \in Active <=> pcbs[p].state # "FREE"
    BY SameNotions DEF UsedIn
  <2>5. \A p \in Pcbs : pcbs[p].pid = NO_PID <=> p \notin Active
    BY <2>2, <2>3, <2>4 DEF Named
  <2> QED
    BY <2>3, <2>5, SameNotions DEF Distinct, PidsUnique
<1> QED BY <1>1, FamilyInvariance, PTL

(***************************************************************************)
(* _zombify leaves no process without a parent that is alive or init, so   *)
(* its own search for the parent of the next one to die succeeds.          *)
(***************************************************************************)
THEOREM OrphansAdopted == Spec => []ParentAlive
<1>1. IInv /\ FamilyInv => ParentAlive
  <2> SUFFICES ASSUME FamilyInv PROVE ParentAlive
    OBVIOUS
  <2>1. Parented(pcbs) /\ UsedIn(pcbs) \subseteq Pcbs
    BY DEF FamilyInv, FInv, UsedIn
  <2> QED
    BY <2>1, SameNotions DEF Parented, ParentAlive
<1> QED BY <1>1, FamilyInvariance, PTL

(***************************************************************************)
(* The children field never says zero to wait() or _zombify while a child  *)
(* is left, over any sequence of fork, wait, exit, kill and adoption.      *)
(***************************************************************************)
THEOREM ChildrenNeverForgotten == Spec => []ChildrenCounted
<1>1. IInv /\ FamilyInv => ChildrenCounted
  <2> SUFFICES ASSUME FamilyInv PROVE ChildrenCounted
    OBVIOUS
  <2>1. Counted(pcbs) /\ UsedIn(pcbs) \subseteq Pcbs
    BY DEF FamilyInv, FInv, UsedIn
  <2> QED
    BY <2>1, SameNotions DEF Counted, ChildrenCounted
<1> QED BY <1>1, FamilyInvariance, PTL

(***************************************************************************)
(* exit() and wait() never miss each other: no process but init is blocked *)
(* in wait() while a child of its own is a zombie.                         *)
(***************************************************************************)
THEOREM ExitsHeard == Spec => []NoLostExit
<1>1. IInv /\ FamilyInv => NoLostExit
  <2> SUFFICES ASSUME FamilyInv PROVE NoLostExit
    OBVIOUS
  <2>1. Heard(pcbs) /\ UsedIn(pcbs) \subseteq Pcbs
    BY DEF FamilyInv, FInv, UsedIn
  <2> QED
    BY <2>1, SameNotions DEF Heard, NoLostExit
<1> QED BY <1>1, FamilyInvariance, PTL

(***************************************************************************)
(* A killed or exited process never runs, sleeps or waits again: the only  *)
(* way out of its state is _pcb_cleanup.                                   *)
(***************************************************************************)
THEOREM DeadNeverRevived == Spec => DeadStayDead
<1>1. IInv /\ FamilyInv /\ [Next]_vars =>
        [\A p \in Pcbs : IsDead(p) =>
           \/ pcbs'[p].state = pcbs[p].state /\ pcbs'[p].pid = pcbs[p].pid
           \/ pcbs'[p].state = "FREE"]_vars
  <2> SUFFICES ASSUME IInv, FamilyInv, [Next]_vars
               PROVE  \A p \in Pcbs : IsDead(p) =>
                        \/ pcbs'[p].state = pcbs[p].state /\ pcbs'[p].pid = pcbs[p].pid
                        \/ pcbs'[p].state = "FREE"
    OBVIOUS
  <2>1. Fate(pcbs, pcbs')
    BY FamilyStep
  <2> QED BY <2>1, SameNotions DEF Fate
<1> QED BY <1>1, FamilyInvariance, PTL DEF Spec, DeadStayDead

(***************************************************************************)
(* A process blocked in wait() is only scheduled by the _zombify of one of *)
(* its own children, which is freed in that step.                          *)
(***************************************************************************)
THEOREM WaitReturnsForChild == Spec => WaitEndsWithChild
<1>1. IInv /\ FamilyInv /\ [Next]_vars =>
        [\A p \in Pcbs :
           pcbs[p].state = "WAITING" /\ pcbs'[p].state \in {"READY", "RUNNING"}
             => \E c \in Kids(p) : ~IsDead(c) /\ pcbs'[c].state = "FREE"]_vars
  <2> SUFFICES ASSUME IInv, FamilyInv, [Next]_vars, NEW p \in Pcbs,
                      pcbs[p].state = "WAITING", pcbs'[p].state \in {"READY", "RUNNING"}
               PROVE  \E c \in Kids(p) : ~IsDead(c) /\ pcbs'[c].state = "FREE"
    OBVIOUS
  <2>1. Fate(pcbs, pcbs')
    BY FamilyStep
  <2>2. PICK c \in KidsIn(pcbs, p) : pcbs[c].state \notin Dead /\ pcbs'[c].state = "FREE"
    BY <2>1 DEF Fate, Awake
  <2>3. c \in Pcbs
    BY DEF KidsIn, UsedIn
  <2> QED BY <2>2, <2>3, SameNotions
<1> QED BY <1>1, FamilyInvariance, PTL DEF Spec, WaitEndsWithChild

-----------------------------------------------------------------------------
(* Always somebody to dispatch *)

(***************************************************************************)
(* init until its first fork, then idle, is ready or running, so _dispatch *)
(* finds it.  BootAlone and IdlePid say why kill() does not reach it: init *)
(* runs alone until then, and idle has the first PID given to fork.        *)
(***************************************************************************)
Steady(f) ==
  \E r \in Pcbs : f[r].prog \in Idlers /\ f[r].state \in {"READY", "RUNNING"}
BootAlone(f, n) ==
  \A r \in UsedIn(f) : f[r].prog = "boot" => UsedIn(f) = {r} /\ n = PID_FIRST_USER
IdlePid(f) ==
  \A r \in UsedIn(f) : f[r].prog \in {"idleboot", "idle"}
                         => f[r].pid = to_pid(PID_FIRST_USER)
Idling(f, n) == Steady(f) /\ BootAlone(f, n) /\ IdlePid(f)

\* As long as one of the idlers found before a call survives it, one is there after it.
LEMMA StaysIdling ==
  ASSUME NEW f, NEW g, NEW n, Idling(f, n), Stays(f, g),
         NEW r \in Pcbs, f[r].prog \in Idlers, g[r].state \in {"READY", "RUNNING"}
  PROVE  Idling(g, n)
<1>1. r \in UsedIn(g)
  BY DEF UsedIn
<1>2. Steady(g)
  BY <1>1 DEF Stays, Steady
<1>3. BootAlone(g, n)
  BY DEF Idling, BootAlone, Stays
<1>4. IdlePid(g)
  BY DEF Idling, IdlePid, Stays
<1> QED BY <1>2, <1>3, <1>4 DEF Idling

IdleInv == Idling(pcbs, next_pid) /\ OnlyMemoryPanics

(***************************************************************************)
(* No step panics outside memory_map.c or takes the last idler away, as    *)
(* long as programs kill neither idle nor PID -1.                          *)
(***************************************************************************)
LEMMA IdleStep ==
  ASSUME to_pid(PID_FIRST_USER) \notin KillArgs, NO_PID \notin KillArgs,
         IInv, FamilyInv, IdleInv, [Next]_vars
  PROVE  IdleInv'
<1>1. /\ K.pcbs = pcbs /\ pcbs[current].state = "RUNNING" /\ current \in Pcbs
      /\ \A r \in Pcbs \ {current} : pcbs[r].state # "RUNNING"
  BY KFields DEF IInv, QueueDiscipline, Loose, TypeOK
<1>2. PICK r \in Pcbs : pcbs[r].prog \in Idlers /\ pcbs[r].state \in {"READY", "RUNNING"}
  BY DEF IdleInv, Idling, Steady
<1>3. r \in UsedIn(pcbs) /\ current \in UsedIn(pcbs)
  BY <1>1, <1>2 DEF UsedIn
<1>4. ASSUME NEW t, Return(t), Idling(t.pcbs, next_pid'), t.panic = "none"
      PROVE  IdleInv'
  <2>1. pcbs' = t.pcbs /\ panic' = "none"
    BY <1>4 DEF Return
  <2>2. Idling(pcbs', next_pid')
    BY <1>4, <2>1
  <2> QED BY <2>1, <2>2 DEF IdleInv, OnlyMemoryPanics
<1>5. ASSUME NEW t, Return(t), next_pid' = next_pid, Handles(K, t, next_pid),
             Survives(t, r)
      PROVE  IdleInv'
  <2>1. t.panic = "none" /\ t.pcbs[r].state \in {"READY", "RUNNING"}
        /\ Stays(pcbs, t.pcbs)
    BY <1>1, <1>5 DEF Survives, Handles
  <2>2. Idling(t.pcbs, next_pid)
    BY <1>2, <2>1, StaysIdling DEF IdleInv
  <2>3. Idling(t.pcbs, next_pid')
    BY <1>5, <2>2
  <2> QED BY <1>4, <1>5, <2>1, <2>3
<1>6. CASE \E t : Ordinary(t)
  <2>1. PICK t : Ordinary(t)
    BY <1>6
  <2>2. Survives(t, r)
    BY <1>1, <1>2, <2>1 DEF Ordinary
  <2> QED BY <1>5, <2>1, <2>2 DEF Ordinary
<1>7. CASE \E t : \E pid \in KillArgs, victim \in Pcbs : Kills(t, pid, victim)
  <2>0. PICK t : \E pid \in KillArgs, victim \in Pcbs : Kills(t, pid, victim)
    BY <1>7
  <2>1. PICK pid \in KillArgs, victim \in Pcbs : Kills(t, pid, victim)
    BY <2>0
  <2>2. pcbs[current].prog = "user" /\ pcbs[victim].pid = pid
    BY <2>1 DEF Kills
  <2>3. r # current /\ pcbs[r].state = "READY"
    BY <1>1, <1>2, <2>2 DEF Idlers
  <2>4. pcbs[r].prog # "boot"
    BY <1>3, <2>3 DEF IdleInv, Idling, BootAlone
  <2>5. r # victim
    BY <1>2, <1>3, <2>2, <2>4 DEF IdleInv, Idling, IdlePid, Idlers
  <2>6. pcbs[victim].state # "FREE"
    BY <2>2 DEF FamilyInv, FInv, Named
  <2>7. Survives(t, r)
    BY <2>1, <2>3, <2>5, <2>6 DEF Kills
  <2> QED BY <1>5, <2>1, <2>7 DEF Kills
<1>8. CASE \E t : \E new \in Pcbs : Begets(t, new)
  <2>0. PICK t : \E new \in Pcbs : Begets(t, new)
    BY <1>8
  <2>1. PICK new \in Pcbs : Begets(t, new)
    BY <2>0
  <2> DEFINE g == t.pcbs
             c == pcbs[current].prog
  <2>2. /\ Return(t) /\ next_pid' = next_pid + 1 /\ t.panic = "none"
        /\ c \in {"boot", "init", "user"} /\ new # current /\ pcbs[new].state = "FREE"
        /\ g[new].state = "READY" /\ g[new].pid = to_pid(next_pid)
        /\ g[new].prog = forked(c) /\ g[current].prog = after_fork(c)
        /\ \A x \in Pcbs \ {new} : g[x].state = pcbs[x].state /\ g[x].pid = pcbs[x].pid
        /\ \A x \in Pcbs \ {new, current} : g[x].prog = pcbs[x].prog
    BY <2>1 DEF Begets
  <2>3. /\ forked(c) = IF c = "boot" THEN "idleboot" ELSE "user"
        /\ after_fork(c) = IF c = "user" THEN "user" ELSE "init"
    BY <2>2 DEF forked, after_fork, init_forks
  <2> HIDE DEF g, c
  <2>4. UsedIn(g) = UsedIn(pcbs) \cup {new}
    BY <2>2 DEF UsedIn
  <2>5. BootAlone(pcbs, next_pid) /\ IdlePid(pcbs)
    BY DEF IdleInv, Idling
  <2>6. c = "boot" => UsedIn(pcbs) = {current} /\ next_pid = PID_FIRST_USER
    BY <1>3, <2>5 DEF BootAlone, c
  <2>7. \A x \in UsedIn(pcbs) \ {current} : pcbs[x].prog # "boot"
    BY <1>3, <2>5 DEF BootAlone
  <2>8. BootAlone(g, next_pid + 1)
    <3>1. \A x \in UsedIn(g) : g[x].prog # "boot"
      BY <2>2, <2>3, <2>4, <2>7 DEF UsedIn
    <3> QED BY <3>1 DEF BootAlone
  <2>9. IdlePid(g)
    <3>1. ASSUME NEW x \in UsedIn(g), g[x].prog \in {"idleboot", "idle"}
          PROVE  g[x].pid = to_pid(PID_FIRST_USER)
      <4>1. CASE x = new
        BY <2>2, <2>3, <2>6, <3>1, <4>1
      <4>2. CASE x # new
        <5>1. x \in UsedIn(pcbs) /\ x # current /\ x \in Pcbs
          BY <2>2, <2>3, <2>4, <3>1, <4>2 DEF UsedIn
        <5> QED BY <2>2, <2>5, <3>1, <4>2, <5>1 DEF IdlePid
      <4> QED BY <4>1, <4>2
    <3> QED BY <3>1 DEF IdlePid
  <2>10. Steady(g)
    <3>1. CASE c = "boot"
      BY <2>2, <2>3, <3>1 DEF Steady, Idlers
    <3>2. CASE c # "boot"
      <4>1. r # current /\ r # new
        BY <1>2, <2>2, <3>2 DEF Idlers, c
      <4> QED BY <1>2, <2>2, <4>1 DEF Steady
    <3> QED BY <3>1, <3>2
  <2> QED BY <1>4, <2>2, <2>8, <2>9, <2>10 DEF Idling, g
<1>9. CASE \E t : Execs(t)
  <2>1. PICK t : Execs(t)
    BY <1>9
  <2> DEFINE g == t.pcbs
             c == pcbs[current].prog
  <2>2. /\ Return(t) /\ next_pid' = next_pid /\ t.panic = "none"
        /\ c \in {"user", "idleboot"}
        /\ g[current].prog = IF c = "user" THEN "user" ELSE "idle"
        /\ \A x \in Pcbs : g[x].state = pcbs[x].state
        /\ \A x \in Pcbs : g[x].pid = pcbs[x].pid
        /\ \A x \in Pcbs \ {current} : g[x].prog = pcbs[x].prog
    <3>1. \A x \in Pcbs : t.pcbs[x].pid = pcbs[x].pid
      BY <2>1 DEF Execs, Quiet, SameFamily
    <3> QED BY <2>1, <3>1, Zenon DEF Execs
  <2> HIDE DEF g
  <2>3. UsedIn(g) = UsedIn(pcbs)
    BY <2>2 DEF UsedIn
  <2>4. BootAlone(pcbs, next_pid) /\ IdlePid(pcbs)
    BY DEF IdleInv, Idling
  <2>5. BootAlone(g, next_pid)
    BY <2>2, <2>3, <2>4 DEF BootAlone, UsedIn
  <2>6. IdlePid(g)
    BY <2>2, <2>3, <2>4 DEF IdlePid, UsedIn
  <2>7. Steady(g)
    <3>1. g[r].prog \in Idlers
      <4>1. CASE r = current
        BY <1>2, <2>2, <4>1 DEF Idlers
      <4>2. CASE r # current
        BY <1>2, <2>2, <4>2
      <4> QED BY <4>1, <4>2
    <3>2. g[r].state \in {"READY", "RUNNING"}
      BY <1>2, <2>2
    <3> QED BY <3>1, <3>2 DEF Steady
  <2> QED BY <1>4, <2>2, <2>5, <2>6, <2>7 DEF Idling, g
<1>10. CASE Stops
  <2>1. pcbs' = pcbs /\ next_pid' = next_pid
        /\ (panic' = panic \/ panic' \in MemoryPanics)
    BY <1>10 DEF Stops
  <2>2. Idling(pcbs', next_pid')
    BY <2>1 DEF IdleInv
  <2>3. OnlyMemoryPanics'
    BY <2>1 DEF IdleInv, OnlyMemoryPanics
  <2> QED BY <2>2, <2>3 DEF IdleInv
<1>11. CASE UNCHANGED vars
  BY <1>10, <1>11 DEF vars, Stops
<1> QED
  BY <1>6, <1>7, <1>8, <1>9, <1>10, <1>11, StepKinds

\* init is the idler at the start.
LEMMA IdleInit == Init => IdleInv
<1> SUFFICES ASSUME Init PROVE Idling(pcbs, next_pid) /\ panic = "none"
  BY DEF IdleInv, OnlyMemoryPanics
<1>1. 0 \in Pcbs
  BY PoolAssumption DEF Pcbs
<1>2. /\ pcbs[0] = InitPcb /\ \A p \in Pcbs \ {0} : pcbs[p] = FreePcb
      /\ next_pid = PID_FIRST_USER /\ panic = "none"
  BY <1>1 DEF Init
<1>3. UsedIn(pcbs) = {0}
  BY <1>1, <1>2 DEF UsedIn, InitPcb, FreePcb
<1>4. Steady(pcbs)
  BY <1>1, <1>2 DEF Steady, Idlers, InitPcb
<1>5. BootAlone(pcbs, next_pid) /\ IdlePid(pcbs)
  BY <1>2, <1>3 DEF BootAlone, IdlePid, InitPcb
<1> QED BY <1>2, <1>4, <1>5 DEF Idling

(***************************************************************************)
(* No call, fault or interrupt leads to _kpanic; only memory_map.c stops   *)
(* the machine.  Provided no program kills idle, or the PID -1, which the  *)
(* search of _sys_kill finds in every free PCB.                            *)
(***************************************************************************)
THEOREM CoreNeverPanics ==
  ASSUME to_pid(PID_FIRST_USER) \notin KillArgs, NO_PID \notin KillArgs
  PROVE  Spec => []OnlyMemoryPanics
<1>1. Init => IdleInv
  BY IdleInit
<1>2. IInv /\ FamilyInv /\ IdleInv /\ [Next]_vars => IdleInv'
  BY IdleStep
<1>3. IdleInv => OnlyMemoryPanics
  BY DEF IdleInv
<1> QED
  BY <1>1, <1>2, <1>3, FamilyInvariance, PTL DEF Spec

-----------------------------------------------------------------------------
(***************************************************************************)
(* Part 3: the order of the queues.  The sleep queue is sorted, so the     *)
(* wake-up loop of _clk_isr may stop at the first sleeper that is not due; *)
(* a ready queue is served first come, first served; and _dispatch takes   *)
(* from the best queue.                                                    *)
(*                                                                         *)
(* The first part says what each kernel function does to the sleepers and  *)
(* to the ready queues, the second what a handler does, the third is about *)
(* steps.                                                                  *)
(***************************************************************************)

Sorted(s) ==
  LET q == s.queues["sleeping"]
  IN  \A i, j \in DOMAIN q : i <= j => s.pcbs[q[i]].wakeup <= s.pcbs[q[j]].wakeup

SameWakeups(s, t) == \A r \in Pcbs : t.pcbs[r].wakeup = s.pcbs[r].wakeup
SameSleepers(s, t) ==
  /\ t.queues["sleeping"] = s.queues["sleeping"]
  /\ \A r \in Range(s.queues["sleeping"]) : t.pcbs[r].wakeup = s.pcbs[r].wakeup

ReadyQ(s, r) == s.queues[Ready(r)]

\* q is on none of the ready queues of s
NotReady(s, q) == \A r \in Prios : q \notin Range(ReadyQ(s, r))

SameReady(s, t) == \A r \in Prios : ReadyQ(t, r) = ReadyQ(s, r)

\* between s and t, at most q came to the ready queues, and to the end of one
Joins(s, t, q) ==
  \A r \in Prios : \/ ReadyQ(t, r) = ReadyQ(s, r)
                   \/ ReadyQ(t, r) = Append(ReadyQ(s, r), q)

\* nobody ready has a better priority than the process on the CPU
Outranks(t) ==
  \A p \in Pcbs : t.pcbs[p].state = "READY" => t.pcbs[p].prio >= t.pcbs[t.current].prio

-----------------------------------------------------------------------------
(* The sleep queue *)

\* Same sleepers, same order.
LEMMA SortedSame ==
  ASSUME NEW s, NEW t, Sorted(s), SameSleepers(s, t)
  PROVE  Sorted(t)
<1> DEFINE q == s.queues["sleeping"]
<1>1. \A i \in DOMAIN q : t.pcbs[q[i]].wakeup = s.pcbs[q[i]].wakeup
  BY DEF SameSleepers, Range
<1> QED
  BY <1>1 DEF Sorted, SameSleepers

\* _q_enque of a sleeper keeps the sleep queue sorted ...
LEMMA SleepSorted ==
  ASSUME NEW s \in KStates, Sorted(s), NEW p \in Pcbs
  PROVE  Sorted(q_enque(s, "sleeping", p))
<1> DEFINE q == s.queues["sleeping"]
           W(r) == s.pcbs[r].wakeup
           k == wakeup_slot(s, q, p)
           a == InsertAt(q, k, p)
           t == q_enque(s, "sleeping", p)
<1>1. CASE s.qnodes = 0
  BY <1>1 DEF q_enque
<1>2. CASE s.qnodes # 0
  <2>1. q \in Seq(Pcbs) /\ \A r \in Pcbs : W(r) \in Nat
    BY DEF KStates, QNames, PcbRecords
  <2>2. t.queues["sleeping"] = a /\ t.pcbs = s.pcbs
    BY <1>2 DEF q_enque, KStates, QNames
  <2>3. \A i, j \in 1 .. Len(q) : i <= j => W(q[i]) <= W(q[j])
    BY <2>1 DEF Sorted
  <2> HIDE DEF q, t
  <2>4. /\ k \in 1 .. Len(q) + 1
        /\ \A j \in 1 .. k - 1 : W(q[j]) <= W(p)
        /\ k <= Len(q) => W(p) < W(q[k])
    BY <2>1, SlotPlace
  <2> HIDE DEF k
  <2>5. /\ a \in Seq(Pcbs) /\ Len(a) = Len(q) + 1 /\ a[k] = p
        /\ \A i \in 1 .. Len(q) + 1 : i # k =>
             LET at == IF i < k THEN i ELSE i - 1
             IN  at \in 1 .. Len(q) /\ a[i] = q[at]
    BY <2>1, <2>4, InsertAtEntries
  <2> HIDE DEF a
  <2>6. Len(q) \in Nat /\ \A i \in 1 .. Len(q) : W(q[i]) \in Nat
    BY <2>1
  <2>7. \A j \in k .. Len(q) : W(p) <= W(q[j])
    BY <2>1, <2>3, <2>4, <2>6, SMTT(60)
  <2>8. ASSUME NEW i \in 1 .. Len(q) + 1, NEW j \in 1 .. Len(q) + 1, i <= j
        PROVE  W(a[i]) <= W(a[j])
    <3>1. CASE i = k /\ j = k
      BY <2>1, <2>5, <3>1
    <3>2. CASE i = k /\ j # k
      <4>1. j - 1 \in k .. Len(q) /\ a[j] = q[j - 1]
        BY <2>4, <2>5, <2>6, <2>8, <3>2
      <4> QED BY <2>5, <2>7, <3>2, <4>1
    <3>3. CASE i # k /\ j = k
      <4>1. i \in 1 .. k - 1 /\ a[i] = q[i]
        BY <2>4, <2>5, <2>6, <2>8, <3>3
      <4> QED BY <2>4, <2>5, <3>3, <4>1
    <3>4. CASE i # k /\ j # k
      <4> DEFINE x == IF i < k THEN i ELSE i - 1
                 y == IF j < k THEN j ELSE j - 1
      <4>1. x \in 1 .. Len(q) /\ a[i] = q[x] /\ y \in 1 .. Len(q) /\ a[j] = q[y]
        BY <2>5, <3>4
      <4>2. x <= y
        BY <2>4, <2>6, <2>8, <3>4
      <4> HIDE DEF x, y
      <4> QED BY <2>3, <4>1, <4>2
    <3> QED BY <3>1, <3>2, <3>3, <3>4
  <2>9. DOMAIN a = 1 .. Len(q) + 1
    BY <2>5
  <2> QED BY <2>2, <2>8, <2>9 DEF Sorted, t
<1> QED BY <1>1, <1>2

\* ... and so do _q_deque ...
LEMMA WakeSorted ==
  ASSUME NEW s \in KStates, Sorted(s), s.queues["sleeping"] # <<>>
  PROVE  Sorted(q_deque(s, "sleeping"))
<1> DEFINE q == s.queues["sleeping"]
           W(r) == s.pcbs[r].wakeup
           t == q_deque(s, "sleeping")
<1>1. q \in Seq(Pcbs)
  BY DEF KStates, QNames
<1>2. t.queues["sleeping"] = Tail(q) /\ t.pcbs = s.pcbs
  BY DEF q_deque, KStates, QNames
<1>3. \A i, j \in 1 .. Len(q) : i <= j => W(q[i]) <= W(q[j])
  BY <1>1 DEF Sorted
<1> HIDE DEF t
<1>4. Len(q) \in Nat /\ DOMAIN Tail(q) = 1 .. Len(q) - 1
      /\ \A i \in 1 .. Len(q) - 1 : Tail(q)[i] = q[i + 1]
  BY <1>1
<1> HIDE DEF q
<1>5. \A i, j \in 1 .. Len(q) - 1 : i <= j => W(Tail(q)[i]) <= W(Tail(q)[j])
  <2> SUFFICES ASSUME NEW i \in 1 .. Len(q) - 1, NEW j \in 1 .. Len(q) - 1, i <= j
               PROVE  W(Tail(q)[i]) <= W(Tail(q)[j])
    OBVIOUS
  <2>1. i + 1 \in 1 .. Len(q) /\ j + 1 \in 1 .. Len(q) /\ i + 1 <= j + 1
    BY <1>4
  <2> QED BY <1>3, <1>4, <2>1
<1> QED BY <1>2, <1>4, <1>5 DEF Sorted, t

\* ... and _q_remove, which kill() uses on a sleeper.
LEMMA RemoveSorted ==
  ASSUME NEW s \in KStates, Sorted(s), NEW p, NEW who
  PROVE  Sorted(q_remove(s, "sleeping", p, who))
<1> DEFINE q == s.queues["sleeping"]
           W(r) == s.pcbs[r].wakeup
           k == CHOOSE i \in DOMAIN q : q[i] = p
           a == RemoveAt(q, k)
           t == q_remove(s, "sleeping", p, who)
<1>1. CASE ~ \E i \in DOMAIN q : q[i] = p
  BY <1>1 DEF q_remove, kpanic, Sorted, KStates
<1>2. CASE \E i \in DOMAIN q : q[i] = p
  <2>1. q \in Seq(Pcbs)
    BY DEF KStates, QNames
  <2>2. k \in 1 .. Len(q)
    BY <1>2, <2>1
  <2>3. t.queues["sleeping"] = a /\ t.pcbs = s.pcbs
    BY <1>2 DEF q_remove, KStates, QNames
  <2>4. \A i, j \in 1 .. Len(q) : i <= j => W(q[i]) <= W(q[j])
    BY <2>1 DEF Sorted
  <2> HIDE DEF q, k, t
  <2>5. /\ a \in Seq(Pcbs) /\ Len(a) = Len(q) - 1
        /\ \A i \in 1 .. Len(q) - 1 : a[i] = IF i < k THEN q[i] ELSE q[i + 1]
    BY <2>1, <2>2, RemoveAtEntries
  <2> HIDE DEF a
  <2>6. Len(q) \in Nat /\ DOMAIN a = 1 .. Len(q) - 1
    BY <2>1, <2>5
  <2>7. ASSUME NEW i \in 1 .. Len(q) - 1, NEW j \in 1 .. Len(q) - 1, i <= j
        PROVE  W(a[i]) <= W(a[j])
    <3> DEFINE x == IF i < k THEN i ELSE i + 1
               y == IF j < k THEN j ELSE j + 1
    <3>1. x \in 1 .. Len(q) /\ y \in 1 .. Len(q) /\ x <= y
      BY <2>2, <2>6, <2>7
    <3>2. a[i] = q[x] /\ a[j] = q[y]
      BY <2>5
    <3> HIDE DEF x, y
    <3> QED BY <2>4, <3>1, <3>2
  <2> QED BY <2>3, <2>6, <2>7 DEF Sorted, t
<1> QED BY <1>1, <1>2

-----------------------------------------------------------------------------
(* What the kernel functions do to the queues *)

\* A ready queue is not the sleep queue or any other, and priorities do not share.
LEMMA ReadyNames ==
  /\ \A r : Ready(r) \in {"ready0", "ready1", "ready2", "ready3"}
  /\ \A r, x \in Prios : Ready(r) = Ready(x) => r = x
<1>1. \A r : Ready(r) \in {"ready0", "ready1", "ready2", "ready3"}
  BY DEF Ready
<1>2. \A r \in Prios : r = 0 \/ r = 1 \/ r = 2 \/ r = 3
  BY DEF Prios, P_SYSTEM, P_MIN
<1>3. \A r, x \in Prios : Ready(r) = Ready(x) => r = x
  BY <1>2 DEF Ready
<1> QED BY <1>1, <1>3

\* Only p may join the ready queues, and only in _schedule; nobody's wake-up changes.
LEMMA ScheduleJoins ==
  ASSUME NEW s \in KStates, NEW p \in Pcbs
  PROVE  /\ SameWakeups(s, schedule(s, p)) /\ Joins(s, schedule(s, p), p)
         /\ schedule(s, p).queues["sleeping"] = s.queues["sleeping"]
<1> DEFINE prio == IF s.pcbs[p].prio \in Prios THEN s.pcbs[p].prio ELSE P_LOW
           c == [s.pcbs[p] EXCEPT !.prio = prio, !.state = "READY"]
           u == WithPcb(s, p, c)
           n == Ready(prio)
           t == schedule(s, p)
<1>1. s.pcbs[p] \in PcbRecords /\ prio \in Int
  BY DEF KStates, PcbRecords, P_LOW
<1>2. c \in PcbRecords /\ c.wakeup = s.pcbs[p].wakeup
  <2> HIDE DEF prio
  <2> QED BY <1>1 DEF PcbRecords, States
<1>3. u = [s EXCEPT !.pcbs[p].prio = prio, !.pcbs[p].state = "READY"]
  <2> HIDE DEF prio
  <2> QED BY <1>1 DEF WithPcb, KStates, PcbRecords
<1>4. t = enque_or_panic(u, n, p, "_schedule")
  <2> HIDE DEF u
  <2> QED BY <1>3 DEF schedule
<1>5. n \in QNames /\ n # "sleeping"
  BY ReadyNames, ReadyType
<1> HIDE DEF prio, c, u, n, t
<1>6. u \in KStates /\ SameBut(s, u, p) /\ u.pcbs[p] = c /\ u.queues = s.queues
  BY <1>2, SetPcb DEF u, SameQueues
<1>7. /\ t.pcbs = u.pcbs
      /\ \A m \in QNames \ {n} : t.queues[m] = u.queues[m]
      /\ t.queues[n] = u.queues[n] \/ t.queues[n] = Append(u.queues[n], p)
  <2>1. CASE u.qnodes = 0
    BY <1>4, <1>6, <2>1 DEF enque_or_panic, kpanic, KStates
  <2>2. CASE u.qnodes # 0
    BY <1>4, <1>5, <1>6, <2>2, EnqueElsewhere DEF enque_or_panic
  <2> QED BY <2>1, <2>2
<1>8. SameWakeups(s, t)
  BY <1>2, <1>6, <1>7 DEF SameWakeups, SameBut
<1>9. Joins(s, t, p)
  BY <1>6, <1>7, ReadyType DEF Joins, ReadyQ
<1>10. t.queues["sleeping"] = s.queues["sleeping"]
  BY <1>5, <1>6, <1>7 DEF QNames
<1> QED BY <1>8, <1>9, <1>10 DEF t

\* _pcb_cleanup is about the free queue.
LEMMA CleanupElsewhere ==
  ASSUME NEW s \in KStates, NEW p \in Pcbs
  PROVE  /\ \A m \in QNames \ {"free"} : pcb_cleanup(s, p).queues[m] = s.queues[m]
         /\ SameWakeups(s, pcb_cleanup(s, p))
<1> DEFINE t == stk_dealloc(s, s.pcbs[p].stack)
           c == [s.pcbs[p] EXCEPT !.state = "FREE", !.pid = NO_PID,
                                  !.ppid = NO_PID]
           u == [t EXCEPT !.pcbs[p].state = "FREE", !.pcbs[p].pid = NO_PID,
                          !.pcbs[p].ppid = NO_PID]
           v == q_enque(u, "free", p)
<1>1. /\ t.pcbs = s.pcbs /\ t.queues = s.queues /\ s.pcbs[p] \in PcbRecords
      /\ t \in KStates
  <2> DEFINE stk == s.pcbs[p].stack
             a == Append(s.stacks, stk)
             m == s.qnodes - 1
  <2>1. s.pcbs[p] \in PcbRecords /\ stk \in Stacks /\ s.stacks \in Seq(Stacks)
        /\ s.qnodes \in Nat
    BY DEF KStates, PcbRecords
  <2>2. CASE s.qnodes = 0
    BY <2>1, <2>2 DEF stk_dealloc
  <2>3. CASE s.qnodes # 0
    <3>1. t = [s EXCEPT !.stacks = a, !.qnodes = m]
      BY <2>3 DEF stk_dealloc
    <3>2. a \in Seq(Stacks) /\ m \in Nat
      BY <2>1, <2>3
    <3> HIDE DEF a, m
    <3> QED BY <2>1, <3>1, <3>2 DEF KStates
  <2> QED BY <2>2, <2>3
<1>2. c \in PcbRecords /\ c.wakeup = s.pcbs[p].wakeup
  <2>1. NO_PID \in Int
    BY DEF NO_PID
  <2> QED BY <1>1, <2>1 DEF PcbRecords, States
<1> HIDE DEF t
<1>3. u = WithPcb(t, p, c)
  BY <1>1 DEF WithPcb, KStates, PcbRecords
<1>4. pcb_cleanup(s, p) = v
  BY DEF pcb_cleanup, pcb_dealloc, t
<1> HIDE DEF c, u, v
<1>5. u \in KStates /\ SameBut(t, u, p) /\ u.pcbs[p] = c /\ u.queues = s.queues
  BY <1>1, <1>2, <1>3, SetPcb DEF SameQueues
<1>6. /\ v.pcbs = u.pcbs /\ \A m \in QNames \ {"free"} : v.queues[m] = u.queues[m]
  BY <1>5, EnqueElsewhere DEF v, QNames
<1> QED
  BY <1>1, <1>2, <1>4, <1>5, <1>6 DEF SameWakeups, SameBut

\* Handing children over is about parents and counts.
LEMMA ReparentElsewhere ==
  ASSUME NEW s \in KStates, NEW p \in Pcbs
  PROVE  reparent(s, p).queues = s.queues /\ SameWakeups(s, reparent(s, p))
<1> DEFINE kids == ChildrenOf(s, s.pcbs[p].pid)
           adopt(r) == [s.pcbs[r] EXCEPT
                         !.ppid = IF r \in kids THEN PID_INIT ELSE @,
                         !.children = IF r = p THEN 0
                                      ELSE IF r = 0 THEN @ + Cardinality(kids)
                                      ELSE @]
           adopted == [r \in Pcbs |-> adopt(r)]
<1>1. \A r \in Pcbs : adopt(r).wakeup = s.pcbs[r].wakeup
  BY DEF KStates, PcbRecords
<1>2. CASE s.pcbs[p].children > 0
  <2>1. reparent(s, p) = [s EXCEPT !.pcbs = adopted]
    BY <1>2 DEF reparent
  <2> HIDE DEF adopt
  <2> QED BY <1>1, <2>1 DEF SameWakeups, KStates
<1>3. CASE ~(s.pcbs[p].children > 0)
  BY <1>3 DEF reparent, SameWakeups
<1> QED BY <1>2, <1>3

(***************************************************************************)
(* _zombify: at most the parent, until then blocked in wait(), joins.      *)
(***************************************************************************)
LEMMA ZombifyJoins ==
  ASSUME NEW s, NEW D, NEW d \in Nat, d > 0, Sane(s, D, d),
         NEW p \in Pcbs, p \in D, s.pcbs[p].state \in {"KILLED", "ZOMBIE"},
         \A r \in D : s.pcbs[r].state # "WAITING"
  PROVE  /\ SameWakeups(s, zombify(s, p))
         /\ zombify(s, p).queues["sleeping"] = s.queues["sleeping"]
         /\ \/ SameReady(s, zombify(s, p))
            \/ \E q \in Pcbs : /\ s.pcbs[q].state = "WAITING"
                              /\ Joins(s, zombify(s, p), q)
<1> DEFINE t == reparent(s, p)
           found == HavingPid(t, t.pcbs[p].ppid)
           q == First(found)
           u == q_remove(t, "waiting", q, "_zombify")
           v == pcb_cleanup(u, p)
           w == schedule(v, q)
           z == zombify(s, p)
<1>1. /\ Sane(t, D, d) /\ SameCpu(s, t) /\ t \in KStates /\ s \in KStates
      /\ \A r \in Pcbs : t.pcbs[r].state = s.pcbs[r].state
  BY ReparentOK DEF Sane
<1>2. t.queues = s.queues /\ SameWakeups(s, t)
  BY <1>1, ReparentElsewhere
<1> HIDE DEF t
<1>3. ASSUME z.queues = t.queues, z.pcbs = t.pcbs
      PROVE  /\ SameWakeups(s, z) /\ z.queues["sleeping"] = s.queues["sleeping"]
             /\ SameReady(s, z)
  BY <1>2, <1>3 DEF SameWakeups, SameReady, ReadyQ
<1>4. CASE found = {}
  <2>1. z = kpanic(t, "no parent")
    BY <1>4 DEF zombify, t
  <2>2. z.queues = t.queues /\ z.pcbs = t.pcbs
    BY <1>1, <2>1 DEF kpanic, KStates
  <2> QED BY <1>3, <2>2
<1>5. CASE found # {} /\ t.pcbs[q].state = "WAITING"
  <2>1. z = w
    BY <1>5 DEF zombify, t
  <2>2. q \in Pcbs
    <3>1. found \subseteq Nat /\ found \subseteq Pcbs
      BY DEF HavingPid, Pcbs
    <3> HIDE DEF found
    <3> QED BY <1>5, <3>1, FirstIn
  <2> HIDE DEF found, q
  <2>3. /\ q \notin D /\ q # p /\ "waiting" \in QNames
        /\ Home(t.pcbs[q]) = "waiting" /\ s.pcbs[q].state = "WAITING"
    BY <1>1, <1>5, <2>2 DEF Home, QNames
  <2>4. Sane(u, D \cup {q}, d + 1) /\ u \in KStates
    BY <1>1, <2>2, <2>3, RemoveOK DEF Sane
  <2>5. /\ \A m \in QNames \ {"waiting"} : u.queues[m] = t.queues[m]
        /\ u.pcbs = t.pcbs
    BY <1>1, <2>3, RemoveElsewhere
  <2> HIDE DEF u
  <2>6. u.pcbs[p].state # "FREE" /\ d + 1 \in Nat /\ d + 1 > 0
    BY <1>1, <2>5
  <2>7. v \in KStates
    BY <2>4, <2>6, CleanupOK DEF Sane
  <2>8. /\ \A m \in QNames \ {"free"} : v.queues[m] = u.queues[m]
        /\ SameWakeups(u, v)
    BY <2>4, CleanupElsewhere
  <2> HIDE DEF v
  <2>9. SameWakeups(v, w) /\ Joins(v, w, q) /\ w.queues["sleeping"] = v.queues["sleeping"]
    BY <2>2, <2>7, ScheduleJoins
  <2> HIDE DEF w, z
  <2>10. \A r \in Prios : ReadyQ(v, r) = ReadyQ(s, r)
    BY <1>2, <2>5, <2>8, ReadyNames, ReadyType DEF ReadyQ
  <2>11. Joins(s, w, q)
    BY <2>9, <2>10 DEF Joins
  <2>12. SameWakeups(s, w) /\ w.queues["sleeping"] = s.queues["sleeping"]
    BY <1>2, <2>5, <2>8, <2>9 DEF SameWakeups, QNames
  <2> QED BY <2>1, <2>2, <2>3, <2>11, <2>12 DEF z
<1>6. CASE found # {} /\ t.pcbs[q].state # "WAITING"
  <2>1. z = enque_or_panic(t, "zombie", p, "_zombify")
    BY <1>6 DEF zombify, t
  <2>2. /\ z.pcbs = t.pcbs
        /\ \A m \in QNames \ {"zombie"} : z.queues[m] = t.queues[m]
    <3>1. CASE t.qnodes = 0
      BY <1>1, <2>1, <3>1 DEF enque_or_panic, kpanic, KStates
    <3>2. CASE t.qnodes # 0
      BY <1>1, <2>1, <3>2, EnqueElsewhere DEF enque_or_panic, QNames
    <3> QED BY <3>1, <3>2
  <2> HIDE DEF z
  <2>3. SameWakeups(s, z) /\ z.queues["sleeping"] = s.queues["sleeping"]
    BY <1>2, <2>2 DEF SameWakeups, QNames
  <2>4. SameReady(s, z)
    BY <1>2, <2>2, ReadyNames, ReadyType DEF SameReady, ReadyQ
  <2> QED BY <2>3, <2>4 DEF z
<1> QED BY <1>4, <1>5, <1>6

(***************************************************************************)
(* _dispatch takes the head of one ready queue, and nobody on another has  *)
(* a better priority.                                                      *)
(***************************************************************************)
LEMMA DispatchTurn ==
  ASSUME NEW s, Sane(s, {}, 0), dispatch(s).panic = "none"
  PROVE  LET t == dispatch(s)
         IN  /\ SameWakeups(s, t) /\ t.queues["sleeping"] = s.queues["sleeping"]
             /\ Outranks(t)
             /\ \E n \in Prios :
                  /\ ReadyQ(s, n) # <<>> /\ t.current = Head(ReadyQ(s, n))
                  /\ ReadyQ(t, n) = Tail(ReadyQ(s, n))
                  /\ \A r \in Prios \ {n} : ReadyQ(t, r) = ReadyQ(s, r)
<1> DEFINE nonempty == {r \in Prios : s.queues[Ready(r)] # <<>>}
           k == First(nonempty)
           n == Ready(k)
           p == Head(s.queues[n])
           a == q_deque(s, n)
           c == [s.pcbs[p] EXCEPT !.state = "RUNNING"]
           t == dispatch(s)
<1>1. s \in KStates
  BY DEF Sane
<1>2. nonempty # {}
  BY <1>1 DEF dispatch, kpanic, KStates
<1>3. k \in nonempty /\ \A r \in nonempty : k <= r
  <2>1. nonempty \subseteq Nat
    BY DEF Prios, P_SYSTEM, P_MIN
  <2> HIDE DEF nonempty
  <2>2. \E x \in nonempty : \A y \in nonempty : x <= y
    BY <1>2, <2>1, LeastNat
  <2> QED BY <2>2 DEF First
<1>4. n \in QNames /\ s.queues[n] # <<>> /\ k \in Prios
  BY <1>3, ReadyType
<1>5. t = [a EXCEPT !.current = p, !.pcbs[p].state = "RUNNING", !.ticks = QUANT_STD]
  BY <1>2 DEF dispatch
<1>6. \A r \in Prios : s.queues[Ready(r)] # <<>> => k <= r
  BY <1>3
<1> HIDE DEF nonempty, k, t
<1>7. n \in {"ready0", "ready1", "ready2", "ready3"}
  BY ReadyNames
<1> HIDE DEF n
<1>8. /\ p \in Pcbs /\ Home(s.pcbs[p]) = n
      /\ Sane(a, {} \cup {p}, 0 + 1) /\ SamePcbs(s, a) /\ a \in KStates
  BY <1>4, DequeOK DEF Sane
<1>9. /\ \A m \in QNames \ {n} : a.queues[m] = s.queues[m]
      /\ a.queues[n] = Tail(s.queues[n])
  BY <1>1, <1>4, DequeElsewhere
<1> HIDE DEF p, a
<1>10. s.pcbs[p].state = "READY" /\ s.pcbs[p] \in PcbRecords /\ a.pcbs = s.pcbs
  BY <1>1, <1>7, <1>8 DEF Home, KStates, SamePcbs
<1>11. s.pcbs[p].prio = k
  <2>1. s.pcbs[p].prio \in Prios
    BY <1>8, <1>10 DEF Sane, Loose
  <2>2. Ready(s.pcbs[p].prio) = Ready(k)
    BY <1>8, <1>10 DEF Home, n
  <2> QED BY <1>4, <2>1, <2>2, ReadyNames
<1>12. /\ t.pcbs = [s.pcbs EXCEPT ![p] = c] /\ t.queues = a.queues /\ t.current = p
  BY <1>1, <1>5, <1>8, <1>10 DEF KStates, PcbRecords
<1>13. c.prio = k /\ c.state = "RUNNING" /\ c.wakeup = s.pcbs[p].wakeup
  BY <1>10, <1>11 DEF PcbRecords
<1>14. \A r \in Pcbs : t.pcbs[r] = IF r = p THEN c ELSE s.pcbs[r]
  BY <1>1, <1>12 DEF KStates
<1> HIDE DEF c
<1>15. SameWakeups(s, t)
  BY <1>13, <1>14 DEF SameWakeups
<1>16. t.queues["sleeping"] = s.queues["sleeping"]
  BY <1>7, <1>9, <1>12 DEF QNames
<1>17. Outranks(t)
  <2>1. SUFFICES ASSUME NEW r \in Pcbs, t.pcbs[r].state = "READY"
                 PROVE  t.pcbs[r].prio >= t.pcbs[t.current].prio
    BY DEF Outranks
  <2>2. r # p /\ t.pcbs[r] = s.pcbs[r] /\ t.pcbs[t.current].prio = k
    BY <1>8, <1>12, <1>13, <1>14, <2>1
  <2>3. s.pcbs[r].prio \in Prios /\ s.pcbs[r].state = "READY"
    BY <2>1, <2>2 DEF Sane, Loose
  <2>4. Home(s.pcbs[r]) = Ready(s.pcbs[r].prio)
    BY <2>3 DEF Home
  <2>5. r \in Range(s.queues[Ready(s.pcbs[r].prio)])
    BY <2>4, ReadyType DEF Sane, Loose
  <2>6. s.queues[Ready(s.pcbs[r].prio)] # <<>>
    BY <2>5 DEF Range
  <2>7. k <= s.pcbs[r].prio
    BY <1>6, <2>3, <2>6
  <2> QED BY <1>4, <2>2, <2>3, <2>7 DEF Prios, P_SYSTEM, P_MIN
<1>18. /\ ReadyQ(s, k) # <<>> /\ t.current = Head(ReadyQ(s, k))
       /\ ReadyQ(t, k) = Tail(ReadyQ(s, k))
  BY <1>4, <1>9, <1>12 DEF ReadyQ, n, p
<1>19. \A r \in Prios \ {k} : ReadyQ(t, r) = ReadyQ(s, r)
  BY <1>4, <1>9, <1>12, ReadyNames, ReadyType DEF ReadyQ, n
<1> QED BY <1>4, <1>15, <1>16, <1>17, <1>18, <1>19 DEF t

-----------------------------------------------------------------------------
(* What a handler does to the order of the queues *)

\* whoever is still on the queue has in front of it only who was before
KeepsLine(q, w) ==
  \A i \in DOMAIN q : \A l \in DOMAIN w : w[l] = q[i] =>
    \A m \in 1 .. l - 1 : \E j \in 1 .. i - 1 : w[m] = q[j]

\* ... on every ready queue, and nobody changes from one to another
Lined(s, t) ==
  \A r \in Prios :
    /\ KeepsLine(ReadyQ(s, r), ReadyQ(t, r))
    /\ \A x \in Range(ReadyQ(t, r)) : x \in Range(ReadyQ(s, r)) \/ NotReady(s, x)

\* who is still waiting was not passed over in favour of one behind it
TakesTurn(s, t) ==
  \A r \in Prios : LET q == ReadyQ(s, r)
                       w == ReadyQ(t, r)
    IN  \A i \in DOMAIN q : \A l \in DOMAIN w : w[l] = q[i] =>
          \A j \in i + 1 .. Len(q) : t.current # q[j]

Orderly(s, t) ==
  /\ Lined(s, t) /\ TakesTurn(s, t)
  /\ Sorted(s) => Sorted(t)
  /\ t.current = s.current \/ Outranks(t)

\* The ready queues hold each PCB once, and no PCB is on two.
LEMMA ReadyFacts ==
  ASSUME NEW s \in KStates, NEW D, Loose(s, D)
  PROVE  /\ \A r \in Prios : /\ ReadyQ(s, r) \in Seq(Pcbs) /\ IsInjective(ReadyQ(s, r))
                              /\ Range(ReadyQ(s, r)) \subseteq Pcbs
         /\ \A r, x \in Prios : \A p \in Range(ReadyQ(s, r)) :
              p \in Range(ReadyQ(s, x)) => r = x
         /\ \A p \in D : NotReady(s, p)
         /\ \A p \in Pcbs : s.pcbs[p].state # "READY" => NotReady(s, p)
<1>1. \A r \in Prios : /\ ReadyQ(s, r) \in Seq(Pcbs) /\ IsInjective(ReadyQ(s, r))
                       /\ Range(ReadyQ(s, r)) = {p \in Pcbs \ D : Home(s.pcbs[p]) = Ready(r)}
  BY ReadyType DEF ReadyQ, Loose, KStates
<1>2. \A r, x \in Prios : \A p \in Range(ReadyQ(s, r)) :
        p \in Range(ReadyQ(s, x)) => r = x
  BY <1>1, ReadyNames
<1>3. \A p \in D : NotReady(s, p)
  BY <1>1 DEF NotReady
<1>4. ASSUME NEW p \in Pcbs, s.pcbs[p].state # "READY" PROVE NotReady(s, p)
  <2>1. Home(s.pcbs[p]) \notin {"ready0", "ready1", "ready2", "ready3"}
    BY <1>4 DEF Home
  <2> QED BY <1>1, <2>1, ReadyNames DEF NotReady
<1> QED BY <1>1, <1>2, <1>3, <1>4

\* A queue keeps its own line.
LEMMA LineSame ==
  ASSUME NEW T, NEW q \in Seq(T), IsInjective(q)
  PROVE  KeepsLine(q, q)
<1> SUFFICES ASSUME NEW i \in DOMAIN q, NEW l \in DOMAIN q, q[l] = q[i],
                    NEW m \in 1 .. l - 1
             PROVE  \E j \in 1 .. i - 1 : q[m] = q[j]
  BY DEF KeepsLine
<1>1. i = l
  BY DEF IsInjective
<1> QED BY <1>1

\* Taking an entry out keeps the line of the others.
LEMMA LineRemove ==
  ASSUME NEW T, NEW q \in Seq(T), IsInjective(q), NEW k \in 1 .. Len(q)
  PROVE  KeepsLine(q, RemoveAt(q, k))
<1> DEFINE a == RemoveAt(q, k)
<1>1. /\ a \in Seq(T) /\ Len(a) = Len(q) - 1
      /\ \A i \in 1 .. Len(q) - 1 : a[i] = IF i < k THEN q[i] ELSE q[i + 1]
  BY RemoveAtEntries
<1>2. Len(q) \in Nat /\ DOMAIN q = 1 .. Len(q) /\ DOMAIN a = 1 .. Len(q) - 1
  BY <1>1
<1> HIDE DEF a
<1> SUFFICES ASSUME NEW i \in DOMAIN q, NEW l \in DOMAIN a, a[l] = q[i],
                    NEW m \in 1 .. l - 1
             PROVE  \E j \in 1 .. i - 1 : a[m] = q[j]
  BY DEF KeepsLine, a
<1> DEFINE y == IF l < k THEN l ELSE l + 1
           x == IF m < k THEN m ELSE m + 1
<1>3. /\ y \in 1 .. Len(q) /\ a[l] = q[y]
      /\ x \in 1 .. Len(q) /\ a[m] = q[x] /\ x \in 1 .. y - 1
  BY <1>1, <1>2
<1> HIDE DEF x, y
<1>4. y = i
  BY <1>2, <1>3 DEF IsInjective
<1> QED BY <1>3, <1>4

\* A newcomer at the end stands in front of nobody.
LEMMA LineAppend ==
  ASSUME NEW T, NEW q \in Seq(T), NEW w \in Seq(T), KeepsLine(q, w),
         NEW x \in T, x \notin Range(q)
  PROVE  KeepsLine(q, Append(w, x))
<1> DEFINE a == Append(w, x)
<1>1. /\ Len(w) \in Nat /\ DOMAIN w = 1 .. Len(w) /\ DOMAIN a = 1 .. Len(w) + 1
      /\ a[Len(w) + 1] = x /\ \A i \in 1 .. Len(w) : a[i] = w[i]
  OBVIOUS
<1> HIDE DEF a
<1> SUFFICES ASSUME NEW i \in DOMAIN q, NEW l \in DOMAIN a, a[l] = q[i],
                    NEW m \in 1 .. l - 1
             PROVE  \E j \in 1 .. i - 1 : a[m] = q[j]
  BY DEF KeepsLine, a
<1>2. l # Len(w) + 1
  BY <1>1 DEF Range
<1>3. l \in DOMAIN w /\ w[l] = q[i] /\ m \in 1 .. Len(w) /\ a[m] = w[m]
  BY <1>1, <1>2
<1> QED BY <1>3 DEF KeepsLine

\* When the first leaves, the others move up.
LEMMA LineTail ==
  ASSUME NEW T, NEW q \in Seq(T), NEW w \in Seq(T), KeepsLine(q, w), w # <<>>
  PROVE  KeepsLine(q, Tail(w))
<1> DEFINE a == Tail(w)
<1>1. /\ Len(w) \in Nat /\ DOMAIN w = 1 .. Len(w) /\ DOMAIN a = 1 .. Len(w) - 1
      /\ \A i \in 1 .. Len(w) - 1 : a[i] = w[i + 1]
  OBVIOUS
<1> HIDE DEF a
<1> SUFFICES ASSUME NEW i \in DOMAIN q, NEW l \in DOMAIN a, a[l] = q[i],
                    NEW m \in 1 .. l - 1
             PROVE  \E j \in 1 .. i - 1 : a[m] = q[j]
  BY DEF KeepsLine, a
<1>2. /\ l + 1 \in DOMAIN w /\ w[l + 1] = q[i]
      /\ m + 1 \in 1 .. (l + 1) - 1 /\ a[m] = w[m + 1]
  BY <1>1
<1> QED BY <1>2 DEF KeepsLine

\* Untouched ready queues keep their lines.
LEMMA LinedSame ==
  ASSUME NEW s \in KStates, NEW D, Loose(s, D), NEW t, SameReady(s, t)
  PROVE  Lined(s, t)
<1> SUFFICES ASSUME NEW r \in Prios
             PROVE  /\ KeepsLine(ReadyQ(s, r), ReadyQ(t, r))
                    /\ \A x \in Range(ReadyQ(t, r)) :
                         x \in Range(ReadyQ(s, r)) \/ NotReady(s, x)
  BY DEF Lined
<1>1. ReadyQ(s, r) \in Seq(Pcbs) /\ IsInjective(ReadyQ(s, r))
  BY ReadyFacts
<1>2. KeepsLine(ReadyQ(s, r), ReadyQ(s, r))
  BY <1>1, LineSame
<1> QED BY <1>2 DEF SameReady

\* _q_remove keeps the lines, whatever queue it works on.
LEMMA LinedRemove ==
  ASSUME NEW s \in KStates, NEW D, Loose(s, D), NEW n \in QNames, NEW p, NEW who
  PROVE  Lined(s, q_remove(s, n, p, who))
<1> DEFINE t == q_remove(s, n, p, who)
<1>1. /\ \A m \in QNames \ {n} : t.queues[m] = s.queues[m]
      /\ \/ t.queues[n] = s.queues[n]
         \/ \E k \in DOMAIN s.queues[n] : t.queues[n] = RemoveAt(s.queues[n], k)
  BY RemoveElsewhere
<1> HIDE DEF t
<1> SUFFICES ASSUME NEW r \in Prios
             PROVE  /\ KeepsLine(ReadyQ(s, r), ReadyQ(t, r))
                    /\ Range(ReadyQ(t, r)) \subseteq Range(ReadyQ(s, r))
  BY DEF Lined, t
<1>2. ReadyQ(s, r) \in Seq(Pcbs) /\ IsInjective(ReadyQ(s, r))
  BY ReadyFacts
<1>3. CASE ReadyQ(t, r) = ReadyQ(s, r)
  BY <1>2, <1>3, LineSame
<1>4. CASE ReadyQ(t, r) # ReadyQ(s, r)
  <2>1. PICK k \in DOMAIN ReadyQ(s, r) : ReadyQ(t, r) = RemoveAt(ReadyQ(s, r), k)
    BY <1>1, <1>4, ReadyType DEF ReadyQ
  <2>2. k \in 1 .. Len(ReadyQ(s, r))
    BY <1>2
  <2> QED BY <1>2, <2>1, <2>2, LineRemove, RemoveAtRange
<1> QED BY <1>3, <1>4

\* A process that was not ready may join at the end.
LEMMA LinedJoin ==
  ASSUME NEW s \in KStates, NEW D, Loose(s, D), NEW o \in KStates, Lined(s, o),
         NEW p \in Pcbs, NotReady(s, p), NEW t, Joins(o, t, p)
  PROVE  Lined(s, t)
<1> SUFFICES ASSUME NEW r \in Prios
             PROVE  /\ KeepsLine(ReadyQ(s, r), ReadyQ(t, r))
                    /\ \A x \in Range(ReadyQ(t, r)) :
                         x \in Range(ReadyQ(s, r)) \/ NotReady(s, x)
  BY DEF Lined
<1>1. ReadyQ(s, r) \in Seq(Pcbs) /\ ReadyQ(o, r) \in Seq(Pcbs)
  BY ReadyType DEF ReadyQ, KStates
<1>2. /\ KeepsLine(ReadyQ(s, r), ReadyQ(o, r))
      /\ \A x \in Range(ReadyQ(o, r)) : x \in Range(ReadyQ(s, r)) \/ NotReady(s, x)
  BY DEF Lined
<1>3. CASE ReadyQ(t, r) = ReadyQ(o, r)
  BY <1>2, <1>3
<1>4. CASE ReadyQ(t, r) = Append(ReadyQ(o, r), p)
  <2>1. p \notin Range(ReadyQ(s, r))
    BY DEF NotReady
  <2>2. Range(Append(ReadyQ(o, r), p)) \subseteq Range(ReadyQ(o, r)) \cup {p}
    BY <1>1 DEF Range
  <2>3. KeepsLine(ReadyQ(s, r), Append(ReadyQ(o, r), p))
    BY <1>1, <1>2, <2>1, LineAppend
  <2> QED BY <1>2, <1>4, <2>2, <2>3
<1> QED BY <1>3, <1>4 DEF Joins

\* A handler that does not dispatch leaves the turns as they are.
LEMMA NoDispatch ==
  ASSUME NEW s, Start(s), NEW t, Lined(s, t), Sorted(s) => Sorted(t),
         t.current = s.current
  PROVE  Orderly(s, t)
<1>1. s \in KStates /\ Loose(s, {s.current})
  BY DEF Start, Sane
<1>2. NotReady(s, s.current)
  BY <1>1, ReadyFacts
<1>3. \A r \in Prios : \A j \in DOMAIN ReadyQ(s, r) : s.current # ReadyQ(s, r)[j]
  BY <1>2 DEF NotReady, Range
<1>4. TakesTurn(s, t)
  <2> SUFFICES ASSUME NEW r \in Prios, NEW i \in DOMAIN ReadyQ(s, r),
                      NEW j \in i + 1 .. Len(ReadyQ(s, r))
               PROVE  t.current # ReadyQ(s, r)[j]
    BY DEF TakesTurn
  <2>1. ReadyQ(s, r) \in Seq(Pcbs)
    BY <1>1, ReadyFacts
  <2>2. j \in DOMAIN ReadyQ(s, r)
    BY <2>1
  <2> QED BY <1>3, <2>2
<1> QED BY <1>4 DEF Orderly

(***************************************************************************)
(* _dispatch: the one that gets the CPU was at the head of its queue, so   *)
(* whoever is left there came later, and on the other queues nobody can    *)
(* have been passed over for it.                                           *)
(***************************************************************************)
LEMMA ThenDispatch ==
  ASSUME NEW s, Start(s), NEW u, Ok(u, {}, 0), Lined(s, u), Sorted(s) => Sorted(u),
         dispatch(u).panic = "none"
  PROVE  Orderly(s, dispatch(u))
<1> DEFINE t == dispatch(u)
<1>1. s \in KStates /\ Loose(s, {s.current}) /\ u \in KStates
  BY DEF Start, Sane, Ok
<1>2. Sane(u, {}, 0)
  <2>1. u.panic = "none"
    BY <1>1 DEF dispatch, kpanic, q_deque, KStates
  <2> QED BY <2>1 DEF Ok
<1>3. /\ SameWakeups(u, t) /\ t.queues["sleeping"] = u.queues["sleeping"] /\ Outranks(t)
  BY <1>2, DispatchTurn
<1>4. PICK n \in Prios : /\ ReadyQ(u, n) # <<>> /\ t.current = Head(ReadyQ(u, n))
                         /\ ReadyQ(t, n) = Tail(ReadyQ(u, n))
                         /\ \A r \in Prios \ {n} : ReadyQ(t, r) = ReadyQ(u, r)
  BY <1>2, DispatchTurn
<1>5. Sorted(s) => Sorted(t)
  <2>1. Range(u.queues["sleeping"]) \subseteq Pcbs
    <3>1. u.queues["sleeping"] \in Seq(Pcbs)
      BY <1>1 DEF KStates, QNames
    <3> QED BY <3>1 DEF Range
  <2> QED BY <1>3, <2>1, SortedSame DEF SameSleepers, SameWakeups
<1> HIDE DEF t
<1> DEFINE w(r) == ReadyQ(u, r)
           q(r) == ReadyQ(s, r)
<1>6. \A r \in Prios : w(r) \in Seq(Pcbs) /\ q(r) \in Seq(Pcbs) /\ IsInjective(q(r))
  BY <1>1, <1>2, ReadyFacts DEF Sane
<1>7. \A r \in Prios : /\ KeepsLine(q(r), w(r))
                       /\ \A x \in Range(w(r)) : x \in Range(q(r)) \/ NotReady(s, x)
  BY DEF Lined
<1>8. t.current = w(n)[1] /\ 1 \in DOMAIN w(n)
  BY <1>4, <1>6
<1>9. Lined(s, t)
  <2> SUFFICES ASSUME NEW r \in Prios
               PROVE  /\ KeepsLine(q(r), ReadyQ(t, r))
                      /\ Range(ReadyQ(t, r)) \subseteq Range(w(r))
    BY <1>7 DEF Lined
  <2>1. CASE r # n
    BY <1>4, <1>7, <2>1
  <2>2. CASE r = n
    <3>1. KeepsLine(q(n), Tail(w(n)))
      BY <1>4, <1>6, <1>7, LineTail
    <3>2. Range(Tail(w(n))) \subseteq Range(w(n))
      <4>1. w(n) \in Seq(Pcbs) /\ w(n) # <<>>
        BY <1>4, <1>6
      <4> HIDE DEF w
      <4> QED BY <4>1 DEF Range
    <3> QED BY <1>4, <2>2, <3>1, <3>2
  <2> QED BY <2>1, <2>2
<1>10. TakesTurn(s, t)
  <2> SUFFICES ASSUME NEW r \in Prios, NEW i \in DOMAIN q(r), NEW l \in DOMAIN ReadyQ(t, r),
                      ReadyQ(t, r)[l] = q(r)[i],
                      NEW j \in i + 1 .. Len(q(r)), t.current = q(r)[j]
               PROVE  FALSE
    BY DEF TakesTurn
  <2>1. i \in 1 .. Len(q(r)) /\ j \in DOMAIN q(r) /\ i < j
    BY <1>6
  <2>2. t.current \in Range(q(r)) /\ t.current \in Range(w(n))
    BY <1>8, <2>1 DEF Range
  <2>3. t.current \in Range(q(n))
    BY <1>7, <2>2 DEF NotReady
  <2>4. r = n
    BY <1>1, <2>2, <2>3, ReadyFacts
  <2>5. l + 1 \in DOMAIN w(n) /\ w(n)[l + 1] = q(n)[i] /\ 1 \in 1 .. (l + 1) - 1
    <3>1. w(n) \in Seq(Pcbs) /\ w(n) # <<>> /\ ReadyQ(t, n) = Tail(w(n))
      BY <1>4, <1>6
    <3> HIDE DEF w
    <3>2. l \in 1 .. Len(w(n)) - 1 /\ Len(w(n)) \in Nat /\ Tail(w(n))[l] = w(n)[l + 1]
      BY <2>4, <3>1
    <3> QED BY <2>4, <3>1, <3>2
  <2>6. PICK k \in 1 .. i - 1 : w(n)[1] = q(n)[k]
    <3>1. KeepsLine(q(n), w(n)) /\ i \in DOMAIN q(n)
      BY <1>7, <2>4
    <3> HIDE DEF q, w
    <3> QED BY <2>5, <3>1 DEF KeepsLine
  <2>7. k \in DOMAIN q(n) /\ k < j /\ q(n)[k] = q(n)[j]
    <3>1. q(n) \in Seq(Pcbs) /\ t.current = q(n)[j] /\ i \in 1 .. Len(q(n))
      BY <1>6, <2>1, <2>4
    <3> HIDE DEF q, w
    <3> QED BY <1>8, <2>1, <2>6, <3>1
  <2>8. j \in DOMAIN q(n) /\ IsInjective(q(n))
    BY <1>6, <2>1, <2>4
  <2> QED BY <2>1, <2>7, <2>8 DEF IsInjective
<1> QED BY <1>3, <1>5, <1>9, <1>10 DEF Orderly, t

-----------------------------------------------------------------------------
(* The handlers *)

\* The same queue and the same wake-up times are sorted the same.
LEMMA StaysSorted ==
  ASSUME NEW s \in KStates, NEW t, SameWakeups(s, t),
         t.queues["sleeping"] = s.queues["sleeping"], Sorted(s)
  PROVE  Sorted(t)
<1>1. s.queues["sleeping"] \in Seq(Pcbs)
  BY DEF KStates, QNames
<1>2. Range(s.queues["sleeping"]) \subseteq Pcbs
  BY <1>1 DEF Range
<1> QED BY <1>2, SortedSame DEF SameSleepers, SameWakeups

\* A handler that touches neither the ready queues nor the sleepers.
LEMMA QuietOrder ==
  ASSUME NEW s, Start(s), NEW t, SameReady(s, t), SameWakeups(s, t),
         t.queues["sleeping"] = s.queues["sleeping"], t.current = s.current
  PROVE  Orderly(s, t)
<1>1. s \in KStates /\ Loose(s, {s.current})
  BY DEF Start, Sane
<1>2. Lined(s, t)
  BY <1>1, LinedSame
<1>3. Sorted(s) => Sorted(t)
  BY <1>1, StaysSorted
<1> QED BY <1>2, <1>3, NoDispatch

\* Burying a process lets at most its waiting parent join a ready queue.
LEMMA BuryOrder ==
  ASSUME NEW s \in KStates, NEW E, Loose(s, E), NEW o, Lined(s, o),
         NEW D, NEW d \in Nat, d > 0, Sane(o, D, d),
         NEW p \in Pcbs, p \in D, o.pcbs[p].state \in {"KILLED", "ZOMBIE"},
         \A r \in D : o.pcbs[r].state # "WAITING",
         \A r \in Pcbs : o.pcbs[r].state = "WAITING" => s.pcbs[r].state = "WAITING"
  PROVE  Lined(s, zombify(o, p)) /\ (Sorted(o) => Sorted(zombify(o, p)))
<1> DEFINE z == zombify(o, p)
<1>1. o \in KStates
  BY DEF Sane
<1>2. /\ SameWakeups(o, z) /\ z.queues["sleeping"] = o.queues["sleeping"]
      /\ \/ SameReady(o, z)
         \/ \E q \in Pcbs : o.pcbs[q].state = "WAITING" /\ Joins(o, z, q)
  BY ZombifyJoins
<1> HIDE DEF z
<1>3. Sorted(o) => Sorted(z)
  BY <1>1, <1>2, StaysSorted
<1>4. CASE SameReady(o, z)
  BY <1>3, <1>4 DEF Lined, SameReady, z
<1>5. CASE \E q \in Pcbs : o.pcbs[q].state = "WAITING" /\ Joins(o, z, q)
  <2>1. PICK q \in Pcbs : o.pcbs[q].state = "WAITING" /\ Joins(o, z, q)
    BY <1>5
  <2>2. NotReady(s, q)
    BY <2>1, ReadyFacts
  <2>3. Lined(s, z)
    BY <1>1, <2>1, <2>2, LinedJoin
  <2> QED BY <1>3, <2>3 DEF z
<1> QED BY <1>2, <1>4, <1>5

\* Changing a PCB on no queue disturbs no order.
LEMMA EditOrder ==
  ASSUME NEW s \in KStates, NEW D, Loose(s, D), NEW p \in D, NEW t,
         t.queues = s.queues, SameBut(s, t, p)
  PROVE  SameReady(s, t) /\ SameSleepers(s, t) /\ (Sorted(s) => Sorted(t))
<1>1. SameReady(s, t)
  BY DEF SameReady, ReadyQ
<1>2. Range(s.queues["sleeping"]) \subseteq Pcbs \ {p}
  BY DEF Loose, QNames
<1>3. SameSleepers(s, t)
  BY <1>2 DEF SameSleepers, SameBut
<1> QED BY <1>1, <1>3, SortedSame

\* exit() and a page fault.
LEMMA DieOrder ==
  ASSUME NEW s, Start(s), NEW st \in {"KILLED", "ZOMBIE"},
         dispatch(zombify(InState(s, s.current, st), s.current)).panic = "none"
  PROVE  Orderly(s, dispatch(zombify(InState(s, s.current, st), s.current)))
<1> DEFINE p == s.current
           o == InState(s, p, st)
           z == zombify(o, p)
<1>1. /\ s \in KStates /\ p \in Pcbs /\ Sane(s, {p}, 1) /\ s.pcbs[p].state # "FREE"
      /\ Loose(s, {p})
  BY StartType DEF Start, Sane
<1> HIDE DEF p
<1>2. Sane(o, {p}, 1) /\ SameBut(s, o, p) /\ o.pcbs[p].state = st
  BY <1>1, ChangeState DEF States
<1>3. o.queues = s.queues
  BY <1>1 DEF InState, KStates
<1> HIDE DEF o
<1>4. SameReady(s, o) /\ (Sorted(s) => Sorted(o))
  BY <1>1, <1>2, <1>3, EditOrder
<1>5. Lined(s, o)
  BY <1>1, <1>4, LinedSame
<1>6. \A r \in Pcbs : o.pcbs[r].state = "WAITING" => s.pcbs[r].state = "WAITING"
  BY <1>2 DEF SameBut
<1>7. Lined(s, z) /\ (Sorted(o) => Sorted(z))
  BY <1>1, <1>2, <1>5, <1>6, BuryOrder
<1>8. Ok(z, {p} \ {p}, 1 - 1)
  BY <1>1, <1>2, ZombifyOK
<1>9. {p} \ {p} = {} /\ 1 - 1 = 0
  OBVIOUS
<1> HIDE DEF z
<1>10. Ok(z, {}, 0)
  BY <1>8, <1>9
<1>11. dispatch(z).panic = "none"
  BY DEF p, o, z
<1>12. Orderly(s, dispatch(z))
  BY <1>4, <1>7, <1>10, <1>11, ThenDispatch
<1> QED BY <1>12 DEF p, o, z

\* sleep(0) and the end of a quantum.
LEMMA YieldOrder ==
  ASSUME NEW s, Start(s), dispatch(schedule(s, s.current)).panic = "none"
  PROVE  Orderly(s, dispatch(schedule(s, s.current)))
<1> DEFINE p == s.current
           t == schedule(s, p)
<1>1. /\ s \in KStates /\ p \in Pcbs /\ Sane(s, {p}, 1) /\ s.pcbs[p].state # "FREE"
      /\ Loose(s, {p})
  BY StartType DEF Start, Sane
<1> HIDE DEF p
<1>2. Sane(t, {p} \ {p}, 1 - 1)
  BY <1>1, ScheduleOK
<1>3. {p} \ {p} = {} /\ 1 - 1 = 0
  OBVIOUS
<1>4. /\ SameWakeups(s, t) /\ Joins(s, t, p)
      /\ t.queues["sleeping"] = s.queues["sleeping"]
  BY <1>1, ScheduleJoins
<1> HIDE DEF t
<1>5. Ok(t, {}, 0)
  BY <1>2, <1>3 DEF Ok, Sane
<1>6. Sorted(s) => Sorted(t)
  BY <1>1, <1>4, StaysSorted
<1>7. NotReady(s, p)
  BY <1>1, ReadyFacts
<1>8. Lined(s, s)
  BY <1>1, LinedSame DEF SameReady
<1>9. Lined(s, t)
  BY <1>1, <1>4, <1>7, <1>8, LinedJoin
<1>10. dispatch(t).panic = "none"
  BY DEF p, t
<1>11. Orderly(s, dispatch(t))
  BY <1>5, <1>6, <1>9, <1>10, ThenDispatch
<1> QED BY <1>11 DEF p, t

\* sleep(), wait() and a read that blocks: t is the caller in its new state.
LEMMA BlockOrder ==
  ASSUME NEW s, Start(s), NEW t, Sane(t, {s.current}, 1), t.queues = s.queues,
         SameBut(s, t, s.current), NEW n \in {"sleeping", "waiting", "reading"},
         Placeable(t, s.current), Home(t.pcbs[s.current]) = n, NEW who,
         dispatch(enque_or_panic(t, n, s.current, who)).panic = "none"
  PROVE  /\ Orderly(s, dispatch(enque_or_panic(t, n, s.current, who)))
         /\ enque_or_panic(t, n, s.current, who) = q_enque(t, n, s.current)
<1> DEFINE p == s.current
           u == q_enque(t, n, p)
<1>1. /\ s \in KStates /\ p \in Pcbs /\ Loose(s, {p}) /\ t \in KStates /\ n \in QNames
      /\ Sane(t, {p}, 1)
  BY StartType DEF Start, Sane, QNames
<1>2. SameBut(s, t, p) /\ Placeable(t, p) /\ Home(t.pcbs[p]) = n
  OBVIOUS
<1>3. enque_or_panic(t, n, s.current, who) = enque_or_panic(t, n, p, who)
      /\ p = s.current
  OBVIOUS
<1> HIDE DEF p
<1>4. t.qnodes # 0 /\ Sane(u, {p} \ {p}, 1 - 1)
  BY <1>1, <1>2, EnqueOK
<1>5. enque_or_panic(t, n, p, who) = u
  BY <1>4 DEF enque_or_panic
<1>6. {p} \ {p} = {} /\ 1 - 1 = 0
  OBVIOUS
<1>7. \A m \in QNames \ {n} : u.queues[m] = t.queues[m]
  BY <1>1, EnqueElsewhere
<1>8. u.pcbs = t.pcbs
  BY <1>1, EnqueElsewhere
<1>9. SameReady(s, t) /\ (Sorted(s) => Sorted(t))
  BY <1>1, <1>2, EditOrder
<1>10. Sorted(t) => Sorted(u)
  <2>1. CASE n = "sleeping"
    BY <1>1, <2>1, SleepSorted
  <2>2. CASE n # "sleeping"
    <3> HIDE DEF u
    <3> QED BY <1>7, <1>8, <2>2 DEF Sorted, QNames
  <2> QED BY <2>1, <2>2
<1> HIDE DEF u
<1>11. Ok(u, {}, 0)
  BY <1>4, <1>6 DEF Ok, Sane
<1>12. SameReady(s, u)
  BY <1>7, <1>9, ReadyNames, ReadyType DEF SameReady, ReadyQ
<1>13. Lined(s, u)
  BY <1>1, <1>12, LinedSame
<1>14. dispatch(u).panic = "none"
  BY <1>3, <1>5
<1>15. Orderly(s, dispatch(u))
  BY <1>9, <1>10, <1>11, <1>13, <1>14, ThenDispatch
<1> QED BY <1>3, <1>5, <1>15 DEF u

\* kill(): a victim other than the caller leaves its place in a queue.
LEMMA KillOrder ==
  ASSUME NEW s, Start(s), NEW victim \in Pcbs, kill_victim(s, victim).panic = "none"
  PROVE  Orderly(s, kill_victim(s, victim))
<1> DEFINE pcb == s.pcbs[victim]
           off == IF pcb.state = "RUNNING" THEN s
                  ELSE q_remove(s, Home(pcb), victim, "_sys_kill")
           t == InState(off, victim, "KILLED")
           dead == zombify(t, victim)
<1>1. /\ s \in KStates /\ pcb \in PcbRecords /\ s.current \in Pcbs
      /\ Sane(s, {s.current}, 1) /\ s.pcbs[s.current].state = "RUNNING"
      /\ Loose(s, {s.current})
  BY StartType DEF Start, KStates, Sane
<1>2. CASE pcb.state \in {"KILLED", "ZOMBIE"}
  <2>1. kill_victim(s, victim) = s
    BY <1>2 DEF kill_victim
  <2> QED BY <2>1, QuietOrder DEF SameReady, SameWakeups
<1>3. CASE pcb.state \in {"FREE", "NEW"}
  <2>1. kill_victim(s, victim) = kpanic(s, "bad victim state")
    BY <1>3 DEF kill_victim
  <2> QED BY <1>1, <2>1, PanicType DEF PanicNames, Panics, QueuePanics
<1>4. CASE pcb.state \notin {"KILLED", "ZOMBIE", "FREE", "NEW"}
  <2>1. kill_victim(s, victim)
          = IF victim = s.current THEN dispatch(dead) ELSE dead
    BY <1>4 DEF kill_victim, InState
  <2>2. CASE victim = s.current
    <3>1. off = s
      BY <1>1, <2>2
    <3> QED
      BY <2>1, <2>2, <3>1, DieOrder
  <2>3. CASE victim # s.current
    <3>1. pcb.state # "RUNNING"
      BY <1>1, <2>3 DEF Sane, Loose
    <3>2. off = q_remove(s, Home(pcb), victim, "_sys_kill")
      BY <3>1
    <3>3. Home(pcb) \in QNames
      BY <1>1, HomeType
    <3> HIDE DEF off
    <3>4. /\ Sane(off, {s.current} \cup {victim}, 1 + 1) /\ SamePcbs(s, off)
          /\ off \in KStates
      BY <1>1, <2>3, <3>2, <3>3, RemoveOK DEF Sane
    <3>5. Lined(s, off)
      BY <1>1, <3>2, <3>3, LinedRemove
    <3>6. Sorted(s) => Sorted(off)
      <4>1. CASE Home(pcb) = "sleeping"
        BY <1>1, <3>2, <4>1, RemoveSorted
      <4>2. CASE Home(pcb) # "sleeping"
        <5>1. off.queues["sleeping"] = s.queues["sleeping"] /\ off.pcbs = s.pcbs
          BY <1>1, <3>2, <3>3, <4>2, RemoveElsewhere DEF QNames
        <5> QED BY <5>1 DEF Sorted
      <4> QED BY <4>1, <4>2
    <3> DEFINE D == {s.current} \cup {victim}
    <3>7. /\ Sane(off, D, 2) /\ victim \in D /\ off.pcbs[victim].state # "FREE"
          /\ Loose(off, D)
      BY <1>4, <3>4 DEF SamePcbs, Sane
    <3>8. \A r \in D : r = victim \/ r = s.current
      OBVIOUS
    <3> HIDE DEF D
    <3>9. Sane(t, D, 2) /\ SameBut(off, t, victim) /\ t.pcbs[victim].state = "KILLED"
      BY <3>7, ChangeState DEF States
    <3>10. t.queues = off.queues
      BY <3>4 DEF InState, KStates
    <3> HIDE DEF t
    <3>11. SameReady(off, t) /\ (Sorted(off) => Sorted(t))
      BY <3>4, <3>7, <3>9, <3>10, EditOrder
    <3>12. Lined(s, t)
      BY <3>5, <3>11 DEF Lined, SameReady
    <3>13. /\ \A r \in D : t.pcbs[r].state # "WAITING"
           /\ \A r \in Pcbs : t.pcbs[r].state = "WAITING" => s.pcbs[r].state = "WAITING"
           /\ t.current = s.current
      BY <1>1, <2>3, <3>4, <3>8, <3>9 DEF SameBut, SamePcbs, SameCpu
    <3>14. Lined(s, dead) /\ (Sorted(t) => Sorted(dead))
      BY <1>1, <3>7, <3>9, <3>12, <3>13, BuryOrder
    <3>15. Ok(dead, D \ {victim}, 2 - 1) /\ dead.current = t.current
      <4>1. 2 \in Nat /\ 2 > 0 /\ victim \in Pcbs /\ victim \in D
        BY <1>1, <3>7
      <4>2. t.pcbs[victim].state \in {"KILLED", "ZOMBIE"}
        BY <3>9
      <4> QED BY <3>9, <3>13, <4>1, <4>2, ZombifyOK, SMTT(60)
    <3> HIDE DEF dead
    <3>16. Orderly(s, dead)
      BY <3>6, <3>11, <3>13, <3>14, <3>15, NoDispatch
    <3> QED BY <2>1, <2>3, <3>16
  <2> QED BY <2>2, <2>3
<1> QED BY <1>2, <1>3, <1>4

\* wait() that finds a child works on the zombie and free queues.
LEMMA ReapOrder ==
  ASSUME NEW s, Start(s), s.pcbs[s.current].children # 0,
         NEW child \in Pcbs, s.pcbs[child].state = "ZOMBIE"
  PROVE  Orderly(s, wait_reap(s, s.current, child))
<1> DEFINE t == wait_reap(s, s.current, child)
<1>1. /\ s \in KStates /\ s.current \in Pcbs /\ s.pcbs[s.current] \in PcbRecords
      /\ s.pcbs[s.current].state = "RUNNING" /\ child # s.current
  BY StartType DEF Start
<1>2. PICK u \in KStates :
        /\ t = pcb_cleanup(u, child) /\ SameBut(s, u, s.current)
        /\ u.pcbs[s.current] = [s.pcbs[s.current] EXCEPT !.children = @ - 1]
        /\ \A m \in QNames \ {"zombie"} : u.queues[m] = s.queues[m]
  BY ReapOK
<1>3. Done(t)
  BY ReapOK
<1> HIDE DEF t
<1>4. SameWakeups(s, u)
  BY <1>1, <1>2 DEF SameWakeups, SameBut, PcbRecords
<1>5. /\ \A m \in QNames \ {"free"} : t.queues[m] = u.queues[m]
      /\ SameWakeups(u, t)
  BY <1>2, CleanupElsewhere
<1>6. SameReady(s, t) /\ SameWakeups(s, t) /\ t.queues["sleeping"] = s.queues["sleeping"]
  BY <1>2, <1>4, <1>5, ReadyNames, ReadyType DEF SameReady, ReadyQ, SameWakeups, QNames
<1>7. t.current = s.current
  BY <1>2 DEF pcb_cleanup, pcb_dealloc, stk_dealloc, q_enque, KStates, SameBut, SameCpu
<1> QED BY <1>6, <1>7, QuietOrder DEF t

\* fork() without a stack: out of the free queue and back.
LEMMA NoStackOrder ==
  ASSUME NEW s, Start(s), s.queues["free"] # <<>>
  PROVE  Orderly(s, pcb_dealloc(pcb_alloc(s), Head(s.queues["free"])))
<1> DEFINE new == Head(s.queues["free"])
           a == q_deque(s, "free")
           b == [a EXCEPT !.pcbs[new].state = "NEW"]
           c == [b EXCEPT !.pcbs[new].state = "FREE", !.pcbs[new].pid = NO_PID,
                          !.pcbs[new].ppid = NO_PID]
           t == q_enque(c, "free", new)
<1>1. s \in KStates /\ "free" \in QNames
  BY DEF Start, Sane, QNames
<1>2. /\ Done(t) /\ new \in Pcbs /\ SameBut(s, t, new)
      /\ t.pcbs[new] = [s.pcbs[new] EXCEPT !.state = "FREE", !.pid = NO_PID,
                                            !.ppid = NO_PID]
      /\ t = pcb_dealloc(pcb_alloc(s), new)
  BY NoStackOK DEF pcb_dealloc, pcb_alloc
<1>3. \A m \in QNames \ {"free"} : c.queues[m] = s.queues[m]
  BY <1>1 DEF q_deque, KStates
<1>4. \A m \in QNames \ {"free"} : t.queues[m] = c.queues[m]
  <2>1. c.queues \in [QNames -> Seq(Pcbs)] /\ DOMAIN c = DOMAIN s
    <3>1. s.queues["free"] \in Seq(Pcbs)
      BY <1>1 DEF KStates
    <3>2. Tail(s.queues["free"]) \in Seq(Pcbs)
      BY <3>1
    <3> QED BY <1>1, <3>2 DEF q_deque, KStates
  <2> HIDE DEF c
  <2>2. CASE c.qnodes = 0
    BY <2>2 DEF q_enque
  <2>3. CASE c.qnodes # 0
    <3> DEFINE v == Append(c.queues["free"], new)
    <3>1. t = [c EXCEPT !.queues["free"] = v, !.qnodes = @ - 1]
      BY <2>3 DEF q_enque
    <3> HIDE DEF v, t
    <3> QED BY <1>1, <2>1, <3>1 DEF KStates
  <2> QED BY <2>2, <2>3
<1> HIDE DEF t, c
<1>5. SameWakeups(s, t)
  <2>1. s.pcbs[new] \in PcbRecords
    BY <1>1, <1>2 DEF KStates
  <2> QED BY <1>2, <2>1 DEF SameWakeups, SameBut, PcbRecords
<1>6. SameReady(s, t) /\ t.queues["sleeping"] = s.queues["sleeping"]
  BY <1>3, <1>4, ReadyNames, ReadyType DEF SameReady, ReadyQ, QNames
<1>7. Orderly(s, t)
  BY <1>2, <1>5, <1>6, QuietOrder DEF SameBut, SameCpu
<1> QED BY <1>2, <1>7

\* fork(): the child goes to the end of its ready queue.
LEMMA ForkOrder ==
  ASSUME NEW s, Start(s), s.queues["free"] # <<>>, s.stacks # <<>>, next_pid \in Nat
  PROVE  Orderly(s, fork_child(s, s.current))
<1> DEFINE new == Head(s.queues["free"])
           p == s.current
           t == fork_child(s, s.current)
<1>1. /\ s \in KStates /\ p \in Pcbs /\ Loose(s, {p}) /\ s.pcbs[p] \in PcbRecords
  BY StartType DEF Start, Sane
<1>2. Done(t) /\ new \in Pcbs \ {p} /\ s.pcbs[new].state = "FREE"
  BY ForkOK
<1>3. PICK w \in KStates :
        /\ t = schedule(w, new)
        /\ w.pcbs[p] = [s.pcbs[p] EXCEPT !.children = @ + 1, !.prog = after_fork(@)]
        /\ \A r \in Pcbs \ {p, new} : w.pcbs[r] = s.pcbs[r]
        /\ \A m \in QNames \ {"free"} : w.queues[m] = s.queues[m]
  BY ForkOK, ZenonT(60)
<1>4. t.current = p
  BY ForkOK
<1> HIDE DEF new, t
<1>5. /\ SameWakeups(w, t) /\ Joins(w, t, new)
      /\ t.queues["sleeping"] = w.queues["sleeping"]
  BY <1>2, <1>3, ScheduleJoins
<1>6. SameReady(s, w) /\ w.queues["sleeping"] = s.queues["sleeping"]
  BY <1>3, ReadyNames, ReadyType DEF SameReady, ReadyQ, QNames
<1>7. SameSleepers(s, w)
  <2>1. Home(s.pcbs[new]) # "sleeping"
    BY <1>2 DEF Home
  <2>2. Range(s.queues["sleeping"]) \subseteq Pcbs \ {p, new}
    BY <1>1, <2>1 DEF Loose, QNames
  <2> QED BY <1>3, <1>6, <2>2 DEF SameSleepers
<1>8. Sorted(s) => Sorted(t)
  BY <1>3, <1>5, <1>7, SortedSame, StaysSorted
<1>9. Lined(s, w)
  BY <1>1, <1>6, LinedSame
<1>10. NotReady(s, new)
  BY <1>1, <1>2, ReadyFacts
<1>11. Lined(s, t)
  BY <1>1, <1>2, <1>5, <1>9, <1>10, LinedJoin
<1>12. Orderly(s, t)
  BY <1>4, <1>8, <1>11, NoDispatch
<1> QED BY <1>12 DEF t

\* An interrupt for a sleeper or a reader.
LEMMA WakeOrder ==
  ASSUME NEW s, Start(s), NEW n \in {"sleeping", "reading"}, s.queues[n] # <<>>
  PROVE  Orderly(s, schedule(q_deque(s, n), Head(s.queues[n])))
<1> DEFINE p == Head(s.queues[n])
           a == q_deque(s, n)
           t == schedule(a, p)
<1>1. /\ s \in KStates /\ s.current \in Pcbs /\ Sane(s, {s.current}, 1) /\ n \in QNames
      /\ Loose(s, {s.current})
  BY StartType DEF Start, Sane, QNames
<1>2. /\ p \in Pcbs \ {s.current} /\ Home(s.pcbs[p]) = n
      /\ Sane(a, {s.current} \cup {p}, 1 + 1) /\ SamePcbs(s, a) /\ a \in KStates
  BY <1>1, DequeOK DEF Sane
<1>3. /\ \A m \in QNames \ {n} : a.queues[m] = s.queues[m]
      /\ a.pcbs = s.pcbs
  BY <1>1, DequeElsewhere
<1>4. Sorted(s) => Sorted(a)
  <2>1. CASE n = "sleeping"
    BY <1>1, <2>1, WakeSorted
  <2>2. CASE n # "sleeping"
    <3> HIDE DEF a
    <3> QED BY <1>3, <2>2 DEF Sorted, QNames
  <2> QED BY <2>1, <2>2
<1> HIDE DEF p, a
<1>5. /\ SameWakeups(a, t) /\ Joins(a, t, p)
      /\ t.queues["sleeping"] = a.queues["sleeping"]
  BY <1>2, ScheduleJoins
<1>6. t.current = s.current
  <2> DEFINE D == {s.current} \cup {p}
  <2>1. Sane(a, D, 2) /\ p \in D /\ a.pcbs[p].state # "FREE" /\ p \in Pcbs
    <3>1. Sane(a, D, 2) /\ p \in D /\ p \in Pcbs
      BY <1>2
    <3>2. s.pcbs[p].state # "FREE"
      BY <1>2 DEF Home
    <3> QED BY <1>3, <3>1, <3>2
  <2> HIDE DEF D
  <2>2. Sane(t, D \ {p}, 2 - 1) /\ SameBut(a, t, p)
    BY <2>1, ScheduleOK
  <2> QED BY <1>2, <2>2 DEF SameBut, SameCpu, SamePcbs
<1> HIDE DEF t
<1>7. Sorted(a) => Sorted(t)
  BY <1>2, <1>5, StaysSorted
<1>8. NotReady(s, p)
  <2>1. s.pcbs[p].state # "READY"
    <3>1. Home(s.pcbs[p]) \notin {"ready0", "ready1", "ready2", "ready3"}
      BY <1>2
    <3> QED BY <3>1, ReadyNames DEF Home
  <2> QED BY <1>1, <1>2, <2>1, ReadyFacts
<1>9. SameReady(s, a)
  BY <1>3, ReadyNames, ReadyType DEF SameReady, ReadyQ
<1>10. Lined(s, a)
  BY <1>1, <1>9, LinedSame
<1>11. Lined(s, t)
  BY <1>1, <1>2, <1>5, <1>8, <1>10, LinedJoin
<1>12. Orderly(s, t)
  BY <1>4, <1>6, <1>7, <1>11, NoDispatch
<1> QED BY <1>12 DEF t, a, p

-----------------------------------------------------------------------------
(* Steps *)

\* What a handler returns is what the next state looks like, panic apart.
LEMMA ReturnOrder ==
  ASSUME IInv, NEW t, Done(t), t.panic = "none" => Orderly(K, t), Return(t)
  PROVE  Orderly(K, K')
<1>1. CASE t.panic = "none"
  <2>1. t \in KStates
    BY <1>1 DEF Done, Sane
  <2>2. /\ panic' = t.panic /\ pcbs' = t.pcbs /\ queues' = t.queues
        /\ free_stacks' = t.stacks /\ free_qnodes' = t.qnodes
        /\ current' = t.current /\ q_ticks' = t.ticks
    BY <1>1 DEF Return
  <2>3. K' = t
    BY <2>1, <2>2 DEF K, KStates
  <2> QED BY <1>1, <2>3
<1>2. CASE t.panic # "none"
  <2>1. UNCHANGED <<pcbs, queues, current>>
    BY <1>2 DEF Return
  <2>2. K'.pcbs = K.pcbs /\ K'.queues = K.queues /\ K'.current = K.current
    BY <2>1 DEF K
  <2> QED BY <2>2, InvStart, QuietOrder DEF SameReady, ReadyQ, SameWakeups
<1> QED BY <1>1, <1>2

\* Nothing but the clock and the next PID changes.
LEMMA IdleOrder ==
  ASSUME IInv, UNCHANGED <<pcbs, queues, current>>
  PROVE  Orderly(K, K')
<1>1. K'.pcbs = K.pcbs /\ K'.queues = K.queues /\ K'.current = K.current
  BY DEF K
<1> QED BY <1>1, InvStart, QuietOrder DEF SameReady, ReadyQ, SameWakeups

(***************************************************************************)
(* Every handler keeps the queues in order.                                *)
(***************************************************************************)
LEMMA StepOrder ==
  ASSUME IInv, [Next]_vars
  PROVE  Orderly(K, K')
<1>1. /\ Start(K) /\ K.current = current /\ current \in Pcbs /\ K \in KStates
      /\ Sane(K, {current}, 1) /\ K.pcbs[current].state = "RUNNING"
      /\ K.pcbs[current] \in PcbRecords
  BY InvStart, StartType, KFields DEF Start
<1>2. K.queues = queues /\ K.pcbs = pcbs /\ K.stacks = free_stacks
  BY KFields
<1>3. /\ now \in 0 .. TIME_MOD - 1 /\ next_pid \in Int
      /\ next_pid \in PID_FIRST_USER .. PID_LIMIT
      /\ q_ticks \in 1 .. QUANT_STD /\ isr \in {"none", "clock"}
  BY NumberAssumption DEF IInv, TypeOK
<1>17. ASSUME Return(K) PROVE Orderly(K, K')
  BY <1>1, <1>17, StartType, QuietOrder, ReturnOrder DEF SameReady, SameWakeups
<1>4. CASE sys_exit
  <2> DEFINE t == dispatch(zombify(InState(K, current, "ZOMBIE"), current))
  <2>1. Done(t) /\ (t.panic = "none" => Orderly(K, t))
    BY <1>1, DieOK, DieOrder
  <2>2. Return(t)
    BY <1>4 DEF sys_exit, InState
  <2> HIDE DEF t
  <2> QED BY <2>1, <2>2, ReturnOrder
<1>5. CASE page_fault_isr
  <2> DEFINE t == dispatch(zombify(InState(K, current, "KILLED"), current))
  <2>1. Done(t) /\ (t.panic = "none" => Orderly(K, t))
    BY <1>1, DieOK, DieOrder
  <2>2. Return(t)
    BY <1>5 DEF page_fault_isr, InState
  <2> HIDE DEF t
  <2> QED BY <2>1, <2>2, ReturnOrder
<1>18. ASSUME NEW t, Sane(t, {current}, 1), t.queues = K.queues, SameBut(K, t, current),
              NEW n \in {"sleeping", "waiting", "reading"},
              Placeable(t, current), Home(t.pcbs[current]) = n, NEW who
       PROVE  LET u == enque_or_panic(t, n, current, who)
              IN  Done(dispatch(u)) /\ (dispatch(u).panic = "none" => Orderly(K, dispatch(u)))
  <2>1. n \in QNames
    BY DEF QNames
  <2>2. Done(dispatch(enque_or_panic(t, n, current, who)))
    BY <1>1, <1>18, <2>1, BlockOK
  <2>3. dispatch(enque_or_panic(t, n, current, who)).panic = "none"
          => Orderly(K, dispatch(enque_or_panic(t, n, current, who)))
    BY <1>1, <1>18, BlockOrder
  <2> QED BY <2>2, <2>3
<1>6. CASE sys_read_block
  <2> DEFINE t == InState(K, current, "BLOCKED")
             u == enque_or_panic(t, "reading", current, "none")
  <2>1. /\ Sane(t, {current}, 1) /\ SameBut(K, t, current)
        /\ t.pcbs[current].state = "BLOCKED"
    BY <1>1, ChangeState DEF States
  <2>2. t.queues = K.queues /\ t.qnodes = K.qnodes
    BY <1>1 DEF InState, KStates
  <2>3. K.qnodes # 0
    BY <1>6, KFields DEF sys_read_block, IInv, TypeOK
  <2>4. u = [q_enque(K, "reading", current) EXCEPT !.pcbs[current].state = "BLOCKED"]
    BY <1>1, <2>2, <2>3 DEF enque_or_panic, q_enque, InState, KStates
  <2>5. Placeable(t, current) /\ Home(t.pcbs[current]) = "reading"
    <3> HIDE DEF t
    <3> QED BY <2>1 DEF Placeable, Home
  <2>6. Done(dispatch(u)) /\ (dispatch(u).panic = "none" => Orderly(K, dispatch(u)))
    <3> HIDE DEF t
    <3> QED BY <1>18, <2>1, <2>2, <2>5
  <2> HIDE DEF u
  <2>7. Return(dispatch(u))
    BY <1>6, <2>4 DEF sys_read_block
  <2> QED BY <2>6, <2>7, ReturnOrder
<1>7. ASSUME NEW msec \in SleepArgs, sys_sleep(msec) PROVE Orderly(K, K')
  <2>1. CASE msec = 0
    <3> DEFINE t == dispatch(schedule(K, current))
    <3>1. Done(t) /\ (t.panic = "none" => Orderly(K, t))
      BY <1>1, YieldOK, YieldOrder
    <3>2. Return(t)
      BY <1>7, <2>1 DEF sys_sleep
    <3> HIDE DEF t
    <3> QED BY <3>1, <3>2, ReturnOrder
  <2>2. CASE msec # 0
    <3> DEFINE i == (now + msec) % TIME_MOD
               c == [K.pcbs[current] EXCEPT !.wakeup = i, !.state = "SLEEPING"]
               t == WithPcb(K, current, c)
               u == [K EXCEPT !.pcbs[current].wakeup = i,
                              !.pcbs[current].state = "SLEEPING"]
    <3>1. i \in Nat
      BY <1>3, NumberAssumption, ArgAssumption
    <3> HIDE DEF i
    <3>2. /\ c \in PcbRecords /\ c.stack = K.pcbs[current].stack
          /\ c.state = "SLEEPING"
      BY <1>1, <3>1 DEF PcbRecords, States
    <3>3. t = u
      BY <1>1 DEF WithPcb, KStates, PcbRecords
    <3> HIDE DEF c, u
    <3>4. /\ Sane(t, {current}, 1) /\ t.pcbs[current] = c
          /\ SameBut(K, t, current) /\ t.queues = K.queues
      BY <1>1, <3>2, Change, SetPcb DEF SameQueues
    <3> HIDE DEF t
    <3>5. Placeable(t, current) /\ Home(t.pcbs[current]) = "sleeping"
      BY <3>2, <3>4 DEF Placeable, Home
    <3> DEFINE v == dispatch(enque_or_panic(t, "sleeping", current, "_sys_sleep"))
    <3>6. Done(v) /\ (v.panic = "none" => Orderly(K, v))
      BY <1>18, <3>4, <3>5
    <3>7. Return(v)
      BY <1>7, <2>2, <3>3 DEF sys_sleep, u, i
    <3> HIDE DEF v
    <3> QED BY <3>6, <3>7, ReturnOrder
  <2> QED BY <2>1, <2>2
<1>8. ASSUME NEW pid \in KillArgs, sys_kill(pid) PROVE Orderly(K, K')
  <2> DEFINE found == HavingPid(K, pid)
             victim == First(found)
  <2>1. Return(IF found = {} THEN K ELSE kill_victim(K, victim))
    BY <1>8 DEF sys_kill
  <2>2. CASE found = {}
    BY <1>17, <2>1, <2>2
  <2>3. CASE found # {}
    <3>1. found \subseteq Nat /\ found \subseteq Pcbs
      BY DEF HavingPid, Pcbs
    <3> HIDE DEF found
    <3>2. victim \in Pcbs
      BY <2>3, <3>1, FirstIn
    <3> HIDE DEF victim
    <3>3. /\ Done(kill_victim(K, victim))
          /\ kill_victim(K, victim).panic = "none" => Orderly(K, kill_victim(K, victim))
      BY <1>1, <3>2, KillOK, KillOrder
    <3> QED BY <2>1, <2>3, <3>3, ReturnOrder
  <2> QED BY <2>2, <2>3
<1>9. CASE sys_wait
  <2> DEFINE zombies == zombies_of(K, current)
             child == First(zombies)
  <2>1. Return(IF pcbs[current].children = 0 THEN K
               ELSE IF zombies # {} THEN wait_reap(K, current, child)
               ELSE wait_block(K, current))
    BY <1>9 DEF sys_wait
  <2>2. CASE pcbs[current].children = 0
    BY <1>17, <2>1, <2>2
  <2>3. CASE pcbs[current].children # 0 /\ zombies # {}
    <3>1. /\ zombies \subseteq Nat /\ zombies \subseteq Pcbs
          /\ \A c \in zombies : K.pcbs[c].state = "ZOMBIE"
      BY DEF zombies_of, ChildrenOf, Pcbs
    <3> HIDE DEF zombies
    <3>2. child \in Pcbs /\ K.pcbs[child].state = "ZOMBIE"
      BY <2>3, <3>1, FirstIn
    <3> HIDE DEF child
    <3>3. Done(wait_reap(K, current, child)) /\ Orderly(K, wait_reap(K, current, child))
      BY <1>1, <1>2, <2>3, <3>2, ReapOK, ReapOrder
    <3> QED BY <2>1, <2>3, <3>3, ReturnOrder
  <2>4. CASE pcbs[current].children # 0 /\ zombies = {}
    <3> DEFINE t == InState(K, current, "WAITING")
               v == dispatch(enque_or_panic(t, "waiting", current, "_sys_wait"))
    <3>1. /\ Sane(t, {current}, 1) /\ t.pcbs[current].state = "WAITING"
          /\ SameBut(K, t, current)
      BY <1>1, ChangeState DEF States
    <3>2. t.queues = K.queues
      BY <1>1 DEF InState, KStates
    <3> HIDE DEF t
    <3>3. Placeable(t, current) /\ Home(t.pcbs[current]) = "waiting"
      BY <3>1 DEF Placeable, Home
    <3>4. Done(v) /\ (v.panic = "none" => Orderly(K, v))
      BY <1>18, <3>1, <3>2, <3>3
    <3>5. v = wait_block(K, current)
      BY DEF wait_block, t, InState
    <3> HIDE DEF v
    <3> QED BY <2>1, <2>4, <3>4, <3>5, ReturnOrder
  <2> QED BY <2>2, <2>3, <2>4
<1>10. CASE sys_fork
  <2>1. CASE next_pid >= PID_LIMIT \/ queues["free"] = <<>>
    BY <1>10, <1>17, <2>1 DEF sys_fork
  <2>2. CASE ~(next_pid >= PID_LIMIT \/ queues["free"] = <<>>) /\ free_stacks = <<>>
    <3> DEFINE t == pcb_dealloc(pcb_alloc(K), Head(queues["free"]))
    <3>1. Done(t) /\ Orderly(K, t)
      BY <1>1, <1>2, <2>2, NoStackOK, NoStackOrder
    <3>2. Return(t)
      BY <1>10, <2>2 DEF sys_fork
    <3> HIDE DEF t
    <3> QED BY <3>1, <3>2, ReturnOrder
  <2>3. CASE ~(next_pid >= PID_LIMIT \/ queues["free"] = <<>>) /\ free_stacks # <<>>
    <3>1. next_pid \in Nat
      BY <1>3, NumberAssumption
    <3>2. Done(fork_child(K, current)) /\ Orderly(K, fork_child(K, current))
      BY <1>1, <1>2, <2>3, <3>1, ForkOK, ForkOrder
    <3>3. Return(fork_child(K, current))
      BY <1>10, <2>3 DEF sys_fork
    <3> QED BY <3>2, <3>3, ReturnOrder
  <2> QED BY <2>1, <2>2, <2>3
<1>11. ASSUME NEW prio \in PrioArgs \cup {P_MIN}, sys_exec(prio) PROVE Orderly(K, K')
  <2> DEFINE g == IF K.pcbs[current].prog = "user" THEN K.pcbs[current].prog
                  ELSE "idle"
             u == [K EXCEPT !.pcbs[current].prio = prio,
                            !.pcbs[current].prog = g]
  <2>1. Return(u)
    BY <1>11 DEF sys_exec
  <2> HIDE DEF g
  <2>2. /\ u.queues = K.queues /\ u.current = K.current /\ u.panic = K.panic
        /\ SameWakeups(K, u)
    BY <1>1 DEF KStates, PcbRecords, SameWakeups
  <2>3. CASE K.panic = "none"
    <3>1. pcbs' = u.pcbs /\ queues' = u.queues /\ current' = u.current
      BY <2>1, <2>2, <2>3 DEF Return
    <3> HIDE DEF u
    <3>2. K'.pcbs = u.pcbs /\ K'.queues = u.queues /\ K'.current = u.current
      BY <3>1 DEF K
    <3> QED
      BY <1>1, <2>2, <3>2, QuietOrder DEF SameReady, ReadyQ, SameWakeups
  <2>4. CASE K.panic # "none"
    <3> HIDE DEF u
    <3> QED BY <2>1, <2>2, <2>4, IdleOrder DEF Return
  <2> QED BY <2>3, <2>4
<1>12. CASE sio_isr_reader
  <2> DEFINE t == schedule(q_deque(K, "reading"), Head(queues["reading"]))
  <2>1. Done(t) /\ Orderly(K, t)
    BY <1>1, <1>2, <1>12, WakeOK, WakeOrder DEF sio_isr_reader
  <2>2. Return(t)
    BY <1>12 DEF sio_isr_reader
  <2> HIDE DEF t
  <2> QED BY <2>1, <2>2, ReturnOrder
<1>13. CASE clk_isr_tick
  BY <1>13, IdleOrder DEF clk_isr_tick
<1>14. CASE clk_isr_wake
  <2> DEFINE t == schedule(q_deque(K, "sleeping"), Head(queues["sleeping"]))
  <2>1. Done(t) /\ Orderly(K, t)
    BY <1>1, <1>2, <1>14, WakeOK, WakeOrder DEF clk_isr_wake, Overdue
  <2>2. Return(t)
    BY <1>14 DEF clk_isr_wake
  <2> HIDE DEF t
  <2> QED BY <2>1, <2>2, ReturnOrder
<1>15. CASE clk_isr_charge
  <2>1. CASE q_ticks - 1 < 1
    <3> DEFINE t == dispatch(schedule(K, current))
    <3>1. Done(t) /\ (t.panic = "none" => Orderly(K, t))
      BY <1>1, YieldOK, YieldOrder
    <3>2. Return(t)
      BY <1>15, <2>1 DEF clk_isr_charge
    <3> HIDE DEF t
    <3> QED BY <3>1, <3>2, ReturnOrder
  <2>2. CASE ~(q_ticks - 1 < 1)
    <3> DEFINE u == [K EXCEPT !.ticks = @ - 1]
    <3>1. Return(u)
      BY <1>15, <2>2 DEF clk_isr_charge
    <3>2. u.queues = K.queues /\ u.current = K.current /\ u.pcbs = K.pcbs
      BY <1>1 DEF KStates
    <3> HIDE DEF u
    <3>3. UNCHANGED <<pcbs, queues, current>>
      BY <1>1, <1>2, <3>1, <3>2 DEF Return
    <3> QED BY <3>3, IdleOrder
  <2> QED BY <2>1, <2>2
<1>16. CASE UNCHANGED vars
  BY <1>16, IdleOrder DEF vars
<1>19. ASSUME NEW who \in MemoryPanics, Return(kpanic(K, who)) PROVE Orderly(K, K')
  <2>1. Done(kpanic(K, who)) /\ kpanic(K, who).panic # "none"
    BY <1>1, MemoryPanicDone
  <2> QED BY <1>19, <2>1, ReturnOrder
<1>20. ASSUME NEW prio \in PrioArgs \cup {P_MIN}, sys_exec_no_page(prio)
       PROVE  Orderly(K, K')
  BY <1>19, <1>20 DEF sys_exec_no_page, MemoryPanics
<1>21. CASE sys_mmap
  BY <1>17, <1>19, <1>21 DEF sys_mmap, MemoryPanics
<1> QED
  BY <1>4, <1>5, <1>6, <1>7, <1>8, <1>9, <1>10, <1>11, <1>12, <1>13, <1>14,
     <1>15, <1>16, <1>20, <1>21 DEF Next, Halted

\* The end of a quantum, and a tick within one, let the sleepers sleep.
LEMMA ChargeSleepers ==
  ASSUME IInv, clk_isr_charge
  PROVE  /\ queues'["sleeping"] = queues["sleeping"]
         /\ \A p \in Pcbs : pcbs'[p].wakeup = pcbs[p].wakeup
<1>1. /\ Start(K) /\ K.current = current /\ current \in Pcbs /\ K \in KStates
      /\ Sane(K, {current}, 1) /\ K.pcbs[current].state # "FREE"
  BY InvStart, StartType, KFields DEF Start
<1>2. K.queues = queues /\ K.pcbs = pcbs
  BY KFields
<1>3. CASE q_ticks - 1 < 1
  <2> DEFINE u == schedule(K, current)
             t == dispatch(u)
  <2>1. Return(t)
    BY <1>3 DEF clk_isr_charge
  <2>2. /\ SameWakeups(K, u) /\ u.queues["sleeping"] = K.queues["sleeping"]
    BY <1>1, ScheduleJoins
  <2>3. Sane(u, {current} \ {current}, 1 - 1)
    BY <1>1, ScheduleOK
  <2>4. {current} \ {current} = {} /\ 1 - 1 = 0
    OBVIOUS
  <2> HIDE DEF u
  <2>5. Sane(u, {}, 0)
    BY <2>3, <2>4
  <2>6. t.panic = "none" =>
          SameWakeups(u, t) /\ t.queues["sleeping"] = u.queues["sleeping"]
    BY <2>5, DispatchTurn
  <2> HIDE DEF t
  <2> QED BY <1>2, <2>1, <2>2, <2>6 DEF Return, SameWakeups
<1>4. CASE ~(q_ticks - 1 < 1)
  <2> DEFINE u == [K EXCEPT !.ticks = @ - 1]
  <2>1. Return(u)
    BY <1>4 DEF clk_isr_charge
  <2>2. u.queues = K.queues /\ u.pcbs = K.pcbs
    BY <1>1 DEF KStates
  <2> HIDE DEF u
  <2> QED BY <1>2, <2>1, <2>2 DEF Return
<1> QED BY <1>3, <1>4

-----------------------------------------------------------------------------
(* Theorems *)

\* Sorted is the invariant of Kernel, as a predicate on records.
LEMMA SortedIs == Sorted(K) <=> SleepersSorted
BY KFields DEF Sorted, SleepersSorted

\* The invariant of KernelProofs and the sorted sleep queue together.
LEMMA OrderInvariance == Spec => [](IInv /\ SleepersSorted)
<1>1. Init => SleepersSorted
  <2> SUFFICES ASSUME Init PROVE SleepersSorted
    OBVIOUS
  <2>1. queues["sleeping"] = <<>>
    BY DEF Init, QNames
  <2> QED BY <2>1 DEF SleepersSorted
<1>2. IInv /\ SleepersSorted /\ [Next]_vars => SleepersSorted'
  <2> SUFFICES ASSUME IInv, SleepersSorted, [Next]_vars PROVE SleepersSorted'
    OBVIOUS
  <2>1. Sorted(K) => Sorted(K')
    BY StepOrder DEF Orderly
  <2>2. Sorted(K)
    BY SortedIs
  <2>3. Sorted(K') => SleepersSorted'
    BY DEF Sorted, SleepersSorted, K
  <2> QED BY <2>1, <2>2, <2>3
<1> QED BY <1>1, <1>2, Invariance, PTL DEF Spec

(***************************************************************************)
(* The sleep queue is sorted by wake-up time, whatever sleeps, wake-ups    *)
(* and kills come in between and wherever the clock wraps.                 *)
(***************************************************************************)
THEOREM SleepQueueSorted == Spec => []SleepersSorted
BY OrderInvariance, PTL

(***************************************************************************)
(* When _clk_isr leaves its wake-up loop nobody is left asleep who was due *)
(* at this tick: the loop may stop at the first sleeper that is not.       *)
(***************************************************************************)
THEOREM ClockWakesAll == Spec => WakesAll
<1>1. IInv /\ SleepersSorted /\ IInv' /\ [Next]_vars =>
        [isr = "clock" /\ isr' = "none" =>
           \A p \in Pcbs : pcbs'[p].state = "SLEEPING" => pcbs'[p].wakeup > now]_vars
  <2> SUFFICES ASSUME IInv, SleepersSorted, IInv', [Next]_vars,
                      isr = "clock", isr' = "none",
                      NEW p \in Pcbs, pcbs'[p].state = "SLEEPING"
               PROVE  pcbs'[p].wakeup > now
    OBVIOUS
  <2>1. clk_isr_charge
    BY DEF Next, sys_exit, page_fault_isr, sys_read_block, sys_sleep, sys_kill, sys_wait,
           sys_fork, sys_exec, sys_exec_no_page, ExecCalls, sys_mmap, Halted,
           sio_isr_reader, clk_isr_tick, clk_isr_wake, Calls, Running, vars
  <2>2. /\ queues'["sleeping"] = queues["sleeping"]
        /\ pcbs'[p].wakeup = pcbs[p].wakeup
    BY <2>1, ChargeSleepers
  <2>3. p \in Range(queues'["sleeping"])
    <3>1. p # current' /\ pcbs'[p].state = "SLEEPING"
      BY DEF IInv, QueueDiscipline
    <3>2. Home(pcbs'[p]) = "sleeping"
      BY DEF Home
    <3>3. Range(queues'["sleeping"]) = {r \in Pcbs \ {current'} : Home(pcbs'[r]) = "sleeping"}
      BY DEF IInv, QueueDiscipline, Loose, K, QNames
    <3> QED BY <3>1, <3>2, <3>3
  <2>4. PICK i \in DOMAIN queues["sleeping"] : queues["sleeping"][i] = p
    BY <2>2, <2>3 DEF Range
  <2> DEFINE q == queues["sleeping"]
  <2>5. q \in Seq(Pcbs) /\ q # <<>> /\ i \in 1 .. Len(q) /\ pcbs \in [Pcbs -> PcbRecords]
    <3>1. q \in Seq(Pcbs) /\ pcbs \in [Pcbs -> PcbRecords]
      BY DEF IInv, TypeOK, QNames
    <3>2. i \in DOMAIN q
      BY <2>4
    <3> HIDE DEF q
    <3> QED BY <3>1, <3>2
  <2>6. ~(pcbs[q[1]].wakeup <= now)
    <3>1. Head(q) = q[1]
      BY <2>5
    <3> QED BY <2>1, <2>5, <3>1 DEF clk_isr_charge, Overdue
  <2>7. pcbs[q[1]].wakeup <= pcbs[p].wakeup
    BY <2>4, <2>5 DEF SleepersSorted
  <2>8. pcbs[q[1]].wakeup \in Nat /\ pcbs[p].wakeup \in Nat
    <3>1. q[1] \in Pcbs
      BY <2>5
    <3> QED BY <2>5, <3>1 DEF PcbRecords
  <2>9. now \in Int
    BY NumberAssumption DEF IInv, TypeOK
  <2> HIDE DEF q
  <2> QED BY <2>2, <2>6, <2>7, <2>8, <2>9
<1> QED BY <1>1, OrderInvariance, PTL DEF Spec, WakesAll

(***************************************************************************)
(* _dispatch gives the CPU to a process of the best priority that is       *)
(* ready, although a priority may have been set by exec() and fixed by     *)
(* _schedule since it was last looked at.                                  *)
(***************************************************************************)
THEOREM BestPriorityRuns == Spec => HighestFirst
<1>1. IInv /\ [Next]_vars =>
        [current' # current =>
           \A p \in Pcbs : pcbs'[p].state = "READY"
                             => pcbs'[p].prio >= pcbs'[current'].prio]_vars
  <2> SUFFICES ASSUME IInv, [Next]_vars, current' # current,
                      NEW p \in Pcbs, pcbs'[p].state = "READY"
               PROVE  pcbs'[p].prio >= pcbs'[current'].prio
    OBVIOUS
  <2>1. K'.current = K.current \/ Outranks(K')
    BY StepOrder DEF Orderly
  <2>2. Outranks(K')
    BY <2>1 DEF K
  <2>3. K'.pcbs = pcbs' /\ K'.current = current'
    BY DEF K
  <2> QED BY <2>2, <2>3 DEF Outranks
<1> QED BY <1>1, Invariance, PTL DEF Spec, HighestFirst

(***************************************************************************)
(* Equal priorities take turns: no step dispatches a process, or puts one  *)
(* in front, that came to the ready queue after one that is still on it,   *)
(* kill() of somebody in the middle included.                              *)
(***************************************************************************)
THEOREM ReadyQueuesFair == Spec => NoOvertaking
<1> DEFINE Turn == \A r \in Prios : LET q == queues[Ready(r)]
                                        w == queues'[Ready(r)]
                   IN  \A i \in DOMAIN q : \A l \in DOMAIN w : w[l] = q[i] =>
                         /\ \A j \in i + 1 .. Len(q) : current' # q[j]
                         /\ \A m \in 1 .. l - 1 : \E j \in 1 .. i - 1 : w[m] = q[j]
<1>1. IInv /\ [Next]_vars => Turn
  <2> SUFFICES ASSUME IInv, [Next]_vars PROVE Turn
    OBVIOUS
  <2>1. Lined(K, K') /\ TakesTurn(K, K')
    BY StepOrder DEF Orderly
  <2>2. K'.queues = queues' /\ K'.current = current' /\ K.queues = queues
    BY DEF K
  <2> QED BY <2>1, <2>2 DEF Lined, TakesTurn, KeepsLine, ReadyQ
<1>2. Turn => [Turn]_vars
  OBVIOUS
<1> QED BY <1>1, <1>2, Invariance, PTL DEF Spec, NoOvertaking
=============================================================================
