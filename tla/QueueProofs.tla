----------------------------- MODULE QueueProofs -----------------------------
(***************************************************************************)
(* Proofs about Queue: the linked lists of queue.c share out the pool and  *)
(* are the sequences of QueueContents.  The lists are named by constants:  *)
(* L[q] is the sequence of the qnodes of queue q, F that of the free ones. *)
(***************************************************************************)
EXTENDS Queue, SeqLemmas

Nodes == 0 .. N_QNODES

\* The i-th qnode of a list, NULL behind its end; the last one.
At(l, i) == IF i <= Len(l) THEN l[i] ELSE NULL
EndOf(l) == IF l = <<>> THEN NULL ELSE l[Len(l)]

\* The qnode before the k-th.
Before(l, k) == IF k = 1 THEN NULL ELSE l[k - 1]

\* c is the k-th qnode of l, NULL behind the end, and p the one before it.
GapOf(l, k, p, c) == p = Before(l, k) /\ c = At(l, k)

\* The next pointers link exactly the qnodes of l, from n on.
Links(nxt, n, l) ==
  /\ n = At(l, 1)
  /\ \A i \in 1 .. Len(l) : nxt[l[i]] = At(l, i + 1)

-----------------------------------------------------------------------------
(* Traversals *)

\* A list without duplicates is no longer than the pool.
LEMMA ListFits ==
  ASSUME NEW l \in Seq(Qnodes), IsInjective(l)
  PROVE  Len(l) <= N_QNODES
<1>1. N_QNODES \in Nat
  BY QueueAssumption
<1>2. IsFiniteSet(Qnodes) /\ Cardinality(Qnodes) = N_QNODES
  BY <1>1, FS_Interval DEF Qnodes
<1> DEFINE n == Len(l)
<1>3. n \in Nat /\ l \in [1 .. n -> Qnodes]
  BY LenProperties
<1>4. l \in Injection(1 .. n, Qnodes)
  BY <1>3 DEF Injection, IsInjective
<1> HIDE DEF n
<1>5. IsFiniteSet(1 .. n) /\ Cardinality(1 .. n) = n
  BY <1>3, FS_Interval
<1>6. n <= N_QNODES
  BY <1>2, <1>4, <1>5, FS_Injection
<1> QED
  BY <1>6 DEF n

(***************************************************************************)
(* Following the next pointers of a list yields the list.                  *)
(***************************************************************************)
LEMMA ChainIs ==
  ASSUME NEW nxt, NEW n, NEW l \in Seq(Qnodes), IsInjective(l), Links(nxt, n, l)
  PROVE  Chain(nxt, n) = l
<1>1. N_QNODES \in Nat /\ Len(l) \in Nat /\ Len(l) <= N_QNODES
  BY QueueAssumption, ListFits, LenProperties
<1>2. \A i \in 1 .. Len(l) : l[i] \in Qnodes
  BY ElementOfSeq
<1> DEFINE D == 0 .. N_QNODES
           follow == [m \in Qnodes \cup {NULL} |-> IF m = NULL THEN NULL ELSE nxt[m]]
           Rec(g) == g = [k \in D |-> IF k = 0 THEN n ELSE follow[g[k - 1]]]
           node == CHOOSE g : Rec(g)
           w == [k \in D |-> At(l, k + 1)]
<1>3. ASSUME NEW k \in D, k # 0 PROVE follow[w[k - 1]] = At(l, k + 1)
  <2>1. k - 1 \in D /\ w[k - 1] = At(l, k)
    <3>1. k - 1 \in D /\ (k - 1) + 1 = k
      BY <1>1, <1>3
    <3> QED BY <3>1
  <2>2. CASE k <= Len(l)
    <3>1. k \in 1 .. Len(l)
      BY <2>2, <1>1, <1>3
    <3>2. At(l, k) = l[k] /\ l[k] \in Qnodes /\ l[k] # NULL
      BY <3>1, <1>1, <1>2 DEF At, Qnodes, NULL
    <3>3. nxt[l[k]] = At(l, k + 1)
      BY <3>1 DEF Links
    <3> QED BY <2>1, <3>2, <3>3
  <2>3. CASE ~(k <= Len(l))
    <3>1. At(l, k) = NULL /\ At(l, k + 1) = NULL
      BY <2>3, <1>1 DEF At
    <3> QED BY <2>1, <3>1
  <2> QED BY <2>2, <2>3
<1>4. n = At(l, 0 + 1)
  BY DEF Links
<1> HIDE DEF follow
<1>5. Rec(w)
  <2>1. \A k \in D : At(l, k + 1) = IF k = 0 THEN n ELSE follow[w[k - 1]]
    <3> SUFFICES ASSUME NEW k \in D
                 PROVE  At(l, k + 1) = IF k = 0 THEN n ELSE follow[w[k - 1]]
      OBVIOUS
    <3>1. CASE k = 0
      BY <3>1, <1>4
    <3>2. CASE k # 0
      BY <3>2, <1>3
    <3> QED BY <3>1, <3>2
  <2> QED BY <2>1, Zenon
<1>6. Rec(node)
  <2> HIDE DEF Rec, w
  <2> QED BY <1>5
<1>7. \A k \in D : node[k] = w[k]
  <2> HIDE DEF node, w
  <2>1. /\ \A k \in D : node[k] = IF k = 0 THEN n ELSE follow[node[k - 1]]
        /\ \A k \in D : w[k] = IF k = 0 THEN n ELSE follow[w[k - 1]]
    BY <1>5, <1>6, Zenon
  <2> DEFINE S == {k \in D : node[k] # w[k]}
  <2> SUFFICES ASSUME S # {} PROVE FALSE
    OBVIOUS
  <2>2. PICK k \in S : \A j \in S : k <= j
    <3>1. S \subseteq Nat
      BY <1>1
    <3> HIDE DEF S
    <3> QED BY <3>1, LeastNat
  <2>3. k \in D /\ node[k] # w[k]
    OBVIOUS
  <2>4. k # 0
    BY <2>1, <2>3
  <2>5. k - 1 \in D /\ k - 1 \notin S
    <3>1. k - 1 \in D /\ ~(k <= k - 1)
      BY <1>1, <2>3, <2>4
    <3> QED BY <3>1, <2>2
  <2>6. node[k - 1] = w[k - 1]
    BY <2>5
  <2> QED BY <2>1, <2>3, <2>4, <2>6
<1>8. Chain(nxt, n) = SubSeq([i \in 1 .. N_QNODES + 1 |-> node[i - 1]], 1,
                             Cardinality({k \in 0 .. N_QNODES : node[k] # NULL}))
  BY DEF Chain, follow
<1> HIDE DEF node
<1>9. ASSUME NEW k \in D PROVE node[k] = At(l, k + 1)
  BY <1>7
<1> HIDE DEF w, Rec
<1>10. Cardinality({k \in 0 .. N_QNODES : node[k] # NULL}) = Len(l)
  <2>1. {k \in 0 .. N_QNODES : node[k] # NULL} = 0 .. Len(l) - 1
    <3>1. ASSUME NEW k \in D PROVE node[k] # NULL <=> k <= Len(l) - 1
      <4>1. CASE k <= Len(l) - 1
        <5>1. k + 1 \in 1 .. Len(l) /\ At(l, k + 1) = l[k + 1]
          BY <4>1, <1>1 DEF At
        <5>2. l[k + 1] # NULL
          BY <5>1, <1>2 DEF Qnodes, NULL
        <5> QED BY <5>1, <5>2, <1>9, <4>1
      <4>2. CASE ~(k <= Len(l) - 1)
        <5>1. At(l, k + 1) = NULL
          BY <4>2, <1>1 DEF At
        <5> QED BY <5>1, <1>9, <4>2
      <4> QED BY <4>1, <4>2
    <3>2. \A k : k \in 0 .. Len(l) - 1 <=> k \in D /\ k <= Len(l) - 1
      BY <1>1
    <3> QED BY <3>1, <3>2, Zenon
  <2> DEFINE m == Len(l)
  <2> HIDE DEF m
  <2>2. m \in Nat
    BY <1>1 DEF m
  <2>3. Cardinality(0 .. m - 1) = m
    BY <2>2, FS_Interval
  <2> QED BY <2>1, <2>3 DEF m
<1> DEFINE s == [i \in 1 .. N_QNODES + 1 |-> node[i - 1]]
<1>11. ASSUME NEW i \in 1 .. Len(l) PROVE s[i] = l[i]
  <2>1. i \in 1 .. N_QNODES + 1 /\ i - 1 \in D /\ (i - 1) + 1 = i /\ i <= Len(l)
    BY <1>1
  <2>2. s[i] = node[i - 1]
    BY <2>1
  <2>3. node[i - 1] = At(l, i)
    BY <2>1, <1>9
  <2> QED BY <2>1, <2>2, <2>3 DEF At
<1>12. Chain(nxt, n) = SubSeq(s, 1, Len(l))
  BY <1>8, <1>10
<1> HIDE DEF s
<1>13. /\ SubSeq(s, 1, Len(l)) \in Seq(Qnodes)
       /\ Len(SubSeq(s, 1, Len(l))) = Len(l)
       /\ \A i \in 1 .. Len(l) : SubSeq(s, 1, Len(l))[i] = l[i]
  <2> DEFINE m == Len(l)
  <2>1. 1 \in Int /\ m \in Int /\ \A i \in 1 .. m : s[i] \in Qnodes
    BY <1>1, <1>2, <1>11
  <2>2. /\ SubSeq(s, 1, m) \in Seq(Qnodes)
        /\ Len(SubSeq(s, 1, m)) = IF 1 <= m THEN m - 1 + 1 ELSE 0
        /\ \A i \in 1 .. m - 1 + 1 : SubSeq(s, 1, m)[i] = s[1 + i - 1]
    BY <2>1, SubSeqProperties
  <2>3. /\ (IF 1 <= m THEN m - 1 + 1 ELSE 0) = m /\ m - 1 + 1 = m
        /\ \A i \in 1 .. m : 1 + i - 1 = i
    BY <1>1
  <2> QED BY <2>2, <2>3, <1>11
<1> QED
  BY <1>12, <1>13, SeqEqual

(***************************************************************************)
(* A loop over a list stops at the first qnode outside past, or behind the *)
(* end.                                                                    *)
(***************************************************************************)
LEMMA WalkIs ==
  ASSUME NEW past, NEW n, NEW l \in Seq(Qnodes), IsInjective(l), Links(next, n, l)
  PROVE  \E k \in 1 .. Len(l) + 1 :
           /\ \A j \in 1 .. k - 1 : l[j] \in past
           /\ k <= Len(l) => l[k] \notin past
           /\ GapOf(l, k, walk(past, n).prev, walk(past, n).curr)
<1> DEFINE c == Chain(next, n)
<1>1. c = l
  BY ChainIs
<1>2. Len(c) \in Nat
  BY <1>1, LenProperties
<1> DEFINE Stops(k) == /\ \A j \in 1 .. k - 1 : c[j] \in past
                       /\ k <= Len(c) => c[k] \notin past
           stop == CHOOSE k \in 1 .. Len(c) + 1 : Stops(k)
<1>3. walk(past, n) = [prev |-> IF stop = 1 THEN NULL ELSE c[stop - 1],
                       curr |-> IF stop > Len(c) THEN NULL ELSE c[stop]]
  BY Zenon DEF walk
<1> HIDE DEF c
<1>4. \E k \in 1 .. Len(c) + 1 : Stops(k)
  <2> DEFINE S == {k \in 1 .. Len(c) + 1 : k <= Len(c) => c[k] \notin past}
  <2>1. S \subseteq Nat /\ Len(c) + 1 \in S
    BY <1>2
  <2>2. PICK k \in S : \A j \in S : k <= j
    <3> HIDE DEF S
    <3> QED BY <2>1, LeastNat
  <2>3. ASSUME NEW j \in 1 .. k - 1 PROVE c[j] \in past
    <3>1. j \in 1 .. Len(c) + 1 /\ ~(k <= j)
      BY <1>2
    <3> QED BY <3>1, <2>2
  <2> QED BY <2>3
<1>5. stop \in 1 .. Len(c) + 1 /\ Stops(stop)
  <2> HIDE DEF Stops
  <2> QED BY <1>4, Zenon
<1> HIDE DEF stop
<1>6. /\ walk(past, n).prev = IF stop = 1 THEN NULL ELSE c[stop - 1]
      /\ walk(past, n).curr = IF stop > Len(c) THEN NULL ELSE c[stop]
  BY <1>3
<1>7. walk(past, n).curr = At(c, stop)
  BY <1>2, <1>5, <1>6 DEF At
<1> QED
  BY <1>1, <1>5, <1>6, <1>7, Zenon DEF GapOf, Before

-----------------------------------------------------------------------------
(* The invariant *)

Typed(nxt, dat, fre, qu, L, F) ==
  /\ nxt \in [Qnodes -> Nodes]
  /\ dat \in [Qnodes -> Data \cup {NoData}]
  /\ fre \in Nodes
  /\ qu \in [Queues -> [head : Nodes, tail : Nodes, size : Nat]]
  /\ L \in [Queues -> Seq(Qnodes)]
  /\ F \in Seq(Qnodes)

\* Each list runs through its qnodes, and its head, tail and size say so.
Shaped(nxt, fre, qu, L, F) ==
  /\ Links(nxt, fre, F)
  /\ \A q \in Queues : /\ Links(nxt, qu[q].head, L[q])
                       /\ qu[q].tail = EndOf(L[q])
                       /\ qu[q].size = Len(L[q])

\* The lists share out the qnodes.
Shared(L, F) ==
  /\ IsInjective(F)
  /\ \A q \in Queues : /\ IsInjective(L[q])
                       /\ Range(L[q]) \cap Range(F) = {}
                       /\ \A r \in Queues \ {q} : Range(L[q]) \cap Range(L[r]) = {}
  /\ \A n \in Qnodes : n \in Range(F) \/ \E q \in Queues : n \in Range(L[q])

\* What is queued is data.
Filled(dat, L) == \A q \in Queues : \A n \in Range(L[q]) : dat[n] \in Data

Sound(nxt, dat, fre, qu, L, F) ==
  /\ Typed(nxt, dat, fre, qu, L, F)
  /\ Shaped(nxt, fre, qu, L, F)
  /\ Shared(L, F)
  /\ Filled(dat, L)

IInv == \E L, F : Sound(next, data, free_qnodes, que, L, F)

LEMMA SoundChains ==
  ASSUME NEW nxt, NEW dat, NEW fre, NEW qu, NEW L, NEW F,
         Sound(nxt, dat, fre, qu, L, F)
  PROVE  /\ Chain(nxt, fre) = F
         /\ \A q \in Queues : Chain(nxt, qu[q].head) = L[q]
  BY ChainIs DEF Sound, Typed, Shaped, Shared

LEMMA IInvWellLinked == IInv => WellLinked
<1> SUFFICES ASSUME IInv PROVE WellLinked
  OBVIOUS
<1>1. PICK L, F : Sound(next, data, free_qnodes, que, L, F)
  BY DEF IInv
<1>2. FreeList = F /\ \A q \in Queues : List(q) = L[q]
  <2>1. Chain(next, free_qnodes) = F /\ \A q \in Queues : Chain(next, que[q].head) = L[q]
    BY <1>1, SoundChains
  <2> QED BY <2>1, Zenon DEF FreeList, List
<1>3. ASSUME NEW q \in Queues
      PROVE  /\ IsInjective(List(q))
             /\ Range(List(q)) \cap Range(FreeList) = {}
             /\ \A r \in Queues \ {q} : Range(List(q)) \cap Range(List(r)) = {}
             /\ que[q].size = Len(List(q))
             /\ que[q].tail = IF List(q) = <<>> THEN NULL ELSE Last(List(q))
  <2>1. /\ IsInjective(L[q]) /\ Range(L[q]) \cap Range(F) = {}
        /\ \A r \in Queues \ {q} : Range(L[q]) \cap Range(L[r]) = {}
    BY <1>1, Zenon DEF Sound, Shared
  <2>2. que[q].size = Len(L[q]) /\ que[q].tail = EndOf(L[q])
    BY <1>1, Zenon DEF Sound, Shaped
  <2>3. \A r \in Queues \ {q} : List(r) = L[r]
    BY <1>2
  <2> QED BY <2>1, <2>2, <2>3, <1>2, Zenon DEF EndOf, Last
<1>4. Range(FreeList) \cup UNION {Range(List(q)) : q \in Queues} = Qnodes
  <2>1. Range(F) \subseteq Qnodes /\ \A q \in Queues : Range(L[q]) \subseteq Qnodes
    <3>1. \A l \in Seq(Qnodes) : Range(l) \subseteq Qnodes
      BY DEF Range
    <3> QED BY <3>1, <1>1 DEF Sound, Typed
  <2>2. \A n \in Qnodes : n \in Range(F) \/ \E q \in Queues : n \in Range(L[q])
    BY <1>1, Zenon DEF Sound, Shared
  <2>3. \A n \in Qnodes : n \in Range(FreeList) \/ \E q \in Queues : n \in Range(List(q))
    BY <2>2, <1>2
  <2>4. Range(FreeList) \subseteq Qnodes /\ \A q \in Queues : Range(List(q)) \subseteq Qnodes
    BY <2>1, <1>2
  <2> QED BY <2>3, <2>4
<1>5. IsInjective(FreeList)
  BY <1>1, <1>2, Zenon DEF Sound, Shared
<1> QED
  BY <1>3, <1>4, <1>5, Zenon DEF WellLinked

-----------------------------------------------------------------------------
(* Taking a qnode out of a list *)

\* The next pointers nx skip the k-th qnode of l, and send it to fre.
Skips(nxt, nx, l, k, fre) ==
  \A m \in Qnodes : nx[m] = IF m = l[k] THEN fre
                            ELSE IF m = Before(l, k) THEN nxt[l[k]] ELSE nxt[m]

\* The list without its k-th qnode is linked when the one before it, or the
\* head, points past it.
LEMMA UnlinkedList ==
  ASSUME NEW nxt \in [Qnodes -> Nodes], NEW n, NEW l \in Seq(Qnodes), IsInjective(l),
         Links(nxt, n, l), NEW k \in 1 .. Len(l), NEW fre \in Nodes,
         NEW nx \in [Qnodes -> Nodes],
         Skips(nxt, nx, l, k, fre),
         NEW h, h = IF k = 1 THEN nxt[l[k]] ELSE n
  PROVE  /\ Links(nx, h, RemoveAt(l, k))
         /\ EndOf(RemoveAt(l, k)) = IF EndOf(l) = l[k] THEN Before(l, k) ELSE EndOf(l)
<1> DEFINE a == RemoveAt(l, k)
<1>1. /\ a \in Seq(Qnodes) /\ Len(a) = Len(l) - 1 /\ Len(l) \in Nat
      /\ \A i \in 1 .. Len(l) - 1 : a[i] = IF i < k THEN l[i] ELSE l[i + 1]
      /\ k \in Nat /\ 1 <= k /\ k <= Len(l)
  BY RemoveAtEntries, LenProperties
<1> HIDE DEF a
<1>2. \A i, j \in 1 .. Len(l) : l[i] = l[j] => i = j
  BY LenProperties DEF IsInjective
<1>3. \A i \in 1 .. Len(l) : l[i] \in Qnodes /\ l[i] # NULL
  <2>1. \A i \in 1 .. Len(l) : l[i] \in Qnodes
    BY ElementOfSeq
  <2> QED BY <2>1, QueueAssumption DEF Qnodes, NULL
<1>4. n = At(l, 1) /\ \A i \in 1 .. Len(l) : nxt[l[i]] = At(l, i + 1)
  BY DEF Links
<1>5. \A i \in 1 .. Len(l) : i # k => nx[l[i]] = IF i = k - 1 THEN nxt[l[k]] ELSE nxt[l[i]]
  <2> SUFFICES ASSUME NEW i \in 1 .. Len(l), i # k
               PROVE  nx[l[i]] = IF i = k - 1 THEN nxt[l[k]] ELSE nxt[l[i]]
    OBVIOUS
  <2>1. l[i] # l[k] /\ l[i] \in Qnodes /\ l[i] # NULL
    BY <1>2, <1>3
  <2>2. l[i] = Before(l, k) <=> i = k - 1
    <3>1. CASE k = 1
      <4>1. i # k - 1
        BY <3>1
      <4> QED BY <3>1, <2>1, <4>1 DEF Before
    <3>2. CASE k # 1
      <4>1. k - 1 \in 1 .. Len(l)
        BY <3>2, <1>1
      <4> QED BY <3>2, <4>1, <1>2 DEF Before
    <3> QED BY <3>1, <3>2
  <2> QED BY <2>1, <2>2 DEF Skips
<1>6. At(a, 1) = h
  <2>1. CASE k = 1
    <3>1. nxt[l[k]] = At(l, 2)
      BY <2>1, <1>1, <1>4
    <3>2. At(a, 1) = At(l, 2)
      <4>1. CASE Len(l) = 1
        BY <4>1, <1>1 DEF At
      <4>2. CASE Len(l) > 1
        <5>1. 1 \in 1 .. Len(l) - 1 /\ a[1] = l[1 + 1]
          BY <4>2, <1>1, <2>1
        <5> QED BY <5>1, <4>2, <1>1 DEF At
      <4> QED BY <4>1, <4>2, <1>1, <2>1
    <3> QED BY <2>1, <3>1, <3>2
  <2>2. CASE k > 1
    <3>1. 1 \in 1 .. Len(l) - 1 /\ a[1] = l[1]
      BY <2>2, <1>1
    <3> QED BY <3>1, <2>2, <1>1, <1>4 DEF At
  <2> QED BY <2>1, <2>2, <1>1
<1>7. ASSUME NEW i \in 1 .. Len(a) PROVE nx[a[i]] = At(a, i + 1)
  <2>1. i \in 1 .. Len(l) - 1 /\ i \in Nat
    BY <1>1
  <2>2. CASE i < k - 1
    <3>1. a[i] = l[i] /\ a[i + 1] = l[i + 1] /\ i + 1 <= Len(a) /\ i + 1 <= Len(l)
      <4>1. i + 1 \in 1 .. Len(l) - 1 /\ i < k /\ i + 1 < k
        BY <2>1, <2>2, <1>1
      <4> QED BY <4>1, <2>1, <1>1
    <3>2. nx[l[i]] = nxt[l[i]] /\ nxt[l[i]] = At(l, i + 1)
      <4>1. i \in 1 .. Len(l) /\ i # k /\ i # k - 1
        BY <2>1, <2>2, <1>1
      <4> QED BY <4>1, <1>4, <1>5
    <3> QED BY <3>1, <3>2 DEF At
  <2>3. CASE i = k - 1
    <3>1. a[i] = l[i] /\ nx[l[i]] = nxt[l[k]] /\ nxt[l[k]] = At(l, k + 1)
      <4>1. i \in 1 .. Len(l) /\ i # k /\ i < k
        BY <2>1, <2>3, <1>1
      <4> QED BY <4>1, <2>1, <2>3, <1>1, <1>4, <1>5
    <3>2. At(a, i + 1) = At(l, k + 1)
      <4>1. CASE k < Len(l)
        <5>1. k \in 1 .. Len(l) - 1 /\ ~(k < k) /\ i + 1 = k
          BY <4>1, <1>1, <2>1, <2>3
        <5>2. a[i + 1] = l[k + 1]
          BY <5>1, <1>1
        <5> QED BY <5>1, <5>2, <4>1, <1>1 DEF At
      <4>2. CASE k = Len(l)
        <5>1. ~(i + 1 <= Len(a)) /\ ~(k + 1 <= Len(l))
          BY <4>2, <1>1, <2>1, <2>3
        <5> QED BY <5>1 DEF At
      <4>3. k < Len(l) \/ k = Len(l)
        BY LenProperties
      <4> QED BY <4>1, <4>2, <4>3, Zenon
    <3> QED BY <3>1, <3>2
  <2>4. CASE i >= k
    <3>1. a[i] = l[i + 1] /\ nx[l[i + 1]] = At(l, i + 2)
      <4>1. i + 1 \in 1 .. Len(l) /\ i + 1 # k /\ i + 1 # k - 1 /\ ~(i < k)
        BY <2>1, <2>4, <1>1
      <4>2. nx[l[i + 1]] = nxt[l[i + 1]] /\ nxt[l[i + 1]] = At(l, (i + 1) + 1)
        BY <4>1, <1>4, <1>5
      <4>3. (i + 1) + 1 = i + 2
        BY <2>1
      <4> QED BY <4>1, <4>2, <4>3, <2>1, <1>1
    <3>2. At(a, i + 1) = At(l, i + 2)
      <4>1. CASE i + 1 <= Len(a)
        <5>1. i + 1 \in 1 .. Len(l) - 1 /\ ~(i + 1 < k) /\ (i + 1) + 1 = i + 2
              /\ i + 2 <= Len(l)
          BY <4>1, <1>1, <2>1, <2>4
        <5>2. a[i + 1] = l[i + 2]
          BY <5>1, <1>1
        <5> QED BY <5>1, <5>2, <4>1 DEF At
      <4>2. CASE ~(i + 1 <= Len(a))
        <5>1. ~(i + 2 <= Len(l))
          BY <4>2, <1>1, <2>1
        <5> QED BY <5>1, <4>2 DEF At
      <4> QED BY <4>1, <4>2
    <3> QED BY <3>1, <3>2
  <2> QED BY <2>1, <2>2, <2>3, <2>4, <1>1
<1>8. EndOf(a) = IF EndOf(l) = l[k] THEN Before(l, k) ELSE EndOf(l)
  <2>1. l # <<>> /\ EndOf(l) = l[Len(l)]
    BY <1>1 DEF EndOf
  <2>2. EndOf(l) = l[k] <=> k = Len(l)
    <3>1. Len(l) \in 1 .. Len(l)
      BY <1>1
    <3> QED BY <3>1, <2>1, <1>2
  <2>3. CASE Len(l) = 1
    <3>1. a = <<>> /\ k = 1
      BY <2>3, <1>1
    <3> QED BY <3>1, <2>2, <2>3 DEF EndOf, Before
  <2>4. CASE Len(l) > 1
    <3>1. a # <<>> /\ EndOf(a) = a[Len(l) - 1]
      BY <2>4, <1>1 DEF EndOf
    <3>2. Len(l) - 1 \in 1 .. Len(l) - 1 /\ (Len(l) - 1) + 1 = Len(l)
      BY <2>4, <1>1
    <3>3. a[Len(l) - 1] = IF Len(l) - 1 < k THEN l[Len(l) - 1] ELSE l[Len(l)]
      BY <3>2, <1>1
    <3>4. Len(l) - 1 < k <=> k = Len(l)
      BY <1>1
    <3> QED BY <3>1, <3>3, <3>4, <2>1, <2>2, <2>4 DEF Before
  <2> QED BY <2>3, <2>4, <1>1
<1> QED
  BY <1>6, <1>7, <1>8, Zenon DEF Links, a

-----------------------------------------------------------------------------
(* Linking a qnode into a list *)

\* The next pointers nx lead over x to the k-th qnode of l.
Joins(nxt, nx, l, k, x) ==
  \A m \in Qnodes : nx[m] = IF m = Before(l, k) THEN x
                            ELSE IF m = x THEN At(l, k) ELSE nxt[m]

\* The list with x as its k-th qnode is linked when x points to the one that
\* was there and the one before it, or the head, points to x.
LEMMA LinkedList ==
  ASSUME NEW nxt \in [Qnodes -> Nodes], NEW n, NEW l \in Seq(Qnodes), IsInjective(l),
         Links(nxt, n, l), NEW x \in Qnodes, x \notin Range(l),
         NEW k \in 1 .. Len(l) + 1, NEW nx \in [Qnodes -> Nodes],
         Joins(nxt, nx, l, k, x),
         NEW h, h = IF k = 1 THEN x ELSE n
  PROVE  /\ Links(nx, h, InsertAt(l, k, x))
         /\ EndOf(InsertAt(l, k, x)) = IF At(l, k) = NULL THEN x ELSE EndOf(l)
<1> DEFINE a == InsertAt(l, k, x)
<1>1. /\ a \in Seq(Qnodes) /\ Len(a) = Len(l) + 1 /\ Len(l) \in Nat
      /\ a[k] = x
      /\ \A i \in 1 .. Len(l) + 1 : i < k => a[i] = l[i]
      /\ \A i \in 1 .. Len(l) + 1 : i > k => a[i] = l[i - 1]
      /\ k \in Nat /\ 1 <= k /\ k <= Len(l) + 1
  <2>1. Len(l) \in Nat /\ k \in Nat /\ 1 <= k /\ k <= Len(l) + 1
    BY LenProperties
  <2>2. a \in Seq(Qnodes) /\ Inserted(a, l, k, x)
    BY InsertAtIs, Zenon
  <2> HIDE DEF a
  <2> QED BY <2>1, <2>2 DEF Inserted
<1> HIDE DEF a
<1>2. \A i, j \in 1 .. Len(l) : l[i] = l[j] => i = j
  BY LenProperties DEF IsInjective
<1>3. \A i \in 1 .. Len(l) : l[i] \in Qnodes /\ l[i] # NULL /\ l[i] # x
  <2>1. \A i \in 1 .. Len(l) : l[i] \in Qnodes /\ l[i] \in Range(l)
    BY ElementOfSeq, LenProperties DEF Range
  <2> QED BY <2>1, QueueAssumption DEF Qnodes, NULL
<1>4. n = At(l, 1) /\ \A i \in 1 .. Len(l) : nxt[l[i]] = At(l, i + 1)
  BY DEF Links
<1>5. x # Before(l, k)
  <2>1. CASE k = 1
    <3>1. x # NULL
      BY QueueAssumption DEF Qnodes, NULL
    <3> QED BY <2>1, <3>1 DEF Before
  <2>2. CASE k # 1
    <3>1. k - 1 \in 1 .. Len(l)
      BY <2>2, <1>1
    <3> QED BY <2>2, <3>1, <1>3 DEF Before
  <2> QED BY <2>1, <2>2
<1>6. nx[x] = At(l, k)
  BY <1>5 DEF Joins
<1>7. \A i \in 1 .. Len(l) : nx[l[i]] = IF i = k - 1 THEN x ELSE nxt[l[i]]
  <2> SUFFICES ASSUME NEW i \in 1 .. Len(l)
               PROVE  nx[l[i]] = IF i = k - 1 THEN x ELSE nxt[l[i]]
    OBVIOUS
  <2>1. l[i] # x /\ l[i] \in Qnodes /\ l[i] # NULL
    BY <1>3
  <2>2. l[i] = Before(l, k) <=> i = k - 1
    <3>1. CASE k = 1
      <4>1. i # k - 1
        BY <3>1
      <4> QED BY <3>1, <2>1, <4>1 DEF Before
    <3>2. CASE k # 1
      <4>1. k - 1 \in 1 .. Len(l)
        BY <3>2, <1>1
      <4> QED BY <3>2, <4>1, <1>2 DEF Before
    <3> QED BY <3>1, <3>2
  <2> QED BY <2>1, <2>2 DEF Joins
<1>8. At(a, 1) = h
  <2>1. 1 <= Len(a) /\ 1 \in 1 .. Len(l) + 1
    BY <1>1
  <2>2. CASE k = 1
    BY <2>1, <2>2, <1>1 DEF At
  <2>3. CASE k # 1
    <3>1. 1 < k /\ 1 <= Len(l)
      BY <2>3, <1>1
    <3> QED BY <2>1, <2>3, <3>1, <1>1, <1>4 DEF At
  <2> QED BY <2>2, <2>3
<1>9. ASSUME NEW i \in 1 .. Len(a) PROVE nx[a[i]] = At(a, i + 1)
  <2>1. i \in 1 .. Len(l) + 1 /\ i \in Nat
    BY <1>1
  <2>2. CASE i < k - 1
    <3>1. /\ i + 1 \in 1 .. Len(l) + 1 /\ i < k /\ i + 1 < k /\ i \in 1 .. Len(l)
          /\ i # k - 1 /\ i + 1 <= Len(l) /\ i + 1 <= Len(a)
      BY <2>1, <2>2, <1>1
    <3>2. a[i] = l[i] /\ a[i + 1] = l[i + 1]
      BY <3>1, <2>1, <1>1
    <3>3. nx[l[i]] = At(l, i + 1)
      BY <3>1, <1>4, <1>7
    <3> QED BY <3>1, <3>2, <3>3 DEF At
  <2>3. CASE i = k - 1
    <3>1. i \in 1 .. Len(l) /\ i < k /\ i + 1 = k /\ i + 1 <= Len(a)
      BY <2>1, <2>3, <1>1
    <3>2. a[i] = l[i] /\ nx[l[i]] = x
      BY <3>1, <2>1, <2>3, <1>1, <1>7
    <3> QED BY <3>1, <3>2, <1>1 DEF At
  <2>4. CASE i = k
    <3>1. CASE k <= Len(l)
      <4>1. k + 1 \in 1 .. Len(l) + 1 /\ k + 1 > k /\ (k + 1) - 1 = k /\ k + 1 <= Len(a)
        BY <3>1, <1>1
      <4>2. a[k + 1] = l[k]
        BY <4>1, <1>1
      <4> QED BY <4>1, <4>2, <3>1, <2>4, <1>1, <1>6 DEF At
    <3>2. CASE ~(k <= Len(l))
      <4>1. ~(k + 1 <= Len(a))
        BY <3>2, <1>1
      <4> QED BY <4>1, <3>2, <2>4, <1>1, <1>6 DEF At
    <3> QED BY <3>1, <3>2
  <2>5. CASE i > k
    <3>1. i - 1 \in 1 .. Len(l) /\ i - 1 # k - 1 /\ (i - 1) + 1 = i
      BY <2>1, <2>5, <1>1
    <3>2. a[i] = l[i - 1] /\ nx[l[i - 1]] = At(l, i)
      <4>1. nx[l[i - 1]] = nxt[l[i - 1]] /\ nxt[l[i - 1]] = At(l, (i - 1) + 1)
        BY <3>1, <1>4, <1>7
      <4> QED BY <4>1, <3>1, <2>1, <2>5, <1>1
    <3>3. At(a, i + 1) = At(l, i)
      <4>1. CASE i <= Len(l)
        <5>1. i + 1 \in 1 .. Len(l) + 1 /\ i + 1 > k /\ (i + 1) - 1 = i /\ i + 1 <= Len(a)
          BY <4>1, <2>1, <2>5, <1>1
        <5>2. a[i + 1] = l[i]
          BY <5>1, <1>1
        <5> QED BY <5>1, <5>2, <4>1 DEF At
      <4>2. CASE ~(i <= Len(l))
        <5>1. ~(i + 1 <= Len(a))
          BY <4>2, <2>1, <1>1
        <5> QED BY <5>1, <4>2 DEF At
      <4> QED BY <4>1, <4>2
    <3> QED BY <3>2, <3>3
  <2>6. i < k - 1 \/ i = k - 1 \/ i = k \/ i > k
    BY <2>1, <1>1
  <2> QED BY <2>2, <2>3, <2>4, <2>5, <2>6
<1>10. EndOf(a) = IF At(l, k) = NULL THEN x ELSE EndOf(l)
  <2>1. a # <<>> /\ EndOf(a) = a[Len(l) + 1]
    BY <1>1 DEF EndOf
  <2>2. At(l, k) = NULL <=> k = Len(l) + 1
    <3>1. CASE k <= Len(l)
      <4>1. k \in 1 .. Len(l) /\ k # Len(l) + 1
        BY <3>1, <1>1
      <4> QED BY <3>1, <4>1, <1>3 DEF At
    <3>2. CASE ~(k <= Len(l))
      <4>1. k = Len(l) + 1
        BY <3>2, <1>1
      <4> QED BY <3>2, <4>1 DEF At
    <3> QED BY <3>1, <3>2
  <2>3. CASE k = Len(l) + 1
    BY <2>1, <2>2, <2>3, <1>1
  <2>4. CASE k # Len(l) + 1
    <3>1. Len(l) + 1 \in 1 .. Len(l) + 1 /\ Len(l) + 1 > k /\ (Len(l) + 1) - 1 = Len(l)
      BY <2>4, <1>1
    <3>2. a[Len(l) + 1] = l[Len(l)]
      BY <3>1, <1>1
    <3>3. l # <<>>
      BY <2>4, <1>1
    <3> QED BY <2>1, <2>2, <2>4, <3>2, <3>3 DEF EndOf
  <2> QED BY <2>3, <2>4
<1> QED
  BY <1>8, <1>9, <1>10, Zenon DEF Links, a

\* A list none of whose next pointers changed is still that list.
LEMMA SameList ==
  ASSUME NEW nxt, NEW nx, NEW n, NEW l \in Seq(Qnodes), Links(nxt, n, l),
         \A m \in Range(l) : nx[m] = nxt[m]
  PROVE  Links(nx, n, l)
<1>1. \A i \in 1 .. Len(l) : l[i] \in Range(l)
  BY LenProperties DEF Range
<1> QED
  BY <1>1 DEF Links

\* The free list with one qnode more, and with its first taken.
LEMMA FreeMore ==
  ASSUME NEW nxt, NEW nx, NEW fre, NEW F \in Seq(Qnodes), Links(nxt, fre, F),
         NEW x \in Qnodes, nx[x] = fre, \A m \in Range(F) : nx[m] = nxt[m]
  PROVE  Links(nx, x, InsertAt(F, 1, x))
<1> DEFINE a == InsertAt(F, 1, x)
<1>1. 1 \in 1 .. Len(F) + 1 /\ Len(F) \in Nat
  BY LenProperties
<1>2. /\ a \in Seq(Qnodes) /\ Len(a) = Len(F) + 1 /\ a[1] = x
      /\ \A i \in 1 .. Len(F) + 1 : i # 1 => a[i] = F[i - 1]
  <2>1. a \in Seq(Qnodes) /\ Inserted(a, F, 1, x)
    BY <1>1, InsertAtIs, Zenon
  <2>2. \A i \in 1 .. Len(F) + 1 : i # 1 => i > 1
    BY <1>1
  <2> HIDE DEF a
  <2> QED BY <2>1, <2>2 DEF Inserted
<1> HIDE DEF a
<1>3. \A i \in 1 .. Len(F) : F[i] \in Range(F)
  BY LenProperties DEF Range
<1>4. fre = At(F, 1) /\ \A i \in 1 .. Len(F) : nx[F[i]] = At(F, i + 1)
  BY <1>3 DEF Links
<1>5. ASSUME NEW j \in Nat, j >= 1 PROVE At(a, j + 1) = At(F, j)
  <2>1. CASE j <= Len(F)
    <3>1. j + 1 \in 1 .. Len(F) + 1 /\ j + 1 # 1 /\ (j + 1) - 1 = j /\ j + 1 <= Len(a)
      BY <1>5, <2>1, <1>1, <1>2
    <3>2. a[j + 1] = F[j]
      BY <3>1, <1>2
    <3> QED BY <3>1, <3>2, <2>1 DEF At
  <2>2. CASE ~(j <= Len(F))
    <3>1. ~(j + 1 <= Len(a))
      BY <2>2, <1>1, <1>2
    <3> QED BY <3>1, <2>2 DEF At
  <2> QED BY <2>1, <2>2
<1>6. x = At(a, 1)
  <2>1. 1 <= Len(a)
    BY <1>1, <1>2
  <2> QED BY <2>1, <1>2 DEF At
<1>7. ASSUME NEW i \in 1 .. Len(a) PROVE nx[a[i]] = At(a, i + 1)
  <2>1. CASE i = 1
    BY <2>1, <1>2, <1>4, <1>5
  <2>2. CASE i # 1
    <3>1. i \in 1 .. Len(F) + 1 /\ i - 1 \in 1 .. Len(F) /\ (i - 1) + 1 = i
      BY <2>2, <1>1, <1>2
    <3>2. a[i] = F[i - 1] /\ nx[F[i - 1]] = At(F, i)
      <4>1. nx[F[i - 1]] = At(F, (i - 1) + 1)
        BY <3>1, <1>4
      <4> QED BY <4>1, <3>1, <2>2, <1>2
    <3>3. At(a, i + 1) = At(F, i)
      BY <3>1, <1>5
    <3> QED BY <3>2, <3>3
  <2> QED BY <2>1, <2>2
<1> QED
  BY <1>6, <1>7, Zenon DEF Links, a

LEMMA FreeLess ==
  ASSUME NEW nxt, NEW nx, NEW fre, NEW F \in Seq(Qnodes), Links(nxt, fre, F),
         F # <<>>, \A m \in Range(Tail(F)) : nx[m] = nxt[m]
  PROVE  fre = Head(F) /\ Links(nx, nxt[fre], Tail(F))
<1>1. /\ Len(F) \in Nat /\ Len(F) >= 1 /\ Head(F) = F[1]
      /\ Tail(F) \in Seq(Qnodes) /\ Len(Tail(F)) = Len(F) - 1
      /\ \A i \in 1 .. Len(F) - 1 : Tail(F)[i] = F[i + 1]
  <2>1. Len(F) \in Nat /\ Len(F) >= 1
    BY EmptySeq, LenProperties
  <2> QED BY <2>1, HeadTailProperties
<1> DEFINE a == Tail(F)
<1> HIDE DEF a
<1>2. \A i \in 1 .. Len(a) : a[i] \in Range(a)
  BY <1>1, LenProperties DEF Range, a
<1>3. fre = F[1] /\ \A i \in 1 .. Len(F) : nxt[F[i]] = At(F, i + 1)
  BY <1>1 DEF Links, At
<1>4. ASSUME NEW j \in Nat, j >= 1 PROVE At(a, j) = At(F, j + 1)
  <2>1. CASE j <= Len(a)
    <3>1. j \in 1 .. Len(F) - 1 /\ j + 1 <= Len(F)
      BY <2>1, <1>1, <1>4 DEF a
    <3> QED BY <3>1, <2>1, <1>1 DEF At, a
  <2>2. CASE ~(j <= Len(a))
    <3>1. ~(j + 1 <= Len(F))
      BY <2>2, <1>1 DEF a
    <3> QED BY <3>1, <2>2 DEF At
  <2> QED BY <2>1, <2>2
<1>5. nxt[fre] = At(a, 1)
  <2>1. nxt[F[1]] = At(F, 1 + 1)
    BY <1>1, <1>3
  <2>2. At(a, 1) = At(F, 1 + 1)
    BY <1>4
  <2> QED BY <2>1, <2>2, <1>3
<1>6. ASSUME NEW i \in 1 .. Len(a) PROVE nx[a[i]] = At(a, i + 1)
  <2>1. i \in 1 .. Len(F) - 1 /\ i + 1 \in 1 .. Len(F) /\ i + 1 \in Nat /\ i + 1 >= 1
    BY <1>1 DEF a
  <2>2. a[i] = F[i + 1] /\ nxt[F[i + 1]] = At(F, (i + 1) + 1)
    BY <2>1, <1>1, <1>3 DEF a
  <2>3. nx[a[i]] = nxt[a[i]]
    BY <1>2 DEF a
  <2>4. At(a, i + 1) = At(F, (i + 1) + 1)
    BY <2>1, <1>4
  <2> QED BY <2>2, <2>3, <2>4
<1> QED
  BY <1>1, <1>3, <1>5, <1>6, Zenon DEF Links, a

-----------------------------------------------------------------------------
(* What a deque or a removal, and an insertion, do to all lists *)

\* The parts of Sound, for the qnodes and queues at hand.
LEMMA SoundParts ==
  ASSUME NEW nxt, NEW dat, NEW fre, NEW qu, NEW L, NEW F,
         Sound(nxt, dat, fre, qu, L, F)
  PROVE  /\ nxt \in [Qnodes -> Nodes] /\ dat \in [Qnodes -> Data \cup {NoData}]
         /\ fre \in Nodes /\ qu \in [Queues -> [head : Nodes, tail : Nodes, size : Nat]]
         /\ L \in [Queues -> Seq(Qnodes)] /\ F \in Seq(Qnodes)
         /\ Links(nxt, fre, F) /\ IsInjective(F)
         /\ \A q \in Queues :
              /\ L[q] \in Seq(Qnodes) /\ IsInjective(L[q])
              /\ Links(nxt, qu[q].head, L[q])
              /\ qu[q].tail = EndOf(L[q]) /\ qu[q].size = Len(L[q])
              /\ Range(L[q]) \cap Range(F) = {}
              /\ \A r \in Queues \ {q} : Range(L[q]) \cap Range(L[r]) = {}
              /\ \A n \in Range(L[q]) : dat[n] \in Data
         /\ \A n \in Qnodes : n \in Range(F) \/ \E q \in Queues : n \in Range(L[q])
  <1>1. \A q \in Queues : L[q] \in Seq(Qnodes)
    BY DEF Sound, Typed
  <1> QED BY <1>1, Zenon DEF Sound, Typed, Shaped, Shared, Filled

\* The qnode before the k-th is one of the list, or NULL.
LEMMA BeforeIs ==
  ASSUME NEW l \in Seq(Qnodes), NEW k \in 1 .. Len(l) + 1
  PROVE  /\ k = 1 => Before(l, k) = NULL
         /\ k # 1 => /\ Before(l, k) # NULL /\ Before(l, k) \in Qnodes
                     /\ Before(l, k) \in Range(l) /\ k - 1 \in 1 .. Len(l)
                     /\ Before(l, k) = l[k - 1]
         /\ Before(l, k) \in Nodes
<1>1. N_QNODES \in Nat /\ NULL \in Nodes /\ Qnodes \subseteq Nodes /\ NULL \notin Qnodes
  BY QueueAssumption DEF NULL, Nodes, Qnodes
<1>2. CASE k = 1
  BY <1>1, <1>2 DEF Before
<1>3. CASE k # 1
  <2>1. k - 1 \in 1 .. Len(l) /\ k - 1 \in DOMAIN l
    BY <1>3, LenProperties
  <2>2. l[k - 1] \in Qnodes /\ l[k - 1] \in Range(l)
    BY <2>1, ElementOfSeq DEF Range
  <2> QED BY <2>1, <2>2, <1>1, <1>3 DEF Before
<1> QED
  BY <1>2, <1>3

LEMMA AtIs ==
  ASSUME NEW l \in Seq(Qnodes), NEW k \in 1 .. Len(l) + 1
  PROVE  /\ At(l, k) \in Nodes
         /\ k <= Len(l) => /\ At(l, k) = l[k] /\ l[k] \in Qnodes /\ l[k] # NULL
                           /\ l[k] \in Range(l)
         /\ k = Len(l) + 1 => At(l, k) = NULL
<1>1. N_QNODES \in Nat /\ NULL \in Nodes /\ Qnodes \subseteq Nodes /\ NULL \notin Qnodes
  BY QueueAssumption DEF NULL, Nodes, Qnodes
<1>2. Len(l) \in Nat
  BY LenProperties
<1>3. CASE k <= Len(l)
  <2>1. k \in 1 .. Len(l) /\ k \in DOMAIN l /\ k # Len(l) + 1
    BY <1>2, <1>3, LenProperties
  <2>2. l[k] \in Qnodes /\ l[k] \in Range(l)
    BY <2>1, ElementOfSeq DEF Range
  <2> QED BY <2>1, <2>2, <1>1, <1>3 DEF At
<1>4. CASE ~(k <= Len(l))
  BY <1>1, <1>4 DEF At
<1> QED
  BY <1>3, <1>4

\* n is the k-th qnode of l, and p the one before it.
PlaceOf(l, k, p, n) == n = l[k] /\ p = Before(l, k)

\* What q_deque and q_remove do when they take n, behind p, out of queue q.
Taken(nxt, dat, fre, qu, q, p, n, nx, da, qv) ==
  /\ nx = [(IF p = NULL THEN nxt ELSE [nxt EXCEPT ![p] = nxt[n]]) EXCEPT ![n] = fre]
  /\ da = [dat EXCEPT ![n] = NoData]
  /\ qv = [qu EXCEPT ![q].head = IF p = NULL THEN nxt[n] ELSE @,
                     ![q].tail = IF @ = n THEN p ELSE @,
                     ![q].size = @ - 1]

LEMMA TakeOut ==
  ASSUME NEW nxt, NEW dat, NEW fre, NEW qu, NEW L, NEW F,
         Sound(nxt, dat, fre, qu, L, F),
         NEW q \in Queues, NEW k \in 1 .. Len(L[q]),
         NEW n, NEW p, PlaceOf(L[q], k, p, n), NEW nx, NEW da, NEW qv,
         Taken(nxt, dat, fre, qu, q, p, n, nx, da, qv)
  PROVE  Sound(nx, da, n, qv, [L EXCEPT ![q] = RemoveAt(L[q], k)], InsertAt(F, 1, n))
<1> DEFINE l == L[q]
           a == RemoveAt(l, k)
           b == InsertAt(F, 1, n)
           M == [L EXCEPT ![q] = a]
<1>0. Sound(nxt, dat, fre, qu, L, F)
  OBVIOUS
<1>1. /\ nxt \in [Qnodes -> Nodes] /\ dat \in [Qnodes -> Data \cup {NoData}]
      /\ fre \in Nodes /\ qu \in [Queues -> [head : Nodes, tail : Nodes, size : Nat]]
      /\ L \in [Queues -> Seq(Qnodes)] /\ F \in Seq(Qnodes)
      /\ Links(nxt, fre, F) /\ IsInjective(F)
  BY <1>0, SoundParts, Zenon
<1>2. ASSUME NEW r \in Queues
      PROVE  /\ L[r] \in Seq(Qnodes) /\ IsInjective(L[r])
             /\ Links(nxt, qu[r].head, L[r])
             /\ qu[r].tail = EndOf(L[r]) /\ qu[r].size = Len(L[r])
             /\ Range(L[r]) \cap Range(F) = {}
             /\ \A s \in Queues \ {r} : Range(L[r]) \cap Range(L[s]) = {}
             /\ \A m \in Range(L[r]) : dat[m] \in Data
  BY <1>0, SoundParts, Zenon
<1>3. \A m \in Qnodes : m \in Range(F) \/ \E r \in Queues : m \in Range(L[r])
  BY Zenon DEF Sound, Shared
<1>4. l \in Seq(Qnodes) /\ IsInjective(l) /\ Links(nxt, qu[q].head, l) /\ Len(l) \in Nat
  BY <1>2, LenProperties
<1>5. N_QNODES \in Nat /\ NULL \in Nodes /\ Qnodes \subseteq Nodes /\ NULL \notin Qnodes
  BY QueueAssumption DEF NULL, Nodes, Qnodes
<1>6. n \in Qnodes /\ n \in Range(l) /\ n # NULL /\ n \in Nodes
  <2>1. k \in 1 .. Len(l) + 1 /\ k <= Len(l)
    BY <1>4
  <2> QED BY <2>1, <1>4, <1>5, AtIs DEF PlaceOf
<1>7. /\ p = NULL <=> k = 1
      /\ p # NULL => p \in Qnodes /\ p \in Range(l)
      /\ p \in Nodes
  <2>1. k \in 1 .. Len(l) + 1
    BY <1>4
  <2> HIDE DEF l
  <2> QED BY <2>1, <1>4, BeforeIs DEF l, PlaceOf
<1>8. nx \in [Qnodes -> Nodes] /\ da \in [Qnodes -> Data \cup {NoData}]
  <2>1. nxt[n] \in Nodes
    BY <1>1, <1>6
  <2> QED BY <1>1, <1>6, <1>7, <2>1 DEF Taken
<1>9. \A m \in Qnodes : nx[m] = IF m = n THEN fre ELSE IF m = p THEN nxt[n] ELSE nxt[m]
  BY <1>1, <1>5, <1>6, <1>7 DEF Taken
<1>10. \A m \in Qnodes : m \notin Range(l) => nx[m] = nxt[m]
  BY <1>5, <1>6, <1>7, <1>9
<1>11. /\ qv \in [Queues -> [head : Nodes, tail : Nodes, size : Nat]]
       /\ qv[q].head = IF k = 1 THEN nxt[n] ELSE qu[q].head
       /\ qv[q].tail = IF qu[q].tail = n THEN p ELSE qu[q].tail
       /\ qv[q].size = qu[q].size - 1
       /\ \A r \in Queues \ {q} : qv[r] = qu[r]
  <2>1. nxt[n] \in Nodes /\ qu[q].size \in Nat /\ qu[q].size - 1 \in Nat
    BY <1>1, <1>2, <1>4, <1>6
  <2> DEFINE rec == [head |-> IF p = NULL THEN nxt[n] ELSE qu[q].head,
                     tail |-> IF qu[q].tail = n THEN p ELSE qu[q].tail,
                     size |-> qu[q].size - 1]
  <2>2. qv = [qu EXCEPT ![q] = rec]
    <3>1. qv = [qu EXCEPT ![q].head = IF p = NULL THEN nxt[n] ELSE @,
                          ![q].tail = IF @ = n THEN p ELSE @,
                          ![q].size = @ - 1]
      BY Zenon DEF Taken
    <3> QED BY <3>1, <1>1
  <2>3. rec \in [head : Nodes, tail : Nodes, size : Nat]
    BY <2>1, <1>1, <1>7
  <2>4. /\ rec.head = IF k = 1 THEN nxt[n] ELSE qu[q].head
        /\ rec.tail = IF qu[q].tail = n THEN p ELSE qu[q].tail
        /\ rec.size = qu[q].size - 1
    BY <1>7
  <2> HIDE DEF rec
  <2> QED BY <2>2, <2>3, <2>4, <1>1
<1>12. /\ Links(nx, qv[q].head, a)
       /\ EndOf(a) = IF EndOf(l) = n THEN p ELSE EndOf(l)
  <2> HIDE DEF l
  <2>1. Skips(nxt, nx, l, k, fre)
    BY <1>9 DEF l, PlaceOf, Skips
  <2>2. PICK h : h = qv[q].head
    OBVIOUS
  <2>3. PICK g : g = qu[q].head
    OBVIOUS
  <2>4. h = IF k = 1 THEN nxt[l[k]] ELSE g
    BY <2>2, <2>3, <1>11 DEF l, PlaceOf
  <2>5. k \in 1 .. Len(l) /\ Links(nxt, g, l)
    BY <2>3, <1>4 DEF l
  <2>6. /\ Links(nx, h, RemoveAt(l, k))
        /\ EndOf(RemoveAt(l, k)) = IF EndOf(l) = l[k] THEN Before(l, k) ELSE EndOf(l)
    BY <2>1, <2>4, <2>5, <1>1, <1>4, <1>8, UnlinkedList
  <2> QED BY <2>2, <2>6 DEF l, PlaceOf
<1>13. /\ a \in Seq(Qnodes) /\ IsInjective(a) /\ Range(a) = Range(l) \ {n}
       /\ Len(a) = Len(l) - 1
  <2> HIDE DEF l
  <2>1. k \in 1 .. Len(l) /\ n = l[k]
    BY DEF l, PlaceOf
  <2> QED BY <2>1, <1>4, RemoveAtRange, RemoveAtEntries
<1>14. Range(l) \cap Range(F) = {} /\ n \notin Range(F)
  BY <1>2, <1>6
<1>15. /\ b \in Seq(Qnodes) /\ IsInjective(b) /\ Range(b) = Range(F) \cup {n}
  <2>1. 1 \in 1 .. Len(F) + 1
    BY <1>1, LenProperties
  <2> QED BY <2>1, <1>1, <1>6, <1>14, InsertAtRange
<1>16. \A s \in Seq(Qnodes) : Range(s) \subseteq Qnodes
  BY DEF Range
<1>17. Links(nx, n, b)
  <2>1. \A m \in Range(F) : nx[m] = nxt[m]
    BY <1>1, <1>10, <1>14, <1>16
  <2>2. nx[n] = fre
    BY <1>6, <1>9
  <2> QED BY <2>1, <2>2, <1>1, <1>6, FreeMore
<1>18. M \in [Queues -> Seq(Qnodes)] /\ M[q] = a /\ \A r \in Queues \ {q} : M[r] = L[r]
  BY <1>1, <1>13
<1> HIDE DEF l, a, b, M
<1>19. ASSUME NEW r \in Queues \ {q} PROVE Links(nx, qu[r].head, L[r])
  <2>1. /\ L[r] \in Seq(Qnodes) /\ Links(nxt, qu[r].head, L[r])
        /\ Range(L[q]) \cap Range(L[r]) = {}
    BY <1>2
  <2>2. \A m \in Range(L[r]) : nx[m] = nxt[m]
    BY <2>1, <1>10, <1>16 DEF l
  <2> QED BY <2>1, <2>2, SameList
<1>20. Typed(nx, da, n, qv, M, b)
  BY <1>6, <1>8, <1>11, <1>15, <1>18 DEF Typed
<1>21. Shaped(nx, n, qv, M, b)
  <2>1. ASSUME NEW r \in Queues
        PROVE  Links(nx, qv[r].head, M[r]) /\ qv[r].tail = EndOf(M[r])
               /\ qv[r].size = Len(M[r])
    <3>1. CASE r = q
      <4>1. qu[q].tail = EndOf(l) /\ qu[q].size = Len(l)
        BY <1>2 DEF l
      <4> QED BY <3>1, <4>1, <1>11, <1>12, <1>13, <1>18
    <3>2. CASE r # q
      <4>1. qu[r].tail = EndOf(L[r]) /\ qu[r].size = Len(L[r])
        BY <1>2
      <4> QED BY <3>2, <4>1, <1>11, <1>18, <1>19
    <3> QED BY <3>1, <3>2
  <2> QED BY <2>1, <1>17, Zenon DEF Shaped
<1>22. Shared(M, b)
  <2>1. ASSUME NEW r \in Queues
        PROVE  IsInjective(M[r]) /\ Range(M[r]) \subseteq Range(L[r]) /\ n \notin Range(M[r])
    <3>1. CASE r = q
      BY <3>1, <1>13, <1>18 DEF l
    <3>2. CASE r # q
      <4>1. Range(L[q]) \cap Range(L[r]) = {} /\ IsInjective(L[r])
        BY <3>2, <1>2
      <4> QED BY <4>1, <3>2, <1>6, <1>18 DEF l
    <3> QED BY <3>1, <3>2
  <2>2. ASSUME NEW r \in Queues
        PROVE  /\ Range(M[r]) \cap Range(b) = {}
               /\ \A s \in Queues \ {r} : Range(M[r]) \cap Range(M[s]) = {}
    <3>1. /\ Range(L[r]) \cap Range(F) = {}
          /\ \A s \in Queues \ {r} : Range(L[r]) \cap Range(L[s]) = {}
      BY <1>2, Zenon
    <3> QED BY <3>1, <2>1, <1>15
  <2>3. ASSUME NEW m \in Qnodes
        PROVE  m \in Range(b) \/ \E r \in Queues : m \in Range(M[r])
    <3>1. CASE m \in Range(F) \/ m = n
      BY <3>1, <1>15
    <3>2. CASE m \notin Range(F) /\ m # n
      <4>1. PICK r \in Queues : m \in Range(L[r])
        BY <3>2, <1>3
      <4>2. m \in Range(M[r])
        BY <4>1, <3>2, <1>13, <1>18 DEF l
      <4> QED BY <4>2
    <3> QED BY <3>1, <3>2
  <2> QED BY <2>1, <2>2, <2>3, <1>15, Zenon DEF Shared
<1>23. Filled(da, M)
  <2> SUFFICES ASSUME NEW r \in Queues, NEW m \in Range(M[r]) PROVE da[m] \in Data
    BY Zenon DEF Filled
  <2>1. m \in Range(L[r]) /\ m # n
    <3>1. CASE r = q
      BY <3>1, <1>13, <1>18 DEF l
    <3>2. CASE r # q
      <4>1. Range(L[q]) \cap Range(L[r]) = {} /\ M[r] = L[r]
        BY <3>2, <1>2, <1>18
      <4> QED BY <4>1, <1>6 DEF l
    <3> QED BY <3>1, <3>2
  <2>2. m \in Qnodes /\ dat[m] \in Data
    BY <2>1, <1>2, <1>16
  <2> QED BY <2>1, <2>2, <1>1 DEF Taken
<1> QED
  BY <1>20, <1>21, <1>22, <1>23, Zenon DEF Sound, M, a, b, l

\* What q_enque does when it links the first free qnode with d in, behind p
\* and before c.
Put(nxt, dat, fre, qu, q, p, c, d, nx, da, qv) ==
  /\ nx = IF p = NULL THEN [nxt EXCEPT ![fre] = c]
          ELSE [[nxt EXCEPT ![fre] = c] EXCEPT ![p] = fre]
  /\ da = [dat EXCEPT ![fre] = d]
  /\ qv = [qu EXCEPT ![q].head = IF p = NULL THEN fre ELSE @,
                     ![q].tail = IF c = NULL THEN fre ELSE @,
                     ![q].size = @ + 1]

LEMMA PutIn ==
  ASSUME NEW nxt, NEW dat, NEW fre, NEW qu, NEW L, NEW F,
         Sound(nxt, dat, fre, qu, L, F), F # <<>>,
         NEW q \in Queues, NEW k \in 1 .. Len(L[q]) + 1, NEW d \in Data,
         NEW p, NEW c, GapOf(L[q], k, p, c), NEW nx, NEW da, NEW qv,
         Put(nxt, dat, fre, qu, q, p, c, d, nx, da, qv)
  PROVE  Sound(nx, da, nxt[fre], qv, [L EXCEPT ![q] = InsertAt(L[q], k, fre)], Tail(F))
<1> DEFINE l == L[q]
           a == InsertAt(l, k, fre)
           b == Tail(F)
           M == [L EXCEPT ![q] = a]
<1>0. Sound(nxt, dat, fre, qu, L, F)
  OBVIOUS
<1>1. /\ nxt \in [Qnodes -> Nodes] /\ dat \in [Qnodes -> Data \cup {NoData}]
      /\ fre \in Nodes /\ qu \in [Queues -> [head : Nodes, tail : Nodes, size : Nat]]
      /\ L \in [Queues -> Seq(Qnodes)] /\ F \in Seq(Qnodes)
      /\ Links(nxt, fre, F) /\ IsInjective(F)
  BY <1>0, SoundParts, Zenon
<1>2. ASSUME NEW r \in Queues
      PROVE  /\ L[r] \in Seq(Qnodes) /\ IsInjective(L[r])
             /\ Links(nxt, qu[r].head, L[r])
             /\ qu[r].tail = EndOf(L[r]) /\ qu[r].size = Len(L[r])
             /\ Range(L[r]) \cap Range(F) = {}
             /\ \A s \in Queues \ {r} : Range(L[r]) \cap Range(L[s]) = {}
             /\ \A m \in Range(L[r]) : dat[m] \in Data
  BY <1>0, SoundParts, Zenon
<1>3. \A m \in Qnodes : m \in Range(F) \/ \E r \in Queues : m \in Range(L[r])
  BY Zenon DEF Sound, Shared
<1>4. l \in Seq(Qnodes) /\ IsInjective(l) /\ Links(nxt, qu[q].head, l) /\ Len(l) \in Nat
  BY <1>2, LenProperties
<1>5. N_QNODES \in Nat /\ NULL \in Nodes /\ Qnodes \subseteq Nodes /\ NULL \notin Qnodes
  BY QueueAssumption DEF NULL, Nodes, Qnodes
<1>6. /\ b \in Seq(Qnodes) /\ IsInjective(b)
      /\ fre = Head(F) /\ fre \in Range(F) /\ fre \in Qnodes
      /\ Range(b) = Range(F) \ {fre}
  <2>1. fre = Head(F)
    BY <1>1, FreeLess
  <2>2. /\ Tail(F) \in Seq(Qnodes) /\ Head(F) \in Range(F) /\ Head(F) \in Qnodes
        /\ IsInjective(Tail(F)) /\ Range(Tail(F)) = Range(F) \ {Head(F)}
    BY <1>1, TailRange
  <2> QED BY <2>1, <2>2
<1>7. /\ p = NULL <=> k = 1
      /\ p # NULL => p \in Qnodes /\ p \in Range(l)
      /\ p \in Nodes /\ c \in Nodes
  <2> HIDE DEF l
  <2>1. k \in 1 .. Len(l) + 1
    BY DEF l
  <2> QED BY <2>1, <1>4, BeforeIs, AtIs DEF l, GapOf
<1>8. fre \notin Range(l) /\ Range(l) \cap Range(F) = {} /\ p # fre /\ fre # NULL
  BY <1>2, <1>5, <1>6, <1>7
<1>9. nx \in [Qnodes -> Nodes] /\ da \in [Qnodes -> Data \cup {NoData}] /\ nxt[fre] \in Nodes
  BY <1>1, <1>5, <1>6, <1>7 DEF Put
<1>10. \A m \in Qnodes : nx[m] = IF m = p THEN fre ELSE IF m = fre THEN c ELSE nxt[m]
  BY <1>1, <1>5, <1>6, <1>7, <1>8 DEF Put
<1>11. \A m \in Qnodes : m \notin Range(l) /\ m # fre => nx[m] = nxt[m]
  BY <1>5, <1>7, <1>10
<1>12. /\ qv \in [Queues -> [head : Nodes, tail : Nodes, size : Nat]]
       /\ qv[q].head = IF k = 1 THEN fre ELSE qu[q].head
       /\ qv[q].tail = IF c = NULL THEN fre ELSE qu[q].tail
       /\ qv[q].size = qu[q].size + 1
       /\ \A r \in Queues \ {q} : qv[r] = qu[r]
  <2>1. qu[q].size \in Nat /\ qu[q].size + 1 \in Nat
    BY <1>1
  <2> DEFINE rec == [head |-> IF p = NULL THEN fre ELSE qu[q].head,
                     tail |-> IF c = NULL THEN fre ELSE qu[q].tail,
                     size |-> qu[q].size + 1]
  <2>2. qv = [qu EXCEPT ![q] = rec]
    <3>1. qv = [qu EXCEPT ![q].head = IF p = NULL THEN fre ELSE @,
                          ![q].tail = IF c = NULL THEN fre ELSE @,
                          ![q].size = @ + 1]
      BY Zenon DEF Put
    <3> QED BY <3>1, <1>1
  <2>3. rec \in [head : Nodes, tail : Nodes, size : Nat]
    BY <2>1, <1>1, <1>7
  <2>4. /\ rec.head = IF k = 1 THEN fre ELSE qu[q].head
        /\ rec.tail = IF c = NULL THEN fre ELSE qu[q].tail
        /\ rec.size = qu[q].size + 1
    BY <1>7
  <2> HIDE DEF rec
  <2> QED BY <2>2, <2>3, <2>4, <1>1
<1>13. /\ Links(nx, qv[q].head, a)
       /\ EndOf(a) = IF c = NULL THEN fre ELSE EndOf(l)
  <2> HIDE DEF l
  <2>1. Joins(nxt, nx, l, k, fre)
    BY <1>10 DEF l, GapOf, Joins
  <2>2. PICK h : h = qv[q].head
    OBVIOUS
  <2>3. PICK g : g = qu[q].head
    OBVIOUS
  <2>4. h = IF k = 1 THEN fre ELSE g
    BY <2>2, <2>3, <1>12
  <2>5. k \in 1 .. Len(l) + 1 /\ Links(nxt, g, l)
    BY <2>3, <1>4 DEF l
  <2>6. /\ Links(nx, h, InsertAt(l, k, fre))
        /\ EndOf(InsertAt(l, k, fre)) = IF At(l, k) = NULL THEN fre ELSE EndOf(l)
    BY <2>1, <2>4, <2>5, <1>1, <1>4, <1>6, <1>8, <1>9, LinkedList
  <2> QED BY <2>2, <2>6 DEF l, GapOf
<1>14. /\ a \in Seq(Qnodes) /\ IsInjective(a) /\ Range(a) = Range(l) \cup {fre}
       /\ Len(a) = Len(l) + 1
  <2> HIDE DEF l
  <2>1. k \in 1 .. Len(l) + 1
    BY DEF l
  <2> QED BY <2>1, <1>4, <1>6, <1>8, InsertAtRange, InsertAtParts
<1>15. \A s \in Seq(Qnodes) : Range(s) \subseteq Qnodes
  BY DEF Range
<1>16. Links(nx, nxt[fre], b)
  <2>1. \A m \in Range(Tail(F)) : nx[m] = nxt[m]
    BY <1>1, <1>6, <1>8, <1>11, <1>15
  <2> QED BY <2>1, <1>1, FreeLess
<1>17. M \in [Queues -> Seq(Qnodes)] /\ M[q] = a /\ \A r \in Queues \ {q} : M[r] = L[r]
  BY <1>1, <1>14
<1> HIDE DEF l, a, b, M
<1>18. ASSUME NEW r \in Queues \ {q} PROVE Links(nx, qu[r].head, L[r])
  <2>1. /\ L[r] \in Seq(Qnodes) /\ Links(nxt, qu[r].head, L[r])
        /\ Range(L[q]) \cap Range(L[r]) = {} /\ Range(L[r]) \cap Range(F) = {}
    BY <1>2
  <2>2. \A m \in Range(L[r]) : nx[m] = nxt[m]
    BY <2>1, <1>6, <1>11, <1>15 DEF l
  <2> QED BY <2>1, <2>2, SameList
<1>19. Typed(nx, da, nxt[fre], qv, M, b)
  BY <1>6, <1>9, <1>12, <1>17 DEF Typed
<1>20. Shaped(nx, nxt[fre], qv, M, b)
  <2>1. ASSUME NEW r \in Queues
        PROVE  Links(nx, qv[r].head, M[r]) /\ qv[r].tail = EndOf(M[r])
               /\ qv[r].size = Len(M[r])
    <3>1. CASE r = q
      <4>1. qu[q].tail = EndOf(l) /\ qu[q].size = Len(l)
        BY <1>2 DEF l
      <4> QED BY <3>1, <4>1, <1>12, <1>13, <1>14, <1>17
    <3>2. CASE r # q
      <4>1. qu[r].tail = EndOf(L[r]) /\ qu[r].size = Len(L[r])
        BY <1>2
      <4> QED BY <3>2, <4>1, <1>12, <1>17, <1>18
    <3> QED BY <3>1, <3>2
  <2> QED BY <2>1, <1>16, Zenon DEF Shaped
<1>21. Shared(M, b)
  <2>1. ASSUME NEW r \in Queues
        PROVE  /\ IsInjective(M[r])
               /\ Range(M[r]) = Range(L[r]) \cup (IF r = q THEN {fre} ELSE {})
    <3>1. CASE r = q
      BY <3>1, <1>14, <1>17 DEF l
    <3>2. CASE r # q
      <4>1. IsInjective(L[r])
        BY <1>2
      <4> QED BY <4>1, <3>2, <1>17
    <3> QED BY <3>1, <3>2
  <2>2. ASSUME NEW r \in Queues
        PROVE  /\ Range(M[r]) \cap Range(b) = {}
               /\ \A s \in Queues \ {r} : Range(M[r]) \cap Range(M[s]) = {}
    <3>1. Range(L[r]) \cap Range(F) = {}
      BY <1>2
    <3>2. \A s \in Queues \ {r} : /\ Range(L[r]) \cap Range(L[s]) = {}
                                 /\ Range(L[s]) \cap Range(F) = {}
      BY <1>2
    <3>3. Range(M[r]) \cap Range(b) = {}
      BY <3>1, <2>1, <1>6
    <3>4. ASSUME NEW s \in Queues \ {r} PROVE Range(M[r]) \cap Range(M[s]) = {}
      <4>1. s \in Queues /\ s # r /\ Range(L[r]) \cap Range(L[s]) = {}
        BY <3>2
      <4>2. fre \notin Range(L[r]) /\ fre \notin Range(L[s])
        BY <3>1, <3>2, <1>6
      <4>3. CASE r = q
        <5>1. Range(M[r]) = Range(L[r]) \cup {fre} /\ Range(M[s]) = Range(L[s])
          BY <4>1, <4>3, <2>1
        <5> QED BY <5>1, <4>1, <4>2
      <4>4. CASE r # q
        <5>1. Range(M[r]) = Range(L[r]) /\ Range(M[s]) \subseteq Range(L[s]) \cup {fre}
          BY <4>1, <4>4, <2>1
        <5> QED BY <5>1, <4>1, <4>2
      <4> QED BY <4>3, <4>4
    <3> QED BY <3>3, <3>4
  <2>3. ASSUME NEW m \in Qnodes
        PROVE  m \in Range(b) \/ \E r \in Queues : m \in Range(M[r])
    <3>1. CASE m = fre
      BY <3>1, <2>1
    <3>2. CASE m \in Range(F) /\ m # fre
      BY <3>2, <1>6
    <3>3. CASE m \notin Range(F)
      <4>1. PICK r \in Queues : m \in Range(L[r])
        BY <3>3, <1>3
      <4>2. m \in Range(M[r])
        BY <4>1, <2>1
      <4> QED BY <4>2
    <3> QED BY <3>1, <3>2, <3>3
  <2> QED BY <2>1, <2>2, <2>3, <1>6, Zenon DEF Shared
<1>22. Filled(da, M)
  <2> SUFFICES ASSUME NEW r \in Queues, NEW m \in Range(M[r]) PROVE da[m] \in Data
    BY Zenon DEF Filled
  <2>1. m = fre \/ m \in Range(L[r])
    BY <1>14, <1>17 DEF l
  <2>2. CASE m = fre
    BY <2>2, <1>1, <1>6 DEF Put
  <2>3. CASE m # fre
    <3>1. m \in Qnodes /\ dat[m] \in Data
      BY <2>1, <2>3, <1>2, <1>15
    <3> QED BY <2>3, <3>1, <1>1 DEF Put
  <2> QED BY <2>2, <2>3
<1> QED
  BY <1>19, <1>20, <1>21, <1>22, Zenon DEF Sound, M, a, b, l

-----------------------------------------------------------------------------
(* The entries of the queues *)

Entries(dat, l) == [i \in DOMAIN l |-> dat[l[i]]]
Contents(dat, L) == [q \in Queues |-> Entries(dat, L[q])]

LEMMA EntriesAre ==
  ASSUME NEW nxt, NEW dat, NEW fre, NEW qu, NEW L, NEW F,
         Sound(nxt, dat, fre, qu, L, F), NEW q \in Queues
  PROVE  /\ Contents(dat, L)[q] \in Seq(Data)
         /\ Len(Contents(dat, L)[q]) = Len(L[q])
         /\ \A i \in 1 .. Len(L[q]) : Contents(dat, L)[q][i] = dat[L[q][i]]
<1>1. L[q] \in Seq(Qnodes) /\ \A n \in Range(L[q]) : dat[n] \in Data
  <2>1. Sound(nxt, dat, fre, qu, L, F)
    OBVIOUS
  <2> QED BY <2>1, SoundParts, Zenon
<1>2. Len(L[q]) \in Nat /\ DOMAIN L[q] = 1 .. Len(L[q])
  BY <1>1, LenProperties
<1> DEFINE e == Entries(dat, L[q])
<1>3. \A i \in 1 .. Len(L[q]) : L[q][i] \in Range(L[q])
  BY <1>2 DEF Range
<1>4. e \in [1 .. Len(L[q]) -> Data] /\ \A i \in 1 .. Len(L[q]) : e[i] = dat[L[q][i]]
  BY <1>1, <1>2, <1>3 DEF Entries
<1> HIDE DEF e
<1>5. e \in Seq(Data) /\ Len(e) = Len(L[q])
  BY <1>2, <1>4, FcnIsSeq
<1>6. Contents(dat, L)[q] = e
  BY DEF Contents, e
<1> QED
  BY <1>4, <1>5, <1>6

\* Contents and room, as Promise computes them.
LEMMA Computed ==
  ASSUME NEW nxt, NEW dat, NEW fre, NEW qu, NEW L, NEW F,
         Sound(nxt, dat, fre, qu, L, F)
  PROVE  /\ [q \in Queues |-> LET l == Chain(nxt, qu[q].head)
                              IN  [i \in DOMAIN l |-> dat[l[i]]]] = Contents(dat, L)
         /\ Len(Chain(nxt, fre)) = Len(F)
<1>1. Chain(nxt, fre) = F /\ \A q \in Queues : Chain(nxt, qu[q].head) = L[q]
  BY SoundChains
<1> QED
  BY <1>1, Zenon DEF Contents, Entries

\* The value of n was set to x.
Wrote(dat, da, n, x) == da = [dat EXCEPT ![n] = x]

\* The qnodes of the queues other than q keep their data.
Keeps(L, q, dat, da) ==
  \A r \in Queues \ {q} : \A n \in Range(L[r]) : da[n] = dat[n]

LEMMA OthersKeep ==
  ASSUME NEW nxt, NEW dat, NEW fre, NEW qu, NEW L, NEW F,
         Sound(nxt, dat, fre, qu, L, F), NEW q \in Queues, NEW a, NEW da,
         Keeps(L, q, dat, da), NEW M, Wrote(L, M, q, a)
  PROVE  Wrote(Contents(dat, L), Contents(da, M), q, Entries(da, a))
<1>0. Sound(nxt, dat, fre, qu, L, F)
  OBVIOUS
<1>1. L \in [Queues -> Seq(Qnodes)]
  BY <1>0, SoundParts, Zenon
<1>2. M[q] = a /\ \A r \in Queues \ {q} : M[r] = L[r]
  BY <1>1 DEF Wrote
<1>3. ASSUME NEW r \in Queues \ {q} PROVE Entries(da, M[r]) = Entries(dat, L[r])
  <2>1. \A i \in DOMAIN L[r] : da[L[r][i]] = dat[L[r][i]]
    BY DEF Range, Keeps
  <2> QED BY <2>1, <1>2, Zenon DEF Entries
<1>4. Entries(da, M[q]) = Entries(da, a)
  BY <1>2
<1>5. [r \in Queues |-> Entries(da, M[r])]
        = [[r \in Queues |-> Entries(dat, L[r])] EXCEPT ![q] = Entries(da, a)]
  BY <1>3, <1>4
<1> QED
  BY <1>5 DEF Contents, Wrote

LEMMA EntriesOut ==
  ASSUME NEW nxt, NEW dat, NEW fre, NEW qu, NEW L, NEW F,
         Sound(nxt, dat, fre, qu, L, F),
         NEW q \in Queues, NEW k \in 1 .. Len(L[q]), NEW n, n = L[q][k],
         NEW da, Wrote(dat, da, n, NoData), NEW M, Wrote(L, M, q, RemoveAt(L[q], k))
  PROVE  Wrote(Contents(dat, L), Contents(da, M), q, RemoveAt(Contents(dat, L)[q], k))
<1> DEFINE l == L[q]
           a == RemoveAt(l, k)
           e == Contents(dat, L)[q]
<1>0. Sound(nxt, dat, fre, qu, L, F)
  OBVIOUS
<1>1. /\ dat \in [Qnodes -> Data \cup {NoData}] /\ F \in Seq(Qnodes)
      /\ l \in Seq(Qnodes) /\ IsInjective(l)
      /\ \A r \in Queues \ {q} : Range(L[q]) \cap Range(L[r]) = {}
  BY <1>0, SoundParts, Zenon
<1>2. e \in Seq(Data) /\ Len(e) = Len(l) /\ \A i \in 1 .. Len(l) : e[i] = dat[l[i]]
  BY <1>0, EntriesAre
<1>3. Len(l) \in Nat /\ n \in Qnodes /\ n \in Range(l)
  BY <1>1, LenProperties, ElementOfSeq DEF Range
<1>4. Keeps(L, q, dat, da)
  <2>1. da = [dat EXCEPT ![n] = NoData]
    BY Zenon DEF Wrote
  <2> QED BY <2>1, <1>1, <1>3 DEF Keeps
<1>5. /\ a \in Seq(Qnodes) /\ Len(a) = Len(l) - 1
      /\ \A i \in 1 .. Len(l) - 1 : a[i] = IF i < k THEN l[i] ELSE l[i + 1]
  BY <1>1, RemoveAtEntries
<1>6. /\ RemoveAt(e, k) \in Seq(Data) /\ Len(RemoveAt(e, k)) = Len(l) - 1
      /\ \A i \in 1 .. Len(l) - 1 : RemoveAt(e, k)[i] = IF i < k THEN e[i] ELSE e[i + 1]
  <2> HIDE DEF e, l
  <2>1. k \in 1 .. Len(e)
    BY <1>2 DEF l
  <2> QED BY <2>1, <1>2, RemoveAtEntries
<1>7. Range(a) = Range(l) \ {n}
  BY <1>1, RemoveAtRange
<1>8. Entries(da, a) = RemoveAt(e, k)
  <2> DEFINE f == Entries(da, a)
             g == RemoveAt(e, k)
  <2> HIDE DEF e, l, a
  <2>1. DOMAIN a = 1 .. Len(l) - 1 /\ \A i \in 1 .. Len(l) - 1 : a[i] \in Range(a)
    BY <1>3, <1>5, LenProperties DEF Range
  <2>2. ASSUME NEW i \in 1 .. Len(l) - 1 PROVE da[a[i]] = g[i]
    <3>1. a[i] # n /\ a[i] \in Qnodes
      BY <2>1, <1>5, <1>7, ElementOfSeq
    <3>2. da[a[i]] = dat[a[i]]
      BY <3>1, <1>1 DEF Wrote
    <3>3. i \in 1 .. Len(l) /\ i + 1 \in 1 .. Len(l)
      BY <1>3
    <3>4. g[i] = dat[a[i]]
      <4>1. e[i] = dat[l[i]] /\ e[i + 1] = dat[l[i + 1]]
        BY <3>3, <1>2
      <4>2. a[i] = (IF i < k THEN l[i] ELSE l[i + 1]) /\ g[i] = (IF i < k THEN e[i] ELSE e[i + 1])
        BY <1>5, <1>6
      <4> QED BY <4>1, <4>2
    <3> QED BY <3>2, <3>4
  <2>3. f = [i \in 1 .. Len(l) - 1 |-> g[i]]
    BY <2>1, <2>2 DEF Entries
  <2>4. g = [i \in 1 .. Len(l) - 1 |-> g[i]]
    <3> HIDE DEF g
    <3>1. g \in Seq(Data) /\ Len(g) = Len(l) - 1
      BY <1>6 DEF g
    <3>2. DOMAIN g = 1 .. Len(l) - 1 /\ g = [i \in DOMAIN g |-> g[i]]
      BY <3>1, LenProperties
    <3> QED BY <3>2
  <2> QED BY <2>3, <2>4
<1>9. Wrote(Contents(dat, L), Contents(da, M), q, RemoveAt(e, k))
  <2>1. Wrote(L, M, q, a)
    OBVIOUS
  <2> HIDE DEF e, a, l
  <2>2. Wrote(Contents(dat, L), Contents(da, M), q, Entries(da, a))
    BY <1>0, <1>4, <2>1, OthersKeep, Zenon
  <2> QED BY <2>2, <1>8, Zenon
<1> QED
  BY <1>9

\* One qnode more on the free list.
LEMMA FreeGrows ==
  ASSUME NEW F \in Seq(Qnodes), NEW n \in Qnodes
  PROVE  Len(InsertAt(F, 1, n)) = Len(F) + 1
<1>1. 1 \in 1 .. Len(F) + 1
  BY LenProperties
<1> QED
  BY <1>1, InsertAtIs DEF Inserted

\* e are the data of the qnodes of l.
Reads(da, l, e) == Len(e) = Len(l) /\ \A i \in 1 .. Len(l) : da[l[i]] = e[i]

\* Data of a list with one qnode more.
LEMMA EntriesInserted ==
  ASSUME NEW l \in Seq(Qnodes), NEW k \in 1 .. Len(l) + 1, NEW x \in Qnodes,
         NEW e \in Seq(Data), NEW d \in Data, NEW da, da[x] = d, Reads(da, l, e)
  PROVE  Entries(da, InsertAt(l, k, x)) = InsertAt(e, k, d)
<1> DEFINE a == InsertAt(l, k, x)
           g == InsertAt(e, k, d)
<1>0. Len(e) = Len(l) /\ \A i \in 1 .. Len(l) : da[l[i]] = e[i]
  BY Zenon DEF Reads
<1>1. a \in Seq(Qnodes) /\ Inserted(a, l, k, x)
  BY InsertAtIs, Zenon
<1>2. k \in 1 .. Len(e) + 1
  BY <1>0
<1>3. g \in Seq(Data) /\ Inserted(g, e, k, d)
  BY <1>2, InsertAtIs, Zenon
<1> HIDE DEF a, g
<1>4. /\ Len(a) = Len(l) + 1 /\ a[k] = x
      /\ \A i \in 1 .. Len(l) + 1 : i < k => a[i] = l[i]
      /\ \A i \in 1 .. Len(l) + 1 : i > k => a[i] = l[i - 1]
  BY <1>1 DEF Inserted
<1>5. /\ Len(g) = Len(l) + 1 /\ g[k] = d
      /\ \A i \in 1 .. Len(l) + 1 : i < k => g[i] = e[i]
      /\ \A i \in 1 .. Len(l) + 1 : i > k => g[i] = e[i - 1]
  BY <1>0, <1>3 DEF Inserted
<1>8. Len(l) \in Nat /\ k \in Nat /\ k >= 1 /\ k <= Len(l) + 1
  BY LenProperties
<1>9. DOMAIN a = 1 .. Len(l) + 1 /\ DOMAIN g = 1 .. Len(l) + 1
  BY <1>1, <1>3, <1>4, <1>5, <1>8, LenProperties
<1>10. ASSUME NEW i \in 1 .. Len(l) + 1 PROVE da[a[i]] = g[i]
  <2>1. CASE i < k
    <3>1. i \in 1 .. Len(l)
      BY <2>1, <1>8
    <3> QED BY <2>1, <3>1, <1>0, <1>4, <1>5
  <2>2. CASE i = k
    BY <2>2, <1>4, <1>5
  <2>3. CASE i > k
    <3>1. i - 1 \in 1 .. Len(l)
      BY <2>3, <1>8
    <3> QED BY <2>3, <3>1, <1>0, <1>4, <1>5
  <2>4. i < k \/ i = k \/ i > k
    BY <1>8
  <2> QED BY <2>1, <2>2, <2>3, <2>4
<1>11. Entries(da, a) = [i \in 1 .. Len(l) + 1 |-> g[i]]
  BY <1>9, <1>10 DEF Entries
<1>12. g = [i \in DOMAIN g |-> g[i]]
  BY <1>3
<1> QED
  BY <1>9, <1>11, <1>12 DEF a, g

LEMMA EntriesIn ==
  ASSUME NEW nxt, NEW dat, NEW fre, NEW qu, NEW L, NEW F,
         Sound(nxt, dat, fre, qu, L, F), F # <<>>,
         NEW q \in Queues, NEW k \in 1 .. Len(L[q]) + 1, NEW d \in Data,
         NEW da, Wrote(dat, da, fre, d), NEW M, Wrote(L, M, q, InsertAt(L[q], k, fre))
  PROVE  /\ Wrote(Contents(dat, L), Contents(da, M), q, InsertAt(Contents(dat, L)[q], k, d))
         /\ Len(Tail(F)) = Len(F) - 1
<1> DEFINE l == L[q]
           a == InsertAt(l, k, fre)
           e == Contents(dat, L)[q]
<1>0. Sound(nxt, dat, fre, qu, L, F)
  OBVIOUS
<1>1. /\ dat \in [Qnodes -> Data \cup {NoData}] /\ F \in Seq(Qnodes)
      /\ l \in Seq(Qnodes) /\ IsInjective(l) /\ IsInjective(F) /\ Links(nxt, fre, F)
      /\ \A r \in Queues : Range(L[r]) \cap Range(F) = {}
  BY <1>0, SoundParts, Zenon
<1>2. e \in Seq(Data) /\ Len(e) = Len(l) /\ \A i \in 1 .. Len(l) : e[i] = dat[l[i]]
  BY <1>0, EntriesAre
<1>3. Len(l) \in Nat /\ fre \in Qnodes /\ fre \in Range(F) /\ Len(Tail(F)) = Len(F) - 1
  <2>1. fre = Head(F)
    BY <1>1, FreeLess
  <2>2. Head(F) \in Range(F) /\ Head(F) \in Qnodes /\ Len(Tail(F)) = Len(F) - 1
    BY <1>1, TailRange
  <2> QED BY <2>1, <2>2, <1>1, LenProperties
<1>4. \A r \in Queues : \A m \in Range(L[r]) : da[m] = dat[m]
  BY <1>1, <1>3 DEF Wrote
<1>5. \A i \in 1 .. Len(l) : da[l[i]] = e[i]
  <2>1. \A i \in 1 .. Len(l) : l[i] \in Range(l)
    BY <1>1, LenProperties DEF Range
  <2> QED BY <2>1, <1>2, <1>4
<1>6. da[fre] = d
  BY <1>1, <1>3 DEF Wrote
<1>7. Entries(da, a) = InsertAt(e, k, d)
  <2> HIDE DEF e, l
  <2>1. k \in 1 .. Len(l) + 1
    BY DEF l
  <2>2. Reads(da, l, e)
    BY <1>2, <1>5 DEF Reads
  <2> QED BY <2>1, <2>2, <1>1, <1>2, <1>3, <1>6, EntriesInserted
<1>8. Wrote(Contents(dat, L), Contents(da, M), q, InsertAt(e, k, d))
  <2>1. Keeps(L, q, dat, da)
    BY <1>4 DEF Keeps
  <2>2. Wrote(L, M, q, a)
    OBVIOUS
  <2> HIDE DEF e, a, l
  <2>3. Wrote(Contents(dat, L), Contents(da, M), q, Entries(da, a))
    BY <1>0, <2>1, <2>2, OthersKeep, Zenon
  <2> QED BY <2>3, <1>7, Zenon
<1> QED
  BY <1>3, <1>8

LEMMA Removal ==
  ASSUME NEW nxt, NEW dat, NEW fre, NEW qu, NEW L, NEW F,
         Sound(nxt, dat, fre, qu, L, F),
         NEW q \in Queues, NEW k \in 1 .. Len(L[q]),
         NEW n, NEW p, PlaceOf(L[q], k, p, n), NEW nx, NEW da, NEW qv,
         Taken(nxt, dat, fre, qu, q, p, n, nx, da, qv)
  PROVE  \E M, G : /\ Sound(nx, da, n, qv, M, G)
                   /\ Wrote(Contents(dat, L), Contents(da, M), q,
                            RemoveAt(Contents(dat, L)[q], k))
                   /\ Len(G) = Len(F) + 1
<1>1. Sound(nxt, dat, fre, qu, L, F) /\ PlaceOf(L[q], k, p, n)
      /\ Taken(nxt, dat, fre, qu, q, p, n, nx, da, qv) /\ k \in 1 .. Len(L[q])
  OBVIOUS
<1> DEFINE M == [L EXCEPT ![q] = RemoveAt(L[q], k)]
           G == InsertAt(F, 1, n)
<1>2. Sound(nx, da, n, qv, M, G)
  BY <1>1, TakeOut, Zenon
<1>3. Wrote(dat, da, n, NoData) /\ n = L[q][k]
  BY <1>1, Zenon DEF Taken, Wrote, PlaceOf
<1>4. Wrote(L, M, q, RemoveAt(L[q], k))
  BY Zenon DEF Wrote
<1>5. Wrote(Contents(dat, L), Contents(da, M), q, RemoveAt(Contents(dat, L)[q], k))
  <2> HIDE DEF M, G
  <2> QED BY <1>1, <1>3, <1>4, EntriesOut, SMTT(30)
<1>6. Len(G) = Len(F) + 1
  <2>1. F \in Seq(Qnodes) /\ L[q] \in Seq(Qnodes)
    BY <1>1, SoundParts
  <2>2. L[q][k] \in Qnodes
    BY <2>1, ElementOfSeq
  <2> QED BY <2>1, <2>2, <1>3, FreeGrows
<1> HIDE DEF M, G
<1> QED
  BY <1>2, <1>5, <1>6, Zenon

LEMMA Insertion ==
  ASSUME NEW nxt, NEW dat, NEW fre, NEW qu, NEW L, NEW F,
         Sound(nxt, dat, fre, qu, L, F), F # <<>>,
         NEW q \in Queues, NEW k \in 1 .. Len(L[q]) + 1, NEW d \in Data,
         NEW p, NEW c, GapOf(L[q], k, p, c), NEW nx, NEW da, NEW qv,
         Put(nxt, dat, fre, qu, q, p, c, d, nx, da, qv)
  PROVE  \E M, G : /\ Sound(nx, da, nxt[fre], qv, M, G)
                   /\ Wrote(Contents(dat, L), Contents(da, M), q,
                            InsertAt(Contents(dat, L)[q], k, d))
                   /\ Len(G) = Len(F) - 1
<1>1. Sound(nxt, dat, fre, qu, L, F) /\ F # <<>> /\ GapOf(L[q], k, p, c)
      /\ Put(nxt, dat, fre, qu, q, p, c, d, nx, da, qv) /\ k \in 1 .. Len(L[q]) + 1
  OBVIOUS
<1> DEFINE M == [L EXCEPT ![q] = InsertAt(L[q], k, fre)]
           G == Tail(F)
<1>2. Sound(nx, da, nxt[fre], qv, M, G)
  BY <1>1, PutIn, Zenon
<1>3. Wrote(dat, da, fre, d)
  BY <1>1, Zenon DEF Put, Wrote
<1>4. Wrote(L, M, q, InsertAt(L[q], k, fre))
  BY Zenon DEF Wrote
<1>5. Wrote(Contents(dat, L), Contents(da, M), q, InsertAt(Contents(dat, L)[q], k, d))
  <2> HIDE DEF M, G
  <2> QED BY <1>1, <1>3, <1>4, EntriesIn, SMTT(30)
<1>6. Len(G) = Len(F) - 1
  <2> HIDE DEF M
  <2> QED BY <1>1, <1>3, <1>4, EntriesIn, SMTT(30)
<1> HIDE DEF M, G
<1> QED
  BY <1>2, <1>5, <1>6, Zenon

\* The place of d in a sorted sequence is the only one that splits it.
LEMMA SlotIs ==
  ASSUME NEW s \in Seq(Data), NEW d \in Data, NEW k \in 1 .. Len(s) + 1,
         \A j \in 1 .. k - 1 : Key(s[j]) <= Key(d),
         k <= Len(s) => Key(d) < Key(s[k])
  PROVE  Promise!Slot(s, d) = k
<1> DEFINE Splits(i) == /\ \A j \in 1 .. i - 1 : Key(s[j]) <= Key(d)
                        /\ i <= Len(s) => Key(d) < Key(s[i])
           x == CHOOSE i \in 1 .. Len(s) + 1 : Splits(i)
<1>1. Promise!Slot(s, d) = x
  BY Zenon DEF Promise!Slot
<1>2. Splits(k)
  OBVIOUS
<1>3. x \in 1 .. Len(s) + 1 /\ Splits(x)
  <2> HIDE DEF Splits
  <2> QED BY <1>2, Zenon
<1> HIDE DEF x
<1>4. Len(s) \in Nat /\ Key(d) \in Int /\ \A i \in 1 .. Len(s) : Key(s[i]) \in Int
  BY QueueAssumption, LenProperties, ElementOfSeq
<1>5. ASSUME x < k PROVE FALSE
  <2>1. x \in 1 .. k - 1 /\ x \in 1 .. Len(s) /\ x <= Len(s)
    BY <1>3, <1>4, <1>5
  <2>2. Key(s[x]) <= Key(d) /\ Key(d) < Key(s[x]) /\ Key(s[x]) \in Int
    BY <2>1, <1>2, <1>3, <1>4
  <2> QED BY <2>2, <1>4
<1>6. ASSUME k < x PROVE FALSE
  <2>1. k \in 1 .. x - 1 /\ k \in 1 .. Len(s) /\ k <= Len(s)
    BY <1>3, <1>4, <1>6
  <2>2. Key(s[k]) <= Key(d) /\ Key(d) < Key(s[k]) /\ Key(s[k]) \in Int
    BY <2>1, <1>2, <1>3, <1>4
  <2> QED BY <2>2, <1>4
<1>7. x = k
  <2>1. x \in Int /\ k \in Int
    BY <1>3, <1>4
  <2> QED BY <2>1, <1>5, <1>6
<1> QED
  BY <1>1, <1>7

-----------------------------------------------------------------------------
(* The calls, as steps of the lists *)

\* The state the lists are those of, before and after the step.
Now(L, F) == Sound(next, data, free_qnodes, que, L, F)
Then(M, G) == Sound(next', data', free_qnodes', que', M, G)

\* What a list says of the head, tail and size of its queue.
LEMMA QueueFacts ==
  ASSUME NEW L, NEW F, Now(L, F), NEW q \in Queues
  PROVE  /\ L[q] \in Seq(Qnodes) /\ IsInjective(L[q]) /\ Len(L[q]) \in Nat
         /\ Links(next, que[q].head, L[q])
         /\ que[q].head = At(L[q], 1) /\ que[q].tail = EndOf(L[q])
         /\ que[q].size = Len(L[q])
         /\ que[q].size = 0 <=> L[q] = <<>>
         /\ Contents(data, L)[q] \in Seq(Data)
         /\ Len(Contents(data, L)[q]) = Len(L[q])
         /\ \A i \in 1 .. Len(L[q]) : /\ Contents(data, L)[q][i] = data[L[q][i]]
                                     /\ L[q][i] \in Qnodes /\ L[q][i] # NULL
<1>1. Sound(next, data, free_qnodes, que, L, F)
  BY Zenon DEF Now
<1>2. /\ L[q] \in Seq(Qnodes) /\ IsInjective(L[q])
      /\ Links(next, que[q].head, L[q])
      /\ que[q].tail = EndOf(L[q]) /\ que[q].size = Len(L[q])
  BY <1>1, SoundParts
<1>3. que[q].head = At(L[q], 1)
  BY <1>2, Zenon DEF Links
<1>4. Len(L[q]) \in Nat /\ (Len(L[q]) = 0 <=> L[q] = <<>>)
  BY <1>2, LenProperties, EmptySeq
<1>5. /\ Contents(data, L)[q] \in Seq(Data)
      /\ Len(Contents(data, L)[q]) = Len(L[q])
      /\ \A i \in 1 .. Len(L[q]) : Contents(data, L)[q][i] = data[L[q][i]]
  BY <1>1, EntriesAre
<1>6. \A i \in 1 .. Len(L[q]) : L[q][i] \in Qnodes /\ L[q][i] # NULL
  <2>1. \A i \in 1 .. Len(L[q]) : L[q][i] \in Qnodes
    BY <1>2, ElementOfSeq
  <2> QED BY <2>1, QueueAssumption DEF Qnodes, NULL
<1> QED
  BY <1>2, <1>3, <1>4, <1>5, <1>6, Zenon

\* The free list is empty when its head is NULL.
LEMMA FreeFacts ==
  ASSUME NEW L, NEW F, Now(L, F)
  PROVE  /\ Len(F) \in Nat
         /\ free_qnodes = NULL <=> F = <<>>
         /\ F = <<>> <=> Len(F) = 0
<1>1. F \in Seq(Qnodes) /\ free_qnodes = At(F, 1)
  <2>1. Sound(next, data, free_qnodes, que, L, F)
    BY Zenon DEF Now
  <2>2. F \in Seq(Qnodes) /\ Links(next, free_qnodes, F)
    BY <2>1, SoundParts, Zenon
  <2> QED BY <2>2, Zenon DEF Links
<1>2. Len(F) \in Nat /\ (F = <<>> <=> Len(F) = 0)
  BY <1>1, LenProperties, EmptySeq
<1>3. CASE F = <<>>
  BY <1>1, <1>2, <1>3 DEF At
<1>4. CASE F # <<>>
  <2>1. 1 \in 1 .. Len(F) /\ 1 <= Len(F)
    BY <1>2, <1>4
  <2>2. F[1] \in Qnodes /\ F[1] # NULL
    BY <2>1, <1>1, ElementOfSeq, QueueAssumption DEF Qnodes, NULL
  <2> QED BY <2>1, <2>2, <1>1, <1>2, <1>4 DEF At
<1> QED
  BY <1>2, <1>3, <1>4

\* A call that changes nothing.
LEMMA Unchanged ==
  ASSUME NEW L, NEW F, Now(L, F), UNCHANGED <<next, data, free_qnodes, que>>
  PROVE  Then(L, F) /\ Contents(data', L) = Contents(data, L)
  BY Zenon DEF Now, Then

(***************************************************************************)
(* q_enque puts the entry where QueueContents wants it.  The check that it *)
(* found no place in a queue that is not empty never fires.                *)
(***************************************************************************)
LEMMA PlaceIs ==
  ASSUME NEW L, NEW F, Now(L, F), NEW q \in Queues, NEW d \in Data
  PROVE  \E k \in 1 .. Len(L[q]) + 1 :
           /\ GapOf(L[q], k, place(q, d).prev, place(q, d).curr)
           /\ k = IF q \in Sorted THEN Promise!Slot(Contents(data, L)[q], d)
                  ELSE Len(Contents(data, L)[q]) + 1
<1> DEFINE l == L[q]
           e == Contents(data, L)[q]
<1>1. /\ l \in Seq(Qnodes) /\ IsInjective(l) /\ Len(l) \in Nat
      /\ Links(next, que[q].head, l)
      /\ que[q].head = At(l, 1) /\ que[q].tail = EndOf(l)
      /\ que[q].size = Len(l) /\ (que[q].size = 0 <=> l = <<>>)
      /\ e \in Seq(Data) /\ Len(e) = Len(l)
      /\ \A i \in 1 .. Len(l) : e[i] = data[l[i]] /\ l[i] \in Qnodes /\ l[i] # NULL
  BY QueueFacts, Zenon
<1> HIDE DEF l, e
<1>2. CASE que[q].size = 0
  <2>1. place(q, d).prev = NULL /\ place(q, d).curr = NULL
    BY <1>2 DEF place
  <2>2. Len(l) = 0 /\ 1 \in 1 .. Len(l) + 1 /\ 1 = Len(e) + 1
    BY <1>1, <1>2
  <2>3. GapOf(l, 1, place(q, d).prev, place(q, d).curr)
    <3>1. Before(l, 1) = NULL /\ At(l, 1) = NULL
      BY <2>2 DEF Before, At
    <3> QED BY <3>1, <2>1 DEF GapOf
  <2>4. Promise!Slot(e, d) = 1
    <3>1. PICK k \in 1 .. Len(e) + 1 : k = 1
      BY <2>2, <1>1
    <3>2. (\A j \in 1 .. k - 1 : Key(e[j]) <= Key(d)) /\ (k <= Len(e) => Key(d) < Key(e[k]))
      BY <3>1, <2>2, <1>1
    <3> QED BY <3>1, <3>2, <1>1, SlotIs
  <2> QED BY <2>2, <2>3, <2>4, Zenon DEF l, e
<1>3. CASE que[q].size # 0 /\ q \notin Sorted
  <2>1. place(q, d).prev = EndOf(l) /\ place(q, d).curr = NULL
    BY <1>1, <1>3 DEF place
  <2>2. PICK k \in 1 .. Len(l) + 1 : k = Len(l) + 1
    BY <1>1
  <2>3. GapOf(l, k, place(q, d).prev, place(q, d).curr)
    <3>1. k # 1 /\ k - 1 = Len(l) /\ ~(k <= Len(l))
      BY <1>1, <1>3, <2>2
    <3>2. l # <<>>
      BY <1>1, <1>3
    <3> QED BY <2>1, <3>1, <3>2 DEF GapOf, Before, At, EndOf
  <2> QED BY <2>2, <2>3, <1>1, <1>3 DEF l, e
<1>4. CASE que[q].size # 0 /\ q \in Sorted
  <2> DEFINE past == passed(d)
  <2>1. place(q, d) = walk(past, que[q].head)
    BY <1>4, Zenon DEF place
  <2>2. data \in [Qnodes -> Data \cup {NoData}]
    <3>1. Sound(next, data, free_qnodes, que, L, F)
      BY Zenon DEF Now
    <3> QED BY <3>1, SoundParts, Zenon
  <2>3. \A n \in past : Key(d) >= Key(data[n])
    BY DEF passed
  <2>4. \A n \in Qnodes : n \notin past /\ data[n] # NoData => ~(Key(d) >= Key(data[n]))
    BY DEF passed
  <2> HIDE DEF past
  <2>5. PICK k \in 1 .. Len(l) + 1 :
          /\ \A j \in 1 .. k - 1 : l[j] \in past
          /\ k <= Len(l) => l[k] \notin past
          /\ GapOf(l, k, walk(past, que[q].head).prev, walk(past, que[q].head).curr)
    BY <1>1, WalkIs
  <2>6. GapOf(l, k, place(q, d).prev, place(q, d).curr)
    BY <2>1, <2>5, Zenon
  <2>7. \A i \in 1 .. Len(l) : e[i] \in Data /\ Key(e[i]) \in Int /\ e[i] # NoData
    <3>1. \A i \in 1 .. Len(l) : e[i] \in Data
      BY <1>1, ElementOfSeq
    <3> QED BY <3>1, QueueAssumption
  <2>8. Key(d) \in Int
    BY QueueAssumption
  <2>9. ASSUME NEW j \in 1 .. k - 1 PROVE Key(e[j]) <= Key(d)
    <3>1. j \in 1 .. Len(l)
      BY <1>1
    <3>2. Key(d) >= Key(data[l[j]]) /\ e[j] = data[l[j]]
      BY <3>1, <2>3, <2>5, <1>1
    <3> QED BY <3>1, <3>2, <2>7, <2>8
  <2>10. ASSUME k <= Len(l) PROVE Key(d) < Key(e[k])
    <3>1. k \in 1 .. Len(l)
      BY <1>1, <2>10
    <3>2. l[k] \in Qnodes /\ l[k] \notin past /\ e[k] = data[l[k]] /\ e[k] # NoData
      BY <3>1, <2>5, <2>7, <2>10, <1>1
    <3>3. ~(Key(d) >= Key(e[k]))
      BY <3>2, <2>4
    <3> QED BY <3>1, <3>3, <2>7, <2>8
  <2>11. Promise!Slot(e, d) = k
    <3>1. k \in 1 .. Len(e) + 1 /\ (k <= Len(e) => Key(d) < Key(e[k]))
      BY <2>10, <1>1
    <3> QED BY <3>1, <2>9, <1>1, SlotIs
  <2> QED BY <2>6, <2>11, <1>4, Zenon DEF l, e
<1> QED
  BY <1>2, <1>3, <1>4

LEMMA EnqueStep ==
  ASSUME NEW L, NEW F, Now(L, F), NEW q \in Queues, NEW d \in Data, q_enque(q, d)
  PROVE  \E M, G :
           /\ Then(M, G)
           /\ \/ /\ Len(F) > 0
                 /\ reply' = <<"E_SUCCESS", Nothing>>
                 /\ \E k : /\ k = IF q \in Sorted THEN Promise!Slot(Contents(data, L)[q], d)
                                   ELSE Len(Contents(data, L)[q]) + 1
                           /\ Wrote(Contents(data, L), Contents(data', M), q,
                                    InsertAt(Contents(data, L)[q], k, d))
                 /\ Len(G) = Len(F) - 1
              \/ /\ Len(F) = 0
                 /\ reply' = <<"E_NO_QNODES", Nothing>>
                 /\ Contents(data', M) = Contents(data, L)
                 /\ Len(G) = Len(F)
<1>1. Len(F) \in Nat /\ (free_qnodes = NULL <=> F = <<>>) /\ (F = <<>> <=> Len(F) = 0)
  BY FreeFacts
<1>2. CASE free_qnodes = NULL
  <2>1. reply' = <<"E_NO_QNODES", Nothing>> /\ UNCHANGED <<next, data, free_qnodes, que>>
    BY <1>2, Zenon DEF q_enque
  <2>2. Then(L, F) /\ Contents(data', L) = Contents(data, L)
    BY <2>1, Unchanged
  <2>3. Len(F) = 0
    BY <1>1, <1>2
  <2> QED BY <2>1, <2>2, <2>3, Zenon
<1>3. CASE free_qnodes # NULL
  <2>1. PICK k \in 1 .. Len(L[q]) + 1 :
          /\ GapOf(L[q], k, place(q, d).prev, place(q, d).curr)
          /\ k = IF q \in Sorted THEN Promise!Slot(Contents(data, L)[q], d)
                 ELSE Len(Contents(data, L)[q]) + 1
    BY PlaceIs, Zenon
  <2> DEFINE p == place(q, d).prev
             c == place(q, d).curr
  <2>2. ~(que[q].size # 0 /\ p = NULL /\ c = NULL)
    <3> SUFFICES ASSUME que[q].size # 0, p = NULL, c = NULL PROVE FALSE
      OBVIOUS
    <3>1. /\ L[q] \in Seq(Qnodes) /\ Len(L[q]) \in Nat /\ que[q].size = Len(L[q])
          /\ \A i \in 1 .. Len(L[q]) : L[q][i] # NULL
      BY QueueFacts, Zenon
    <3>2. Before(L[q], k) = NULL /\ At(L[q], k) = NULL
      BY <2>1, Zenon DEF GapOf
    <3>3. CASE k = 1
      <4>1. 1 \in 1 .. Len(L[q]) /\ 1 <= Len(L[q])
        BY <3>1
      <4> QED BY <4>1, <3>1, <3>2, <3>3 DEF At
    <3>4. CASE k # 1
      <4>1. k - 1 \in 1 .. Len(L[q])
        BY <3>1, <3>4
      <4> QED BY <4>1, <3>1, <3>2, <3>4 DEF Before
    <3> QED BY <3>3, <3>4
  <2>3. /\ free_qnodes' = next[free_qnodes]
        /\ data' = [data EXCEPT ![free_qnodes] = d]
        /\ next' = IF p = NULL THEN [next EXCEPT ![free_qnodes] = c]
                   ELSE [[next EXCEPT ![free_qnodes] = c] EXCEPT ![p] = free_qnodes]
        /\ que' = [que EXCEPT ![q].head = IF p = NULL THEN free_qnodes ELSE @,
                              ![q].tail = IF c = NULL THEN free_qnodes ELSE @,
                              ![q].size = @ + 1]
        /\ reply' = <<"E_SUCCESS", Nothing>>
    BY <1>3, <2>2, Zenon DEF q_enque
  <2>4. GapOf(L[q], k, p, c)
    BY <2>1, Zenon
  <2> HIDE DEF p, c
  <2>5. Put(next, data, free_qnodes, que, q, p, c, d, next', data', que')
    BY <2>3, Zenon DEF Put
  <2>6. F # <<>> /\ Len(F) > 0
    BY <1>1, <1>3
  <2>7. Sound(next, data, free_qnodes, que, L, F)
    BY Zenon DEF Now
  <2>8. PICK M, G : /\ Sound(next', data', next[free_qnodes], que', M, G)
                    /\ Wrote(Contents(data, L), Contents(data', M), q,
                             InsertAt(Contents(data, L)[q], k, d))
                    /\ Len(G) = Len(F) - 1
    BY <2>4, <2>5, <2>6, <2>7, Insertion
  <2>9. Then(M, G)
    BY <2>3, <2>8, Zenon DEF Then
  <2> QED BY <2>1, <2>3, <2>6, <2>8, <2>9, Zenon
<1> QED
  BY <1>2, <1>3

(***************************************************************************)
(* q_peek and q_deque see the first entry; their checks never fire.        *)
(***************************************************************************)
LEMMA HeadIs ==
  ASSUME NEW L, NEW F, Now(L, F), NEW q \in Queues, que[q].size # 0
  PROVE  /\ L[q] # <<>> /\ 1 \in 1 .. Len(L[q])
         /\ que[q].head = L[q][1] /\ que[q].head \in Qnodes /\ ~q_broken(q)
         /\ next[que[q].head] = NULL <=> Len(L[q]) = 1
         /\ next[que[q].head] = NULL <=> que[q].tail = que[q].head
         /\ Contents(data, L)[q] # <<>>
         /\ Head(Contents(data, L)[q]) = data[que[q].head]
<1> DEFINE l == L[q]
           e == Contents(data, L)[q]
<1>1. /\ l \in Seq(Qnodes) /\ IsInjective(l) /\ Len(l) \in Nat
      /\ Links(next, que[q].head, l)
      /\ que[q].head = At(l, 1) /\ que[q].tail = EndOf(l)
      /\ que[q].size = Len(l) /\ (que[q].size = 0 <=> l = <<>>)
      /\ e \in Seq(Data) /\ Len(e) = Len(l)
      /\ \A i \in 1 .. Len(l) : e[i] = data[l[i]] /\ l[i] \in Qnodes /\ l[i] # NULL
  BY QueueFacts, Zenon
<1> HIDE DEF l, e
<1>2. l # <<>> /\ 1 \in 1 .. Len(l) /\ 1 <= Len(l) /\ Len(l) \in 1 .. Len(l) /\ Len(l) # 0
  BY <1>1
<1>3. que[q].head = l[1] /\ que[q].tail = l[Len(l)]
  BY <1>1, <1>2 DEF At, EndOf
<1>4. l[1] \in Qnodes /\ l[1] # NULL /\ l[Len(l)] # NULL /\ e[1] = data[l[1]]
  BY <1>1, <1>2
<1>5. next[l[1]] = At(l, 1 + 1)
  BY <1>1, <1>2 DEF Links
<1>6. next[l[1]] = NULL <=> Len(l) = 1
  <2>1. CASE Len(l) = 1
    BY <2>1, <1>5 DEF At
  <2>2. CASE Len(l) # 1
    <3>1. 1 + 1 \in 1 .. Len(l) /\ 1 + 1 <= Len(l)
      BY <2>2, <1>1, <1>2
    <3> QED BY <2>2, <3>1, <1>1, <1>5 DEF At
  <2> QED BY <2>1, <2>2
<1>7. l[Len(l)] = l[1] <=> Len(l) = 1
  <2>1. DOMAIN l = 1 .. Len(l)
    BY <1>1, LenProperties
  <2> QED BY <2>1, <1>1, <1>2 DEF IsInjective
<1>8. e # <<>> /\ Head(e) = e[1]
  <2>1. e # <<>>
    BY <1>1, <1>2
  <2> QED BY <2>1, <1>1, HeadTailProperties
<1>9. ~q_broken(q)
  BY <1>3, <1>4 DEF q_broken
<1> QED
  BY <1>2, <1>3, <1>4, <1>6, <1>7, <1>8, <1>9 DEF l, e

LEMMA EmptyIs ==
  ASSUME NEW L, NEW F, Now(L, F), NEW q \in Queues, que[q].size = 0
  PROVE  Contents(data, L)[q] = <<>>
<1>1. /\ Len(L[q]) = 0 /\ Contents(data, L)[q] \in Seq(Data)
      /\ Len(Contents(data, L)[q]) = Len(L[q])
  BY QueueFacts
<1> QED
  BY <1>1, EmptySeq

PeekReply(e) == IF e = <<>> THEN <<"E_EMPTY_QUEUE", Nothing>>
                ELSE <<"E_SUCCESS", <<Head(e)>>>>

LEMMA PeekStep ==
  ASSUME NEW L, NEW F, Now(L, F), NEW q \in Queues, q_peek(q)
  PROVE  /\ Then(L, F)
         /\ reply' = PeekReply(Contents(data, L)[q])
         /\ Contents(data', L) = Contents(data, L)
<1>1. /\ reply' = IF que[q].size = 0 THEN <<"E_EMPTY_QUEUE", Nothing>>
                  ELSE IF q_broken(q) THEN Panic
                  ELSE <<"E_SUCCESS", <<data[que[q].head]>>>>
      /\ UNCHANGED <<next, data, free_qnodes, que>>
  BY Zenon DEF q_peek
<1>2. Then(L, F) /\ Contents(data', L) = Contents(data, L)
  BY <1>1, Unchanged
<1>3. CASE que[q].size = 0
  <2>1. Contents(data, L)[q] = <<>>
    BY <1>3, EmptyIs
  <2> QED BY <1>1, <1>2, <1>3, <2>1 DEF PeekReply
<1>4. CASE que[q].size # 0
  <2>1. /\ ~q_broken(q) /\ Contents(data, L)[q] # <<>>
        /\ Head(Contents(data, L)[q]) = data[que[q].head]
    BY <1>4, HeadIs
  <2> QED BY <1>1, <1>2, <1>4, <2>1 DEF PeekReply
<1> QED
  BY <1>3, <1>4

LEMMA DequeStep ==
  ASSUME NEW L, NEW F, Now(L, F), NEW q \in Queues, q_deque(q)
  PROVE  \E M, G :
           /\ Then(M, G)
           /\ reply' = PeekReply(Contents(data, L)[q])
           /\ \/ /\ Contents(data, L)[q] # <<>>
                 /\ Wrote(Contents(data, L), Contents(data', M), q,
                          RemoveAt(Contents(data, L)[q], 1))
                 /\ Len(G) = Len(F) + 1
              \/ /\ Contents(data, L)[q] = <<>>
                 /\ Contents(data', M) = Contents(data, L)
                 /\ Len(G) = Len(F)
<1>1. CASE que[q].size = 0
  <2>1. q_peek(q)
    BY <1>1, Zenon DEF q_deque
  <2>2. Contents(data, L)[q] = <<>>
    BY <1>1, EmptyIs
  <2> QED BY <2>1, <2>2, PeekStep
<1>2. CASE que[q].size # 0
  <2> DEFINE n == que[q].head
  <2>1. /\ 1 \in 1 .. Len(L[q]) /\ n = L[q][1] /\ ~q_broken(q)
        /\ next[n] = NULL <=> Len(L[q]) = 1
        /\ next[n] = NULL <=> que[q].tail = n
        /\ Contents(data, L)[q] # <<>> /\ Head(Contents(data, L)[q]) = data[n]
    BY <1>2, HeadIs
  <2>2. que[q].size = Len(L[q])
    BY QueueFacts, Zenon
  <2>3. ~(next[n] = NULL /\ que[q].size # 1)
    BY <2>1, <2>2
  <2>4. /\ que' = [que EXCEPT ![q].head = next[n],
                              ![q].tail = IF next[n] = NULL THEN NULL ELSE @,
                              ![q].size = @ - 1]
        /\ reply' = <<"E_SUCCESS", <<data[n]>>>>
        /\ qn_dealloc(next, n)
    BY <1>2, <2>1, <2>3, Zenon DEF q_deque
  <2>5. /\ data' = [data EXCEPT ![n] = NoData]
        /\ next' = [next EXCEPT ![n] = free_qnodes]
        /\ free_qnodes' = n
    BY <2>4, Zenon DEF qn_dealloc
  <2>6. que' = [que EXCEPT ![q].head = IF NULL = NULL THEN next[n] ELSE @,
                           ![q].tail = IF @ = n THEN NULL ELSE @,
                           ![q].size = @ - 1]
    <3>1. (IF que[q].tail = n THEN NULL ELSE que[q].tail)
            = (IF next[n] = NULL THEN NULL ELSE que[q].tail)
      BY <2>1
    <3> HIDE DEF n
    <3> QED BY <2>4, <3>1
  <2>7. Taken(next, data, free_qnodes, que, q, NULL, n, next', data', que')
    <3> HIDE DEF n
    <3> QED BY <2>5, <2>6, Zenon DEF Taken
  <2>8. PlaceOf(L[q], 1, NULL, n)
    BY <2>1 DEF PlaceOf, Before
  <2>9. Sound(next, data, free_qnodes, que, L, F)
    BY Zenon DEF Now
  <2> HIDE DEF n
  <2>10. PICK M, G : /\ Sound(next', data', n, que', M, G)
                     /\ Wrote(Contents(data, L), Contents(data', M), q,
                              RemoveAt(Contents(data, L)[q], 1))
                     /\ Len(G) = Len(F) + 1
    BY <2>1, <2>7, <2>8, <2>9, Removal
  <2>11. Then(M, G)
    BY <2>5, <2>10, Zenon DEF Then
  <2>12. reply' = PeekReply(Contents(data, L)[q])
    BY <2>1, <2>4 DEF PeekReply
  <2> QED BY <2>1, <2>10, <2>11, <2>12, Zenon
<1> QED
  BY <1>1, <1>2

LEMMA RemoveStep ==
  ASSUME NEW L, NEW F, Now(L, F), NEW q \in Queues, NEW d \in Data, q_remove(q, d)
  PROVE  \E M, G :
           /\ Then(M, G)
           /\ \/ /\ Contains(Contents(data, L)[q], d)
                 /\ reply' = <<"E_SUCCESS", Nothing>>
                 /\ Wrote(Contents(data, L), Contents(data', M), q,
                          RemoveFirst(Contents(data, L)[q], d))
                 /\ Len(G) = Len(F) + 1
              \/ /\ ~Contains(Contents(data, L)[q], d)
                 /\ reply' = <<"E_NO_PROCESS", Nothing>>
                 /\ Contents(data', M) = Contents(data, L)
                 /\ Len(G) = Len(F)
<1> DEFINE l == L[q]
           e == Contents(data, L)[q]
           past == {n \in Qnodes : data[n] # d}
           at == walk(past, que[q].head)
<1>1. /\ l \in Seq(Qnodes) /\ IsInjective(l) /\ Len(l) \in Nat
      /\ Links(next, que[q].head, l)
      /\ e \in Seq(Data) /\ Len(e) = Len(l)
      /\ \A i \in 1 .. Len(l) : e[i] = data[l[i]] /\ l[i] \in Qnodes /\ l[i] # NULL
  BY QueueFacts, Zenon
<1>2. \A n \in Qnodes : n \in past <=> data[n] # d
  OBVIOUS
<1>3. IF at.curr = NULL
      THEN /\ reply' = <<"E_NO_PROCESS", Nothing>>
           /\ UNCHANGED <<next, data, free_qnodes, que>>
      ELSE /\ que' = [que EXCEPT
                        ![q].head = IF at.prev = NULL THEN next[at.curr] ELSE @,
                        ![q].tail = IF @ = at.curr THEN at.prev ELSE @,
                        ![q].size = @ - 1]
           /\ reply' = <<"E_SUCCESS", Nothing>>
           /\ qn_dealloc(IF at.prev = NULL THEN next
                         ELSE [next EXCEPT ![at.prev] = next[at.curr]], at.curr)
  BY Zenon DEF q_remove
<1> HIDE DEF past, l, e
<1>4. PICK k \in 1 .. Len(l) + 1 :
        /\ \A j \in 1 .. k - 1 : l[j] \in past
        /\ k <= Len(l) => l[k] \notin past
        /\ GapOf(l, k, at.prev, at.curr)
  BY <1>1, WalkIs
<1> HIDE DEF at
<1>5. \A j \in 1 .. k - 1 : j \in 1 .. Len(l) /\ e[j] # d
  <2>1. \A j \in 1 .. k - 1 : j \in 1 .. Len(l)
    BY <1>1
  <2> QED BY <2>1, <1>1, <1>2, <1>4
<1>6. CASE k <= Len(l)
  <2>1. k \in 1 .. Len(l) /\ at.curr = l[k] /\ at.prev = Before(l, k)
    BY <1>1, <1>4, <1>6 DEF GapOf, At
  <2>2. l[k] # NULL /\ e[k] = d
    BY <2>1, <1>1, <1>2, <1>4, <1>6
  <2> DEFINE n == at.curr
             p == at.prev
  <2>3. /\ que' = [que EXCEPT ![q].head = IF p = NULL THEN next[n] ELSE @,
                              ![q].tail = IF @ = n THEN p ELSE @,
                              ![q].size = @ - 1]
        /\ reply' = <<"E_SUCCESS", Nothing>>
        /\ qn_dealloc(IF p = NULL THEN next ELSE [next EXCEPT ![p] = next[n]], n)
    BY <1>3, <2>1, <2>2, Zenon
  <2>4. PlaceOf(l, k, p, n)
    BY <2>1, Zenon DEF PlaceOf
  <2> HIDE DEF n, p
  <2>5. /\ data' = [data EXCEPT ![n] = NoData]
        /\ next' = [(IF p = NULL THEN next ELSE [next EXCEPT ![p] = next[n]])
                      EXCEPT ![n] = free_qnodes]
        /\ free_qnodes' = n
    BY <2>3, Zenon DEF qn_dealloc
  <2>6. Taken(next, data, free_qnodes, que, q, p, n, next', data', que')
    BY <2>3, <2>5, Zenon DEF Taken
  <2>7. Sound(next, data, free_qnodes, que, L, F)
    BY Zenon DEF Now
  <2>8. PICK M, G : /\ Sound(next', data', n, que', M, G)
                    /\ Wrote(Contents(data, L), Contents(data', M), q,
                             RemoveAt(Contents(data, L)[q], k))
                    /\ Len(G) = Len(F) + 1
    BY <2>1, <2>4, <2>6, <2>7, Removal DEF l
  <2>9. Then(M, G)
    BY <2>5, <2>8, Zenon DEF Then
  <2>10. Contains(e, d) /\ RemoveFirst(e, d) = RemoveAt(e, k)
    <3>1. k \in 1 .. Len(e) /\ \A j \in 1 .. k - 1 : e[j] # d
      BY <2>1, <1>1, <1>5
    <3>2. RemoveFirst(e, d) = RemoveAt(e, k)
      BY <3>1, <2>2, <1>1, RemoveFirstIsRemoveAt
    <3>3. Contains(e, d)
      BY <3>1, <2>2, <1>1 DEF Contains
    <3> QED BY <3>2, <3>3
  <2> QED BY <2>3, <2>8, <2>9, <2>10, Zenon DEF e
<1>7. CASE ~(k <= Len(l))
  <2>1. at.curr = NULL /\ k - 1 = Len(l)
    <3>1. k = Len(l) + 1
      BY <1>1, <1>7
    <3> QED BY <3>1, <1>1, <1>4, <1>7 DEF GapOf, At
  <2>2. reply' = <<"E_NO_PROCESS", Nothing>> /\ UNCHANGED <<next, data, free_qnodes, que>>
    BY <1>3, <2>1, Zenon
  <2>3. Then(L, F) /\ Contents(data', L) = Contents(data, L)
    BY <2>2, Unchanged
  <2>4. ~Contains(e, d)
    BY <1>1, <1>5, <2>1 DEF Contains
  <2> QED BY <2>2, <2>3, <2>4, Zenon DEF e
<1> QED
  BY <1>6, <1>7

-----------------------------------------------------------------------------
(* The theorems *)

\* _q_init leaves the qnodes on the free list, the last one first.
LEMMA InitLists ==
  ASSUME Init
  PROVE  LET F == [i \in 1 .. N_QNODES |-> N_QNODES + 1 - i]
             L == [q \in Queues |-> <<>>]
         IN  Now(L, F) /\ Len(F) = N_QNODES /\ Contents(data, L) = L
<1> DEFINE F == [i \in 1 .. N_QNODES |-> N_QNODES + 1 - i]
           L == [q \in Queues |-> <<>>]
<1>1. N_QNODES \in Nat /\ NULL \in Nodes /\ Qnodes \subseteq Nodes
  BY QueueAssumption DEF NULL, Nodes, Qnodes
<1>2. /\ next = [n \in Qnodes |-> n - 1]
      /\ data = [n \in Qnodes |-> NoData]
      /\ free_qnodes = N_QNODES
      /\ que = [q \in Queues |-> [head |-> NULL, tail |-> NULL, size |-> 0]]
  BY Zenon DEF Init
<1>3. F \in Seq(Qnodes) /\ Len(F) = N_QNODES
  <2>1. F \in [1 .. N_QNODES -> Qnodes]
    BY <1>1 DEF Qnodes
  <2> HIDE DEF F
  <2> QED BY <2>1, <1>1, FcnIsSeq
<1>4. \A i \in 1 .. N_QNODES : F[i] = N_QNODES + 1 - i
  OBVIOUS
<1>5. DOMAIN F = 1 .. N_QNODES
  OBVIOUS
<1>6. \A q \in Queues : L[q] = <<>> /\ L[q] \in Seq(Qnodes)
  BY EmptySeq
<1>7. L \in [Queues -> Seq(Qnodes)]
  BY EmptySeq
<1> HIDE DEF F, L
<1>8. Typed(next, data, free_qnodes, que, L, F)
  <2>1. next \in [Qnodes -> Nodes] /\ free_qnodes \in Nodes
    BY <1>1, <1>2 DEF Qnodes, Nodes
  <2>2. data \in [Qnodes -> Data \cup {NoData}]
    BY <1>2
  <2>3. que \in [Queues -> [head : Nodes, tail : Nodes, size : Nat]]
    BY <1>1, <1>2
  <2> QED BY <2>1, <2>2, <2>3, <1>3, <1>7, Zenon DEF Typed
<1>9. Links(next, free_qnodes, F)
  <2>1. free_qnodes = At(F, 1)
    <3>1. CASE N_QNODES = 0
      BY <3>1, <1>2, <1>3 DEF At, NULL
    <3>2. CASE N_QNODES # 0
      <4>1. 1 \in 1 .. N_QNODES /\ 1 <= Len(F) /\ N_QNODES + 1 - 1 = N_QNODES
        BY <3>2, <1>1, <1>3
      <4> QED BY <4>1, <1>2, <1>4 DEF At
    <3> QED BY <3>1, <3>2
  <2>2. ASSUME NEW i \in 1 .. Len(F) PROVE next[F[i]] = At(F, i + 1)
    <3>1. i \in 1 .. N_QNODES /\ F[i] = N_QNODES + 1 - i
      BY <1>3, <1>4
    <3>2. F[i] \in Qnodes /\ next[F[i]] = N_QNODES - i
      BY <3>1, <1>1, <1>2 DEF Qnodes
    <3>3. CASE i < N_QNODES
      <4>1. i + 1 \in 1 .. N_QNODES /\ i + 1 <= Len(F) /\ N_QNODES + 1 - (i + 1) = N_QNODES - i
        BY <3>1, <3>3, <1>1, <1>3
      <4>2. F[i + 1] = N_QNODES + 1 - (i + 1)
        BY <4>1, <1>4
      <4> QED BY <4>1, <4>2, <3>2 DEF At
    <3>4. CASE ~(i < N_QNODES)
      <4>1. ~(i + 1 <= Len(F)) /\ N_QNODES - i = 0
        BY <3>1, <3>4, <1>1, <1>3
      <4> QED BY <4>1, <3>2 DEF At, NULL
    <3> QED BY <3>3, <3>4
  <2> QED BY <2>1, <2>2, Zenon DEF Links
<1>10. Shaped(next, free_qnodes, que, L, F)
  <2>1. ASSUME NEW q \in Queues
        PROVE  /\ Links(next, que[q].head, L[q]) /\ que[q].tail = EndOf(L[q])
               /\ que[q].size = Len(L[q])
    <3>1. L[q] = <<>> /\ Len(L[q]) = 0
      BY <1>6, EmptySeq
    <3>2. que[q].head = NULL /\ que[q].tail = NULL /\ que[q].size = 0
      BY <1>2
    <3> QED BY <3>1, <3>2 DEF Links, At, EndOf
  <2> QED BY <2>1, <1>9, Zenon DEF Shaped
<1>11. \A q \in Queues : IsInjective(L[q]) /\ Range(L[q]) = {}
  BY <1>6 DEF IsInjective, Range
<1>12. Shared(L, F)
  <2>1. IsInjective(F)
    BY <1>1, <1>4, <1>5 DEF IsInjective
  <2>2. ASSUME NEW n \in Qnodes PROVE n \in Range(F)
    <3>1. N_QNODES + 1 - n \in 1 .. N_QNODES /\ N_QNODES + 1 - (N_QNODES + 1 - n) = n
      BY <1>1 DEF Qnodes
    <3>2. F[N_QNODES + 1 - n] = n
      BY <3>1, <1>4
    <3> QED BY <3>1, <3>2, <1>5 DEF Range
  <2>3. ASSUME NEW q \in Queues
        PROVE  /\ IsInjective(L[q]) /\ Range(L[q]) \cap Range(F) = {}
               /\ \A r \in Queues \ {q} : Range(L[q]) \cap Range(L[r]) = {}
    BY <1>11
  <2> QED BY <2>1, <2>2, <2>3, Zenon DEF Shared
<1>13. Filled(data, L)
  BY <1>11, Zenon DEF Filled
<1>14. Contents(data, L) = L
  <2>1. \A q \in Queues : Entries(data, L[q]) = <<>>
    BY <1>6 DEF Entries
  <2> QED BY <2>1 DEF Contents, L
<1> QED
  BY <1>3, <1>8, <1>10, <1>12, <1>13, <1>14, Zenon DEF Now, Sound, F, L

LEMMA StepLists ==
  ASSUME NEW L, NEW F, Now(L, F), [Next]_vars
  PROVE  \E M, G : Then(M, G)
<1>1. ASSUME NEW q \in Queues, NEW d \in Data, q_enque(q, d) PROVE \E M, G : Then(M, G)
  BY <1>1, EnqueStep
<1>2. ASSUME NEW q \in Queues, q_deque(q) PROVE \E M, G : Then(M, G)
  BY <1>2, DequeStep
<1>3. ASSUME NEW q \in Queues, NEW d \in Data, q_remove(q, d) PROVE \E M, G : Then(M, G)
  BY <1>3, RemoveStep
<1>4. ASSUME NEW q \in Queues, q_peek(q) PROVE \E M, G : Then(M, G)
  BY <1>4, PeekStep
<1>5. CASE UNCHANGED vars
  BY <1>5, Unchanged DEF vars
<1> QED
  BY <1>1, <1>2, <1>3, <1>4, <1>5, Zenon DEF Next

LEMMA InitIInv == Init => IInv
  BY InitLists, Zenon DEF IInv, Now

LEMMA StepIInv == IInv /\ [Next]_vars => IInv'
<1> SUFFICES ASSUME IInv, [Next]_vars PROVE IInv'
  OBVIOUS
<1>1. PICK L, F : Now(L, F)
  BY Zenon DEF IInv, Now
<1>2. PICK M, G : Then(M, G)
  BY <1>1, StepLists, Zenon
<1> QED
  BY <1>2, Zenon DEF IInv, Then

(***************************************************************************)
(* The lists of queue.c always share out the qnodes: none is lost, linked  *)
(* twice or on two lists, and head, tail and size of each queue describe   *)
(* its list.                                                               *)
(***************************************************************************)
THEOREM ListsWellLinked == Spec => []WellLinked
<1>1. Spec => []IInv
  BY InitIInv, StepIInv, PTL DEF Spec
<1> QED
  BY <1>1, IInvWellLinked, PTL

-----------------------------------------------------------------------------
(* The refinement *)

\* The contents and the room of QueueContents.
Held == [q \in Queues |-> LET l == List(q) IN [i \in DOMAIN l |-> data[l[i]]]]
Room == Len(FreeList)

LEMMA HeldNow ==
  ASSUME NEW L, NEW F, Now(L, F)
  PROVE  Held = Contents(data, L) /\ Room = Len(F)
<1>1. Sound(next, data, free_qnodes, que, L, F)
  BY Zenon DEF Now
<1>2. /\ [q \in Queues |-> LET l == Chain(next, que[q].head)
                           IN  [i \in DOMAIN l |-> data[l[i]]]] = Contents(data, L)
      /\ Len(Chain(next, free_qnodes)) = Len(F)
  BY <1>1, Computed
<1> QED
  BY <1>2, Zenon DEF Held, Room, List, FreeList

LEMMA HeldThen ==
  ASSUME NEW M, NEW G, Then(M, G)
  PROVE  Held' = Contents(data', M) /\ Room' = Len(G)
<1>1. Sound(next', data', free_qnodes', que', M, G)
  BY Zenon DEF Then
<1>2. /\ [q \in Queues |-> LET l == Chain(next', que'[q].head)
                           IN  [i \in DOMAIN l |-> data'[l[i]]]] = Contents(data', M)
      /\ Len(Chain(next', free_qnodes')) = Len(G)
  BY <1>1, Computed
<1> QED
  BY <1>2, Zenon DEF Held, Room, List, FreeList

LEMMA EnqueKeeps ==
  ASSUME NEW L, NEW F, Now(L, F), NEW q \in Queues, NEW d \in Data, q_enque(q, d)
  PROVE  Promise!Enque(q, d)
<1>1. Held = Contents(data, L) /\ Room = Len(F)
  BY HeldNow
<1>2. PICK M, G :
        /\ Then(M, G)
        /\ \/ /\ Len(F) > 0
              /\ reply' = <<"E_SUCCESS", Nothing>>
              /\ \E k : /\ k = IF q \in Sorted THEN Promise!Slot(Contents(data, L)[q], d)
                                ELSE Len(Contents(data, L)[q]) + 1
                        /\ Wrote(Contents(data, L), Contents(data', M), q,
                                 InsertAt(Contents(data, L)[q], k, d))
              /\ Len(G) = Len(F) - 1
           \/ /\ Len(F) = 0
              /\ reply' = <<"E_NO_QNODES", Nothing>>
              /\ Contents(data', M) = Contents(data, L)
              /\ Len(G) = Len(F)
  BY EnqueStep, Zenon
<1>3. Held' = Contents(data', M) /\ Room' = Len(G)
  BY <1>2, HeldThen
<1>4. CASE Len(F) > 0 /\ Len(G) = Len(F) - 1 /\ reply' = <<"E_SUCCESS", Nothing>>
  <2>1. CASE \E k : /\ k = IF q \in Sorted THEN Promise!Slot(Contents(data, L)[q], d)
                            ELSE Len(Contents(data, L)[q]) + 1
                    /\ Wrote(Contents(data, L), Contents(data', M), q,
                             InsertAt(Contents(data, L)[q], k, d))
    <3>1. PICK k : /\ k = IF q \in Sorted THEN Promise!Slot(Held[q], d) ELSE Len(Held[q]) + 1
                   /\ Held' = [Held EXCEPT ![q] = InsertAt(Held[q], k, d)]
      BY <2>1, <1>1, <1>3, Zenon DEF Wrote
    <3>2. k = Promise!Place(q, d)
      BY <3>1, Zenon DEF Promise!Place, Held
    <3>3. \A s : InsertAt(s, k, d) = Promise!InsertAt(s, k, d)
      BY Zenon DEF InsertAt, Promise!InsertAt
    <3>4. Held' = [Held EXCEPT ![q] = Promise!InsertAt(@, Promise!Place(q, d), d)]
      BY <3>1, <3>2, <3>3, Zenon
    <3>5. Room > 0 /\ Room' = Room - 1
      BY <1>1, <1>3, <1>4
    <3> QED BY <3>4, <3>5, <1>4, Zenon DEF Promise!Enque, Held, Room, Nothing, Promise!Nothing
  <2> QED BY <2>1, <1>2, <1>4
<1>5. CASE /\ Len(F) = 0 /\ reply' = <<"E_NO_QNODES", Nothing>>
           /\ Contents(data', M) = Contents(data, L) /\ Len(G) = Len(F)
  <2>1. Held' = Held /\ Room = 0 /\ Room' = Room
    BY <1>1, <1>3, <1>5
  <2> QED BY <2>1, <1>5, Zenon DEF Promise!Enque, Held, Room, Nothing, Promise!Nothing
<1> QED
  BY <1>2, <1>4, <1>5

\* Taking the first entry out leaves the tail.
LEMMA FirstOut ==
  ASSUME NEW e \in Seq(Data), e # <<>>
  PROVE  RemoveAt(e, 1) = Tail(e)
<1>1. Len(e) \in Nat /\ 1 \in 1 .. Len(e)
  BY EmptySeq, LenProperties
<1> DEFINE a == RemoveAt(e, 1)
<1>2. /\ a \in Seq(Data) /\ Len(a) = Len(e) - 1
      /\ \A i \in 1 .. Len(e) - 1 : a[i] = IF i < 1 THEN e[i] ELSE e[i + 1]
  BY <1>1, RemoveAtEntries
<1>3. /\ Tail(e) \in Seq(Data) /\ Len(Tail(e)) = Len(e) - 1
      /\ \A i \in 1 .. Len(e) - 1 : Tail(e)[i] = e[i + 1]
  BY <1>1, HeadTailProperties
<1> HIDE DEF a
<1>4. \A i \in 1 .. Len(a) : a[i] = Tail(e)[i]
  <2> SUFFICES ASSUME NEW i \in 1 .. Len(a) PROVE a[i] = Tail(e)[i]
    OBVIOUS
  <2>1. i \in 1 .. Len(e) - 1 /\ ~(i < 1)
    BY <1>1, <1>2
  <2> QED BY <2>1, <1>2, <1>3
<1> QED
  BY <1>2, <1>3, <1>4, SeqEqual DEF a

LEMMA DequeKeeps ==
  ASSUME NEW L, NEW F, Now(L, F), NEW q \in Queues, q_deque(q)
  PROVE  Promise!Deque(q)
<1>1. Held = Contents(data, L) /\ Room = Len(F)
  BY HeldNow
<1>2. PICK M, G :
        /\ Then(M, G)
        /\ reply' = PeekReply(Contents(data, L)[q])
        /\ \/ /\ Contents(data, L)[q] # <<>>
              /\ Wrote(Contents(data, L), Contents(data', M), q,
                       RemoveAt(Contents(data, L)[q], 1))
              /\ Len(G) = Len(F) + 1
           \/ /\ Contents(data, L)[q] = <<>>
              /\ Contents(data', M) = Contents(data, L)
              /\ Len(G) = Len(F)
  BY DequeStep, Zenon
<1>3. Held' = Contents(data', M) /\ Room' = Len(G)
  BY <1>2, HeldThen
<1>4. CASE Held[q] # <<>>
  <2>1. /\ Wrote(Held, Held', q, RemoveAt(Held[q], 1))
        /\ Room' = Room + 1 /\ reply' = PeekReply(Held[q])
    BY <1>1, <1>2, <1>3, <1>4, Zenon
  <2>2. RemoveAt(Held[q], 1) = Tail(Held[q])
    <3>1. Contents(data, L)[q] \in Seq(Data)
      BY QueueFacts, Zenon
    <3> QED BY <3>1, <1>1, <1>4, FirstOut, Zenon
  <2>3. Held' = [Held EXCEPT ![q] = Tail(@)]
    BY <2>1, <2>2, Zenon DEF Wrote
  <2>4. reply' = <<"E_SUCCESS", <<Head(Held[q])>>>>
    BY <2>1, <1>4, Zenon DEF PeekReply
  <2> QED BY <2>1, <2>3, <2>4, <1>4, Zenon DEF Promise!Deque, Held, Room
<1>5. CASE Held[q] = <<>>
  <2>1. Held' = Held /\ Room' = Room /\ reply' = PeekReply(Held[q])
    BY <1>1, <1>2, <1>3, <1>5, Zenon
  <2>2. reply' = <<"E_EMPTY_QUEUE", Nothing>>
    BY <2>1, <1>5, Zenon DEF PeekReply
  <2> QED BY <2>1, <2>2, <1>5, Zenon DEF Promise!Deque, Held, Room, Nothing, Promise!Nothing
<1> QED
  BY <1>4, <1>5

LEMMA RemoveKeeps ==
  ASSUME NEW L, NEW F, Now(L, F), NEW q \in Queues, NEW d \in Data, q_remove(q, d)
  PROVE  Promise!Remove_(q, d)
<1>1. Held = Contents(data, L) /\ Room = Len(F)
  BY HeldNow
<1>2. PICK M, G :
        /\ Then(M, G)
        /\ \/ /\ Contains(Contents(data, L)[q], d)
              /\ reply' = <<"E_SUCCESS", Nothing>>
              /\ Wrote(Contents(data, L), Contents(data', M), q,
                       RemoveFirst(Contents(data, L)[q], d))
              /\ Len(G) = Len(F) + 1
           \/ /\ ~Contains(Contents(data, L)[q], d)
              /\ reply' = <<"E_NO_PROCESS", Nothing>>
              /\ Contents(data', M) = Contents(data, L)
              /\ Len(G) = Len(F)
  BY RemoveStep, Zenon
<1>3. Held' = Contents(data', M) /\ Room' = Len(G)
  BY <1>2, HeldThen
<1>4. \A s : Contains(s, d) <=> Promise!Contains(s, d)
  BY Zenon DEF Contains, Promise!Contains
<1>5. \A s : RemoveFirst(s, d) = Promise!RemoveFirst(s, d)
  BY Zenon DEF RemoveFirst, Promise!RemoveFirst, RemoveAt, Promise!RemoveAt,
     SelectInSeq, Promise!SelectInSeq, Min, Promise!Min
<1>6. CASE Contains(Held[q], d)
  <2>1. /\ Wrote(Held, Held', q, RemoveFirst(Held[q], d))
        /\ Room' = Room + 1 /\ reply' = <<"E_SUCCESS", Nothing>>
    BY <1>1, <1>2, <1>3, <1>6, Zenon
  <2>2. Held' = [Held EXCEPT ![q] = Promise!RemoveFirst(@, d)] /\ Promise!Contains(Held[q], d)
    BY <2>1, <1>4, <1>5, <1>6, Zenon DEF Wrote
  <2> QED BY <2>1, <2>2, Zenon DEF Promise!Remove_, Held, Room, Nothing, Promise!Nothing
<1>7. CASE ~Contains(Held[q], d)
  <2>1. Held' = Held /\ Room' = Room /\ reply' = <<"E_NO_PROCESS", Nothing>>
    BY <1>1, <1>2, <1>3, <1>7, Zenon
  <2>2. ~Promise!Contains(Held[q], d)
    BY <1>4, <1>7, Zenon
  <2> QED BY <2>1, <2>2, Zenon DEF Promise!Remove_, Held, Room, Nothing, Promise!Nothing
<1> QED
  BY <1>6, <1>7

LEMMA PeekKeeps ==
  ASSUME NEW L, NEW F, Now(L, F), NEW q \in Queues, q_peek(q)
  PROVE  Promise!Peek(q)
<1>1. Held = Contents(data, L) /\ Room = Len(F)
  BY HeldNow
<1>2. /\ Then(L, F) /\ reply' = PeekReply(Contents(data, L)[q])
      /\ Contents(data', L) = Contents(data, L)
  BY PeekStep
<1>3. Held' = Contents(data', L) /\ Room' = Len(F)
  BY <1>2, HeldThen
<1>4. Held' = Held /\ Room' = Room /\ reply' = PeekReply(Held[q])
  BY <1>1, <1>2, <1>3, Zenon
<1> QED
  BY <1>4, Zenon DEF Promise!Peek, PeekReply, Held, Room, Nothing, Promise!Nothing

LEMMA InitKeeps == Init => Promise!Init
<1> SUFFICES ASSUME Init PROVE Promise!Init
  OBVIOUS
<1>1. PICK L, F : /\ Now(L, F) /\ Len(F) = N_QNODES
                  /\ Contents(data, L) = [q \in Queues |-> <<>>]
  BY InitLists, Zenon
<1>2. Held = [q \in Queues |-> <<>>] /\ Room = N_QNODES
  BY <1>1, HeldNow, Zenon
<1>3. reply = <<"E_SUCCESS", Nothing>>
  BY Zenon DEF Init
<1> QED
  BY <1>2, <1>3, Zenon DEF Promise!Init, Held, Room, Nothing, Promise!Nothing

LEMMA StepKeeps == IInv /\ [Next]_vars => [Promise!Next]_(Promise!vars)
<1> SUFFICES ASSUME IInv, [Next]_vars PROVE Promise!Next \/ UNCHANGED Promise!vars
  BY Zenon
<1>1. PICK L, F : Now(L, F)
  BY Zenon DEF IInv, Now
<1>2. ASSUME NEW q \in Queues, NEW d \in Data, q_enque(q, d) PROVE Promise!Next
  <2>1. Promise!Enque(q, d)
    BY <1>1, <1>2, EnqueKeeps
  <2> QED BY <2>1, Zenon DEF Promise!Next
<1>3. ASSUME NEW q \in Queues, q_deque(q) PROVE Promise!Next
  <2>1. Promise!Deque(q)
    BY <1>1, <1>3, DequeKeeps
  <2> QED BY <2>1, Zenon DEF Promise!Next
<1>4. ASSUME NEW q \in Queues, NEW d \in Data, q_remove(q, d) PROVE Promise!Next
  <2>1. Promise!Remove_(q, d)
    BY <1>1, <1>4, RemoveKeeps
  <2> QED BY <2>1, Zenon DEF Promise!Next
<1>5. ASSUME NEW q \in Queues, q_peek(q) PROVE Promise!Next
  <2>1. Promise!Peek(q)
    BY <1>1, <1>5, PeekKeeps
  <2> QED BY <2>1, Zenon DEF Promise!Next
<1>6. CASE UNCHANGED vars
  <2>1. Then(L, F) /\ Contents(data', L) = Contents(data, L) /\ reply' = reply
    BY <1>1, <1>6, Unchanged DEF vars
  <2>2. Held' = Held /\ Room' = Room
    <3>1. Held = Contents(data, L) /\ Room = Len(F)
      BY <1>1, HeldNow
    <3>2. Held' = Contents(data', L) /\ Room' = Len(F)
      BY <2>1, HeldThen
    <3> QED BY <2>1, <3>1, <3>2, Zenon
  <2>3. UNCHANGED Promise!vars
    BY <2>1, <2>2, Zenon DEF Promise!vars, Held, Room
  <2> QED BY <2>3
<1> QED
  BY <1>2, <1>3, <1>4, <1>5, <1>6, Zenon DEF Next

(***************************************************************************)
(* Each call of queue.c does to the entries of the queues what             *)
(* QueueContents says: sorted queues keep the order of arrival among equal *)
(* keys, a removal takes the first entry that is d, and no consistency     *)
(* check ends in _kpanic.                                                  *)
(***************************************************************************)
THEOREM QueueKeepsPromise == Spec => KeepsPromise
<1>1. Spec => []IInv
  BY InitIInv, StepIInv, PTL DEF Spec
<1>2. Spec => Promise!Spec
  BY <1>1, InitKeeps, StepKeeps, PTL DEF Spec, Promise!Spec
<1> QED
  BY <1>2 DEF KeepsPromise
=============================================================================
