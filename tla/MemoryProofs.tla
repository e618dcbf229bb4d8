---------------------------- MODULE MemoryProofs ----------------------------
(***************************************************************************)
(* Proofs about Memory, for any table, any set of processes and any        *)
(* arguments of mmap.                                                      *)
(*                                                                         *)
(* Until two uses of the table overlap, what a process has read of the     *)
(* table inside malloc or free is still there: the page it is about to     *)
(* mark is free, the byte it is about to write back is the one in the      *)
(* table, and the bytes it has searched are full.                          *)
(*                                                                         *)
(* Until then, too, every page has one role, which it keeps: a table that  *)
(* maps 1:1, a directory, a table of one entry of one directory, or a      *)
(* frame.  mmap with plain ranges writes only to the tables of its own     *)
(* directory, and malloc wipes no table.                                   *)
(***************************************************************************)
EXTENDS Memory, SeqLemmas

Places == {"none", "scan", "load", "store", "return", "free"}

\* the globals that are the books of the pages, in a record as State
Books(m) ==
  /\ DOMAIN m = {"pat", "last", "mem", "grants", "got", "panic"}
  /\ m.pat \in [Bytes -> SUBSET Bits] /\ m.last \in Bytes
  /\ m.grants \in [Pages -> Int] /\ m.panic \in BOOLEAN

\* page is marked in table pat
MarkedIn(pat, page) == bit(page) \in pat[index(page)]

Owned(pat, given) ==
  \A page \in Pages : /\ given[page] \in {0, 1}
                      /\ given[page] = 1 \/ page \in Unusable => MarkedIn(pat, page)

Full(pat) == \A i \in Bytes : pat[i] = Bits

\* n is m after some calls of get_next_page
Grown(m, n) ==
  /\ Books(n)
  /\ Owned(m.pat, m.grants) => Owned(n.pat, n.grants)
  /\ \A page \in Pages : MarkedIn(m.pat, page) => /\ MarkedIn(n.pat, page)
                                                  /\ n.grants[page] = m.grants[page]
  /\ Full(m.pat) => Full(n.pat)
  /\ m.panic => n.panic
  /\ n.panic => m.panic \/ Full(n.pat)

Calling == [at : Places, index : Bytes, page : Pages, byte : SUBSET Bits]

Typed ==
  /\ page_availibility_table \in [Bytes -> SUBSET Bits] /\ last_availible \in Bytes
  /\ grants \in [Pages -> Int] /\ panic \in BOOLEAN
  /\ call \in [Procs -> Calling]
  /\ held \in [Procs -> SUBSET Pages]
  /\ overlap \in BOOLEAN

HeldOnce ==
  /\ \A p \in Procs : \A page \in held[p] : grants[page] = 1 /\ page \notin Unusable
  /\ \A p, q \in Procs : p # q => held[p] \cap held[q] = {}

\* the bytes from last_availible up to i are full
Scanned(i) ==
  \E d \in 0 .. PAT_SIZE - 1 :
     /\ i = (last_availible + d) % PAT_SIZE
     /\ \A j \in 0 .. d - 1 : page_availibility_table[(last_availible + j) % PAT_SIZE] = Bits

\* what a process inside call c has seen
Seen(c) ==
  /\ c.at = "scan" => Scanned(c.index)
  /\ c.at \in {"load", "store", "return", "free"} => c.index = index(c.page)
  /\ c.at \in {"load", "store"} => ~Marked(c.page)
  /\ c.at \in {"store", "free"} => c.byte = page_availibility_table[c.index]
  /\ c.at \in {"return", "free"} => /\ Marked(c.page) /\ grants[c.page] = 0
                                    /\ c.page \notin Unusable

Safe == Owned(page_availibility_table, grants) /\ HeldOnce /\ \A p \in Procs : Seen(call[p])

IInv == Typed /\ (~overlap => Safe)

-----------------------------------------------------------------------------
(* Lemmas *)

\* The constants, as the provers need them.
LEMMA Constants ==
  /\ PAT_SIZE \in Nat /\ PAT_SIZE >= 1 /\ BITS \in Nat /\ BITS >= 1
  /\ KB \in Nat /\ KB >= 1 /\ PAGE_SIZE \in Nat /\ PAGE_SIZE >= 1
  /\ NULL \in Unusable /\ Unusable \subseteq Pages
<1>1. {PAT_SIZE, BITS, KB, PAGE_SIZE} \subseteq Nat \ {0}
  BY MemoryAssumption
<1>2. NULL \in Unusable /\ Unusable \subseteq Pages
  BY MemoryAssumption
<1> QED BY <1>1, <1>2

\* Quotient and remainder.
LEMMA DivMod ==
  ASSUME NEW B \in Nat, B >= 1, NEW a \in Nat
  PROVE  \E q \in Nat, r \in 0 .. B - 1 : a = q * B + r /\ q = a \div B /\ r = a % B
<1>1. PICK q \in Nat : q = a \div B
  OBVIOUS
<1>2. PICK r \in 0 .. B - 1 : r = a % B
  OBVIOUS
<1>3. a = q * B + r
  <2>1. q * B <= a /\ a < q * B + B
    BY <1>1
  <2>2. PICK s \in 0 .. B - 1 : a = q * B + s
    <3>1. a - q * B \in 0 .. B - 1
      BY <2>1
    <3> QED BY <3>1
  <2>3. s = r
    BY <1>2, <2>2
  <2> QED BY <2>2, <2>3
<1> QED BY <1>1, <1>2, <1>3

\* A page has a byte and a bit of its own.
LEMMA PageIs ==
  ASSUME NEW page \in Pages
  PROVE  index(page) \in Bytes /\ bit(page) \in Bits /\ page = index(page) * BITS + bit(page)
<1>1. PICK n \in Nat, B \in Nat : n = PAT_SIZE /\ B = BITS /\ n >= 1 /\ B >= 1
  BY Constants
<1>2. page \in Nat /\ page < n * B
  BY <1>1 DEF Pages
<1>3. PICK q \in Nat, r \in 0 .. B - 1 :
        page = q * B + r /\ q = page \div B /\ r = page % B
  BY <1>1, <1>2, DivMod
<1>4. q < n
  BY <1>1, <1>2, <1>3
<1>5. q \in 0 .. n - 1
  BY <1>4
<1> QED BY <1>1, <1>3, <1>5 DEF index, bit, Bytes, Bits

\* A byte and a bit have a page.
LEMMA PageOf ==
  ASSUME NEW i \in Bytes, NEW b \in Bits
  PROVE  i * BITS + b \in Pages /\ index(i * BITS + b) = i /\ bit(i * BITS + b) = b
<1>1. PICK n \in Nat, B \in Nat : n = PAT_SIZE /\ B = BITS /\ n >= 1 /\ B >= 1
  BY Constants
<1>2. i \in 0 .. n - 1 /\ b \in 0 .. B - 1
  BY <1>1 DEF Bytes, Bits
<1>3. (i * B + b) \div B = i /\ (i * B + b) % B = b
  BY <1>1, <1>2
<1>4. i * B + b \in 0 .. n * B - 1
  <2>1. PICK d \in Nat : n = i + d /\ d >= 1
    <3>1. n - i \in Nat /\ n - i >= 1 /\ n = i + (n - i)
      BY <1>2
    <3> QED BY <3>1
  <2>2. n * B = i * B + d * B
    BY <1>2, <2>1
  <2>3. d * B >= B
    BY <1>1, <2>1
  <2>4. i * B \in Nat
    BY <1>2
  <2> QED BY <1>2, <2>2, <2>3, <2>4
<1> QED BY <1>1, <1>3, <1>4 DEF index, bit, Pages

\* The search goes through the whole table, and stays in it.
LEMMA Around ==
  ASSUME NEW l \in Bytes
  PROVE  /\ \A i \in Bytes : (l + i) % PAT_SIZE \in Bytes
         /\ \A x \in Bytes : \E i \in Bytes : x = (l + i) % PAT_SIZE
         /\ \A i \in Bytes : (l + i + 1) % PAT_SIZE = (((l + i) % PAT_SIZE) + 1) % PAT_SIZE
         /\ \A i \in Bytes : (l + i + 1) % PAT_SIZE = l => i = PAT_SIZE - 1
         /\ (l + 0) % PAT_SIZE = l
<1>1. PICK n \in Nat : n = PAT_SIZE /\ n >= 1 /\ Bytes = 0 .. n - 1
  BY Constants DEF Bytes
<1>2. \A a \in Nat : a < n => a % n = a
  BY <1>1
<1>3. \A a \in Nat : n <= a /\ a < n + n => a % n = a - n
  BY <1>1
<1>4. ASSUME NEW i \in Bytes PROVE (l + i) % n \in Bytes
  BY <1>1, <1>2, <1>3
<1>5. ASSUME NEW x \in Bytes PROVE \E i \in Bytes : x = (l + i) % n
  <2>1. CASE l <= x
    <3>1. x - l \in Bytes /\ l + (x - l) = x
      BY <1>1, <2>1
    <3>2. x % n = x
      BY <1>1
    <3> QED BY <3>1, <3>2
  <2>2. CASE x < l
    <3>1. x - l + n \in Bytes /\ l + (x - l + n) = x + n
      BY <1>1, <2>2
    <3>2. (x + n) % n = x
      <4>1. x + n \in Nat /\ n <= x + n /\ x + n < n + n /\ x + n - n = x
        BY <1>1
      <4> QED BY <1>1, <4>1
    <3> QED BY <3>1, <3>2
  <2> QED BY <1>1, <2>1, <2>2
<1>6. ASSUME NEW i \in Bytes
      PROVE  /\ (l + i + 1) % n = (((l + i) % n) + 1) % n
             /\ (l + i + 1) % n = l => i = n - 1
  <2>1. CASE l + i + 1 < n
    BY <1>1, <1>2, <2>1
  <2>2. CASE l + i + 1 = n
    <3>1. (l + i + 1) % n = 0 /\ (l + i) % n = n - 1 /\ n % n = 0
      BY <1>1, <1>2, <1>3, <2>2
    <3>2. (n - 1) + 1 = n
      BY <1>1
    <3> QED BY <1>1, <2>2, <3>1, <3>2
  <2>3. CASE l + i + 1 > n
    <3>1. (l + i) % n = l + i - n /\ l + i - n \in Nat /\ l + i + 1 - n \in Nat
      BY <1>1, <1>3, <2>3
    <3>2. (l + i + 1) % n = l + i + 1 - n
      BY <1>1, <1>3, <2>3
    <3>3. (l + i - n + 1) % n = l + i - n + 1
      <4>1. l + i - n + 1 \in Nat /\ l + i - n + 1 < n
        BY <1>1, <3>1
      <4> QED BY <1>2, <4>1
    <3> QED BY <1>1, <3>1, <3>2, <3>3
  <2> QED BY <1>1, <2>1, <2>2, <2>3
<1>7. (l + 0) % n = l
  BY <1>1, <1>2
<1> QED BY <1>1, <1>4, <1>5, <1>6, <1>7

\* The first of a set of numbers.
LEMMA MinIs ==
  ASSUME NEW S, S \subseteq Nat, S # {}
  PROVE  Min(S) \in S /\ \A y \in S : Min(S) <= y
<1>1. \E x \in S : \A y \in S : x <= y
  BY LeastNat
<1> QED BY <1>1, Zenon DEF Min

\* Nothing but the contents of pages, or the page returned, has changed.
LEMMA GrownSame ==
  ASSUME NEW m, NEW n, Books(m), Books(n), n.pat = m.pat, n.grants = m.grants,
         n.panic = m.panic
  PROVE  Grown(m, n)
BY DEF Grown

\* One growth after another.
LEMMA GrownTwice ==
  ASSUME NEW m, NEW n, NEW o, Grown(m, n), Grown(n, o)
  PROVE  Grown(m, o)
BY DEF Grown

\* A page is marked that was not, or there is none.
LEMMA GetNextOK ==
  ASSUME NEW m, Books(m)
  PROVE  Grown(m, get_next_page(m))
<1> DEFINE at == (m.last + Min(open(m))) % PAT_SIZE
           b == Min(Bits \ m.pat[at])
           page == at * BITS + b
           n1 == [m EXCEPT !.panic = TRUE]
           n2 == grant(m, at, page)
<1>1. get_next_page(m) = IF m.panic \/ open(m) = {} THEN n1 ELSE n2
  BY DEF get_next_page, first_free
<1>2. /\ m.pat \in [Bytes -> SUBSET Bits] /\ m.last \in Bytes
      /\ m.grants \in [Pages -> Int] /\ m.panic \in BOOLEAN
      /\ DOMAIN m = {"pat", "last", "mem", "grants", "got", "panic"}
  BY DEF Books
<1>3. CASE m.panic \/ open(m) = {}
  <2>1. Books(n1) /\ n1.pat = m.pat /\ n1.grants = m.grants /\ n1.panic = TRUE
    BY <1>2 DEF Books
  <2>2. open(m) = {} => Full(m.pat)
    <3> SUFFICES ASSUME open(m) = {}, NEW x \in Bytes PROVE m.pat[x] = Bits
      BY DEF Full
    <3>1. PICK i \in Bytes : x = (m.last + i) % PAT_SIZE
      BY <1>2, Around
    <3> QED BY <3>1 DEF open
  <2> HIDE DEF n1
  <2>3. Grown(m, n1)
    BY <1>2, <1>3, <2>1, <2>2 DEF Grown
  <2> QED BY <1>1, <1>3, <2>3
<1>4. CASE ~(m.panic \/ open(m) = {})
  <2>1. at \in Bytes /\ m.pat[at] # Bits
    <3>1. open(m) \subseteq Nat /\ open(m) # {}
      BY <1>4, Constants DEF Bytes, open
    <3>2. Min(open(m)) \in open(m)
      BY <3>1, MinIs
    <3>3. Min(open(m)) \in Bytes /\ m.pat[(m.last + Min(open(m))) % PAT_SIZE] # Bits
      BY <3>2 DEF open
    <3> QED BY <1>2, <3>3, Around
  <2> HIDE DEF at
  <2>2. b \in Bits /\ b \notin m.pat[at]
    <3> DEFINE S == Bits \ m.pat[at]
    <3>1. S \subseteq Nat /\ S # {}
      <4>1. m.pat[at] \subseteq Bits
        BY <1>2, <2>1
      <4>2. Bits \subseteq Nat
        BY Constants DEF Bits
      <4> QED BY <2>1, <4>1, <4>2
    <3>2. Min(S) \in S
      <4> HIDE DEF S
      <4> QED BY <3>1, MinIs
    <3> QED BY <3>2
  <2> HIDE DEF b
  <2>3. page \in Pages /\ index(page) = at /\ bit(page) = b
    BY <2>1, <2>2, PageOf
  <2> HIDE DEF page
  <2>4. PICK pat, given : /\ pat = [m.pat EXCEPT ![at] = @ \cup {b}]
                          /\ given = [m.grants EXCEPT ![page] = @ + 1]
    OBVIOUS
  <2>5. /\ Books(n2) /\ n2.pat = pat /\ n2.grants = given /\ n2.panic = m.panic
    <3>1. pat \in [Bytes -> SUBSET Bits]
      BY <1>2, <2>1, <2>2, <2>4
    <3>2. given \in [Pages -> Int]
      BY <1>2, <2>3, <2>4
    <3>3. /\ n2.pat = pat /\ n2.grants = given /\ n2.panic = m.panic /\ n2.last = at
          /\ DOMAIN n2 = {"pat", "last", "mem", "grants", "got", "panic"}
      BY <1>2, <2>3, <2>4 DEF grant
    <3> HIDE DEF n2
    <3> QED BY <1>2, <2>1, <3>1, <3>2, <3>3 DEF Books
  <2> HIDE DEF n2
  <2>6. ASSUME NEW x \in Pages, x # page
        PROVE  given[x] = m.grants[x] /\ (MarkedIn(m.pat, x) => MarkedIn(pat, x))
    <3>1. index(x) \in Bytes
      BY PageIs
    <3> QED BY <1>2, <2>1, <2>3, <2>4, <2>6, <3>1 DEF MarkedIn
  <2>7. /\ ~MarkedIn(m.pat, page) /\ MarkedIn(pat, page)
        /\ given[page] = m.grants[page] + 1
    BY <1>2, <2>1, <2>2, <2>3, <2>4 DEF MarkedIn
  <2>8. Owned(m.pat, m.grants) => Owned(pat, given)
    BY <2>3, <2>6, <2>7 DEF Owned
  <2>9. Grown(m, n2)
    BY <1>4, <2>1, <2>5, <2>6, <2>7, <2>8 DEF Grown, Full
  <2> QED BY <1>1, <1>4, <2>9
<1> QED BY <1>3, <1>4

\* A new directory is a new page.
LEMMA NewDirectoryOK ==
  ASSUME NEW m, Books(m)
  PROVE  Grown(m, new_page_directory(m))
<1> DEFINE d == get_next_page(m)
           n == [d EXCEPT !.mem[d.got][0] = page_table]
<1>1. Grown(m, d) /\ Books(d)
  BY GetNextOK DEF Grown
<1>2. new_page_directory(m) = IF d.panic THEN d ELSE n
  BY DEF new_page_directory
<1> HIDE DEF d
<1>3. Books(n) /\ n.pat = d.pat /\ n.grants = d.grants /\ n.panic = d.panic
  BY <1>1 DEF Books
<1> HIDE DEF n
<1>4. Grown(d, n)
  BY <1>1, <1>3, GrownSame
<1> QED BY <1>1, <1>2, <1>4, GrownTwice

\* So is a table of the initial directory.
LEMMA AddTableOK ==
  ASSUME NEW m, NEW dir, NEW e, Books(m)
  PROVE  Grown(m, add_table(m, dir, e))
<1> DEFINE t == get_next_page(m)
           n == [t EXCEPT !.mem[dir][e] = t.got, !.mem[t.got] = [f \in Entries |-> e * KB + f]]
<1>1. Grown(m, t) /\ Books(t)
  BY GetNextOK DEF Grown
<1>2. add_table(m, dir, e) = n
  BY DEF add_table
<1> HIDE DEF t
<1>3. Books(n) /\ n.pat = t.pat /\ n.grants = t.grants /\ n.panic = t.panic
  BY <1>1 DEF Books
<1> HIDE DEF n
<1>4. Grown(t, n)
  BY <1>1, <1>3, GrownSame
<1> QED BY <1>1, <1>2, <1>4, GrownTwice

\* A round of _k_mmap takes up to two new pages.
LEMMA MapPageOK ==
  ASSUME NEW m, NEW dir, NEW v, NEW p, Books(m)
  PROVE  Grown(m, map_page(m, dir, v, p))
<1> DEFINE t == get_next_page(m)
           t1 == [t EXCEPT !.mem[dir][pde_index(v)] = t.got]
           d == IF m.mem[dir][pde_index(v)] # NULL THEN m ELSE IF t.panic THEN t ELSE t1
           u == get_next_page(d)
           d1 == [d EXCEPT !.got = p]
           f == IF p = NULL THEN u ELSE d1
           f1 == [f EXCEPT !.mem[f.mem[dir][pde_index(v)]][pte_index(v)] = f.got]
<1>1. map_page(m, dir, v, p) = IF f.panic THEN f ELSE f1
  BY DEF map_page
<1>2. Grown(m, t) /\ Books(t)
  BY GetNextOK DEF Grown
<1> HIDE DEF t
<1>3. Books(t1) /\ Grown(t, t1)
  <2>1. Books(t1) /\ t1.pat = t.pat /\ t1.grants = t.grants /\ t1.panic = t.panic
    BY <1>2 DEF Books
  <2> HIDE DEF t1
  <2> QED BY <1>2, <2>1, GrownSame
<1> HIDE DEF t1
<1>4. Grown(m, d) /\ Books(d)
  <2>1. Grown(m, m) /\ Grown(m, t1)
    BY <1>2, <1>3, GrownSame, GrownTwice
  <2> QED BY <1>2, <1>3, <2>1
<1> HIDE DEF d
<1>5. Grown(d, u) /\ Books(u)
  BY <1>4, GetNextOK DEF Grown
<1>6. Grown(d, d1) /\ Books(d1)
  <2>1. Books(d1) /\ d1.pat = d.pat /\ d1.grants = d.grants /\ d1.panic = d.panic
    BY <1>4 DEF Books
  <2> HIDE DEF d1
  <2> QED BY <1>4, <2>1, GrownSame
<1> HIDE DEF u, d1
<1>7. Grown(d, f) /\ Books(f)
  BY <1>5, <1>6
<1> HIDE DEF f
<1>8. Grown(f, f1)
  <2>1. Books(f1) /\ f1.pat = f.pat /\ f1.grants = f.grants /\ f1.panic = f.panic
    BY <1>7 DEF Books
  <2> HIDE DEF f1
  <2> QED BY <1>7, <2>1, GrownSame
<1> HIDE DEF f1
<1> QED BY <1>1, <1>4, <1>7, <1>8, GrownTwice

\* The same, of a round.
LEMMA MapRoundOK ==
  ASSUME NEW m, NEW dir, NEW a, NEW i, Books(m)
  PROVE  Grown(m, map_round(m, dir, a, i))
BY MapPageOK DEF map_round

\* The states of the globals between the rounds of _k_mmap.
Rounds(g, n, m, dir, a) ==
  g = [i \in 0 .. n |-> IF i = 0 THEN m ELSE map_round(g[i - 1], dir, a, i - 1)]

\* There is such a sequence of states.
LEMMA RoundsExist ==
  ASSUME NEW n \in Nat, NEW m, NEW dir, NEW a
  PROVE  \E g : Rounds(g, n, m, dir, a)
<1> DEFINE S == {k \in Nat : ~\E g : Rounds(g, k, m, dir, a)}
<1>1. SUFFICES ASSUME S # {} PROVE FALSE
  OBVIOUS
<1>2. PICK x \in S : \A y \in S : x <= y
  <2>1. S \subseteq Nat
    OBVIOUS
  <2> HIDE DEF S
  <2> QED BY <1>1, <2>1, LeastNat
<1>3. x \in Nat /\ ~\E g : Rounds(g, x, m, dir, a)
  OBVIOUS
<1>4. CASE x = 0
  <2> DEFINE g == [i \in 0 .. 0 |-> m]
  <2>1. g = [i \in 0 .. 0 |-> IF i = 0 THEN m ELSE map_round(g[i - 1], dir, a, i - 1)]
    OBVIOUS
  <2> QED BY <1>3, <1>4, <2>1 DEF Rounds
<1>5. CASE x # 0
  <2>1. x - 1 \in Nat /\ ~(x <= x - 1)
    BY <1>3, <1>5
  <2>2. x - 1 \notin S
    BY <1>2, <2>1
  <2>3. PICK g : Rounds(g, x - 1, m, dir, a)
    BY <2>1, <2>2
  <2> DEFINE h == [i \in 0 .. x |-> IF i = x THEN map_round(g[x - 1], dir, a, x - 1) ELSE g[i]]
  <2>4. ASSUME NEW i \in 0 .. x
        PROVE  h[i] = IF i = 0 THEN m ELSE map_round(h[i - 1], dir, a, i - 1)
    <3>1. CASE i = x
      <4>1. x - 1 \in 0 .. x /\ x - 1 # x /\ i # 0
        BY <1>5, <2>1, <3>1
      <4>2. h[x - 1] = g[x - 1]
        BY <4>1
      <4> QED BY <3>1, <4>1, <4>2
    <3>2. CASE i # x
      <4>1. i \in 0 .. x - 1 /\ (i # 0 => i - 1 \in 0 .. x /\ i - 1 # x)
        BY <1>3, <3>2
      <4>2. g[i] = IF i = 0 THEN m ELSE map_round(g[i - 1], dir, a, i - 1)
        BY <2>3, <4>1 DEF Rounds
      <4>3. h[i] = g[i] /\ (i # 0 => h[i - 1] = g[i - 1])
        BY <3>2, <4>1
      <4> HIDE DEF h
      <4> QED BY <4>2, <4>3
    <3> QED BY <3>1, <3>2
  <2>5. h = [i \in 0 .. x |-> h[i]]
    OBVIOUS
  <2> HIDE DEF h
  <2>6. [i \in 0 .. x |-> h[i]]
          = [i \in 0 .. x |-> IF i = 0 THEN m ELSE map_round(h[i - 1], dir, a, i - 1)]
    BY <2>4
  <2> QED BY <1>3, <2>5, <2>6 DEF Rounds
<1> QED BY <1>4, <1>5

\* Every element of it has grown from the first.
LEMMA RoundsGrow ==
  ASSUME NEW n \in Nat, NEW m, NEW dir, NEW a, NEW g, Rounds(g, n, m, dir, a), Books(m)
  PROVE  Grown(m, g[n])
<1> DEFINE S == {k \in 0 .. n : ~Grown(m, g[k])}
<1>1. SUFFICES ASSUME S # {} PROVE FALSE
  OBVIOUS
<1>2. PICK x \in S : \A y \in S : x <= y
  <2>1. S \subseteq Nat
    OBVIOUS
  <2> HIDE DEF S
  <2> QED BY <1>1, <2>1, LeastNat
<1>3. x \in 0 .. n /\ ~Grown(m, g[x])
  OBVIOUS
<1>4. g[x] = IF x = 0 THEN m ELSE map_round(g[x - 1], dir, a, x - 1)
  BY <1>3 DEF Rounds
<1>5. x # 0
  BY <1>3, <1>4, GrownSame
<1>6. x - 1 \in 0 .. n /\ ~(x <= x - 1)
  BY <1>3, <1>5
<1>7. Grown(m, g[x - 1])
  BY <1>2, <1>6
<1>8. Grown(g[x - 1], g[x])
  BY <1>4, <1>5, <1>7, MapRoundOK DEF Grown
<1> QED BY <1>3, <1>7, <1>8, GrownTwice

\* The states between the tables of setup_initial_page_table.
Tables(g, n, m, dir) ==
  g = [i \in 0 .. n |-> IF i = 0 THEN m ELSE add_table(g[i - 1], dir, i - 1)]

\* There is such a sequence of states.
LEMMA TablesExist ==
  ASSUME NEW n \in Nat, NEW m, NEW dir
  PROVE  \E g : Tables(g, n, m, dir)
<1> DEFINE S == {k \in Nat : ~\E g : Tables(g, k, m, dir)}
<1>1. SUFFICES ASSUME S # {} PROVE FALSE
  OBVIOUS
<1>2. PICK x \in S : \A y \in S : x <= y
  <2>1. S \subseteq Nat
    OBVIOUS
  <2> HIDE DEF S
  <2> QED BY <1>1, <2>1, LeastNat
<1>3. x \in Nat /\ ~\E g : Tables(g, x, m, dir)
  OBVIOUS
<1>4. CASE x = 0
  <2> DEFINE g == [i \in 0 .. 0 |-> m]
  <2>1. g = [i \in 0 .. 0 |-> IF i = 0 THEN m ELSE add_table(g[i - 1], dir, i - 1)]
    OBVIOUS
  <2> QED BY <1>3, <1>4, <2>1 DEF Tables
<1>5. CASE x # 0
  <2>1. x - 1 \in Nat /\ ~(x <= x - 1)
    BY <1>3, <1>5
  <2>2. x - 1 \notin S
    BY <1>2, <2>1
  <2>3. PICK g : Tables(g, x - 1, m, dir)
    BY <2>1, <2>2
  <2> DEFINE h == [i \in 0 .. x |-> IF i = x THEN add_table(g[x - 1], dir, x - 1) ELSE g[i]]
  <2>4. ASSUME NEW i \in 0 .. x
        PROVE  h[i] = IF i = 0 THEN m ELSE add_table(h[i - 1], dir, i - 1)
    <3>1. CASE i = x
      <4>1. x - 1 \in 0 .. x /\ x - 1 # x /\ i # 0
        BY <1>5, <2>1, <3>1
      <4>2. h[x - 1] = g[x - 1]
        BY <4>1
      <4> QED BY <3>1, <4>1, <4>2
    <3>2. CASE i # x
      <4>1. i \in 0 .. x - 1 /\ (i # 0 => i - 1 \in 0 .. x /\ i - 1 # x)
        BY <1>3, <3>2
      <4>2. g[i] = IF i = 0 THEN m ELSE add_table(g[i - 1], dir, i - 1)
        BY <2>3, <4>1 DEF Tables
      <4>3. h[i] = g[i] /\ (i # 0 => h[i - 1] = g[i - 1])
        BY <3>2, <4>1
      <4> HIDE DEF h
      <4> QED BY <4>2, <4>3
    <3> QED BY <3>1, <3>2
  <2>5. h = [i \in 0 .. x |-> h[i]]
    OBVIOUS
  <2> HIDE DEF h
  <2>6. [i \in 0 .. x |-> h[i]]
          = [i \in 0 .. x |-> IF i = 0 THEN m ELSE add_table(h[i - 1], dir, i - 1)]
    BY <2>4
  <2> QED BY <1>3, <2>5, <2>6 DEF Tables
<1> QED BY <1>4, <1>5

\* Every element of it has grown from the first.
LEMMA TablesGrow ==
  ASSUME NEW n \in Nat, NEW m, NEW dir, NEW g, Tables(g, n, m, dir), Books(m)
  PROVE  Grown(m, g[n])
<1> DEFINE S == {k \in 0 .. n : ~Grown(m, g[k])}
<1>1. SUFFICES ASSUME S # {} PROVE FALSE
  OBVIOUS
<1>2. PICK x \in S : \A y \in S : x <= y
  <2>1. S \subseteq Nat
    OBVIOUS
  <2> HIDE DEF S
  <2> QED BY <1>1, <2>1, LeastNat
<1>3. x \in 0 .. n /\ ~Grown(m, g[x])
  OBVIOUS
<1>4. g[x] = IF x = 0 THEN m ELSE add_table(g[x - 1], dir, x - 1)
  BY <1>3 DEF Tables
<1>5. x # 0
  BY <1>3, <1>4, GrownSame
<1>6. x - 1 \in 0 .. n /\ ~(x <= x - 1)
  BY <1>3, <1>5
<1>7. Grown(m, g[x - 1])
  BY <1>2, <1>6
<1>8. Grown(g[x - 1], g[x])
  BY <1>4, <1>5, <1>7, AddTableOK DEF Grown
<1> QED BY <1>3, <1>7, <1>8, GrownTwice

\* _k_mmap, with g the states between the n rounds
Loop(g, n, m, dir, a) ==
  /\ n \in Nat /\ n = rounds(IF a.p = NULL THEN a.v ELSE a.p, a.len)
  /\ Rounds(g, n, m, dir, a)
  /\ k_mmap(m, dir, a) = IF dir = page_directory \/ a.v < SECOND_PDE
                         THEN [m EXCEPT !.panic = TRUE]
                         ELSE IF ~aligned(a) THEN m ELSE g[n]

\* There is such a sequence.
LEMMA MmapIs ==
  ASSUME NEW m, NEW dir, NEW a \in MmapArgs
  PROVE  \E g, n : Loop(g, n, m, dir, a)
<1> DEFINE start == IF a.p = NULL THEN a.v ELSE a.p
           n == rounds(start, a.len)
           f == CHOOSE g : Rounds(g, n, m, dir, a)
<1>1. k_mmap(m, dir, a) = IF dir = page_directory \/ a.v < SECOND_PDE
                          THEN [m EXCEPT !.panic = TRUE]
                          ELSE IF ~aligned(a) THEN m ELSE f[n]
  BY DEF k_mmap, Rounds
<1> HIDE DEF f
<1>2. n \in Nat
  <2>1. PICK B \in Nat : B = PAGE_SIZE /\ B >= 1
    BY Constants
  <2>2. PICK A \in Nat : A = AddressSpace /\ A >= 1
    <3>1. PICK K \in Nat : K = KB /\ K >= 1
      BY Constants
    <3>2. PICK k \in Nat : k = K * K /\ k >= 1
      BY <3>1
    <3>3. k * B \in Nat /\ k * B >= 1
      BY <2>1, <3>2
    <3> QED BY <2>1, <3>1, <3>2, <3>3 DEF AddressSpace
  <2>3. {a.v, a.p, a.len} \subseteq 0 .. A - 1
    BY <2>2, MemoryAssumption
  <2>4. start \in Nat /\ start + a.len \in Nat
    BY <2>3
  <2> HIDE DEF start
  <2>5. PICK done \in Nat : done = (start + a.len) % A
    BY <2>2, <2>4
  <2>6. done > start => (done - start + B - 1) \div B \in Nat
    <3> SUFFICES ASSUME done > start PROVE (done - start + B - 1) \div B \in Nat
      OBVIOUS
    <3>1. done - start + B - 1 \in Nat
      BY <2>1, <2>4
    <3> QED BY <2>1, <3>1
  <2>7. rounds(start, a.len) = IF done <= start THEN 0 ELSE (done - start + B - 1) \div B
    BY <2>1, <2>2, <2>5 DEF rounds
  <2> QED BY <2>4, <2>6, <2>7
<1>3. n = rounds(IF a.p = NULL THEN a.v ELSE a.p, a.len)
  OBVIOUS
<1> HIDE DEF n
<1>4. Rounds(f, n, m, dir, a)
  <2>1. \E g : Rounds(g, n, m, dir, a)
    BY <1>2, RoundsExist
  <2> QED BY <2>1, Zenon DEF f
<1>5. Loop(f, n, m, dir, a)
  BY <1>1, <1>2, <1>3, <1>4, Zenon DEF Loop
<1> QED BY <1>5

\* _k_mmap refuses, or takes new pages.
LEMMA MmapOK ==
  ASSUME NEW m, NEW dir, NEW a \in MmapArgs, Books(m)
  PROVE  \/ /\ k_mmap(m, dir, a) = [m EXCEPT !.panic = TRUE]
            /\ dir = page_directory \/ a.v < SECOND_PDE
         \/ Grown(m, k_mmap(m, dir, a))
<1>1. PICK g, n : /\ n \in Nat /\ Rounds(g, n, m, dir, a)
                  /\ k_mmap(m, dir, a) = IF dir = page_directory \/ a.v < SECOND_PDE
                                         THEN [m EXCEPT !.panic = TRUE]
                                         ELSE IF ~aligned(a) THEN m ELSE g[n]
  <2>1. PICK g, n : Loop(g, n, m, dir, a)
    BY MmapIs
  <2> QED BY <2>1, Zenon DEF Loop
<1>2. Grown(m, g[n])
  BY <1>1, RoundsGrow
<1>3. Grown(m, m)
  BY GrownSame
<1> QED BY <1>1, <1>2, <1>3

\* No page is given out when the table is set up, and those in use are marked.
LEMMA EmptyTable ==
  LET m == setup_page_availibility_table
  IN  Books(m) /\ Owned(m.pat, m.grants)
<1> DEFINE m == setup_page_availibility_table
<1>1. /\ m.pat = [i \in Bytes |-> {b \in Bits : i * BITS + b \in Unusable}]
      /\ m.last = 0 /\ m.grants = [page \in Pages |-> 0] /\ m.panic = FALSE
      /\ DOMAIN m = {"pat", "last", "mem", "grants", "got", "panic"}
  BY DEF setup_page_availibility_table
<1>2. 0 \in Bytes
  BY Constants DEF Bytes
<1> HIDE DEF m
<1>3. Books(m)
  <2>1. m.pat \in [Bytes -> SUBSET Bits]
    BY <1>1
  <2>2. m.grants \in [Pages -> Int]
    BY <1>1
  <2> QED BY <1>1, <1>2, <2>1, <2>2 DEF Books
<1>4. ASSUME NEW page \in Pages
      PROVE  m.grants[page] = 0 /\ (page \in Unusable => MarkedIn(m.pat, page))
  <2>1. index(page) \in Bytes /\ bit(page) \in Bits /\ page = index(page) * BITS + bit(page)
    BY PageIs
  <2> QED BY <1>1, <2>1 DEF MarkedIn
<1>5. Books(m) /\ Owned(m.pat, m.grants)
  BY <1>3, <1>4 DEF Owned
<1> QED BY <1>5 DEF m

\* The state of the table before there are processes.
LEMMA SetupOK ==
  /\ Books(setup_initial_page_table)
  /\ Owned(setup_initial_page_table.pat, setup_initial_page_table.grants)
<1> DEFINE m == setup_page_availibility_table
           dir == get_next_page(m)
<1>1. Books(m) /\ Owned(m.pat, m.grants)
  BY EmptyTable
<1>2. PICK f : /\ f = CHOOSE g : Tables(g, KB, dir, dir.got)
               /\ setup_initial_page_table = f[KB]
  BY DEF setup_initial_page_table, Tables
<1> HIDE DEF m
<1>3. Grown(m, dir) /\ Books(dir)
  BY <1>1, GetNextOK DEF Grown
<1> HIDE DEF dir
<1>4. KB \in Nat
  BY Constants
<1>5. Tables(f, KB, dir, dir.got)
  <2>1. \E g : Tables(g, KB, dir, dir.got)
    BY <1>4, TablesExist
  <2> QED BY <1>2, <2>1, Zenon
<1>6. Grown(dir, f[KB])
  BY <1>3, <1>4, <1>5, TablesGrow
<1>7. Grown(m, f[KB])
  BY <1>3, <1>6, GrownTwice
<1> QED BY <1>1, <1>2, <1>7 DEF Grown

-----------------------------------------------------------------------------
(* The invariant *)

\* A process that is in no call has seen nothing.
LEMMA NoCallOK == NoCall \in Calling /\ NoCall.at = "none" /\ Seen(NoCall)
<1>1. NoCall.at = "none"
  BY DEF NoCall
<1>2. 0 \in Pages /\ 0 \in Bytes
  BY Constants DEF NULL, Bytes
<1>3. NoCall \in Calling
  BY <1>2 DEF NoCall, Calling, Places
<1> QED BY <1>1, <1>3 DEF Seen

\* The table after setup_initial_page_table, and nobody in a call.
LEMMA InitOK == Init => IInv
<1> SUFFICES ASSUME Init PROVE IInv
  OBVIOUS
<1>1. PICK m : /\ m = setup_initial_page_table
               /\ page_availibility_table = m.pat /\ last_availible = m.last
               /\ grants = m.grants /\ panic = m.panic
  BY DEF Init
<1>2. /\ call = [p \in Procs |-> NoCall] /\ held = [p \in Procs |-> {}] /\ overlap = FALSE
  BY DEF Init
<1>3. Books(m) /\ Owned(m.pat, m.grants)
  BY <1>1, SetupOK
<1>4. Typed
  BY <1>1, <1>2, <1>3, NoCallOK DEF Typed, Books
<1>5. HeldOnce
  BY <1>2 DEF HeldOnce
<1>6. \A p \in Procs : Seen(call[p])
  BY <1>2, NoCallOK
<1> QED BY <1>1, <1>3, <1>4, <1>5, <1>6 DEF IInv, Safe

\* The record of the globals.
LEMMA StateIs ==
  ASSUME Typed
  PROVE  /\ Books(State) /\ State.pat = page_availibility_table /\ State.grants = grants
         /\ State.last = last_availible /\ State.panic = panic
<1>1. /\ DOMAIN State = {"pat", "last", "mem", "grants", "got", "panic"}
      /\ State.pat = page_availibility_table /\ State.grants = grants
      /\ State.last = last_availible /\ State.panic = panic
  BY DEF State
<1> QED BY <1>1 DEF Typed, Books

\* A change of the table leaves no overlap only if nobody else was in a call.
LEMMA TouchedIs ==
  ASSUME Typed, NEW p \in Procs, Touched(p)
  PROVE  /\ overlap' \in BOOLEAN
         /\ ~overlap' => ~overlap /\ \A q \in Procs : q # p => call[q].at = "none"
BY DEF Typed, Touched, InCall

\* New pages are taken inside the kernel; p may lose what it had.
LEMMA TableOK ==
  ASSUME IInv, NEW p \in Procs, ~InCall(p), Touched(p), NEW n, Grown(State, n),
         page_availibility_table' = n.pat, last_availible' = n.last, grants' = n.grants,
         panic' \in BOOLEAN, call' = call,
         held' = held \/ held' = [held EXCEPT ![p] = {}]
  PROVE  IInv'
<1>1. Typed /\ Books(n) /\ overlap' \in BOOLEAN
  BY TouchedIs DEF IInv, Grown
<1>2. held' \in [Procs -> SUBSET Pages] /\ \A q \in Procs : held'[q] \subseteq held[q]
  BY <1>1 DEF Typed
<1>3. Typed'
  BY <1>1, <1>2 DEF Typed, Books
<1>4. ASSUME ~overlap' PROVE Safe'
  <2>1. Safe /\ \A q \in Procs : call[q].at = "none"
    BY <1>1, <1>4, TouchedIs DEF IInv, InCall
  <2>2. Owned(page_availibility_table, grants)
    BY <2>1 DEF Safe
  <2>3. Owned(n.pat, n.grants)
    BY <1>1, <2>2, StateIs DEF Grown
  <2>4. ASSUME NEW q \in Procs, NEW page \in held'[q]
        PROVE  grants'[page] = 1 /\ page \notin Unusable
    <3>1. page \in held[q] /\ page \in Pages
      BY <1>1, <1>2 DEF Typed
    <3>2. grants[page] = 1 /\ page \notin Unusable
      BY <2>1, <3>1 DEF Safe, HeldOnce
    <3>3. MarkedIn(page_availibility_table, page)
      BY <2>2, <3>1, <3>2 DEF Owned
    <3>4. n.grants[page] = grants[page]
      BY <1>1, <3>1, <3>3, StateIs DEF Grown
    <3> QED BY <3>2, <3>4
  <2>5. ASSUME NEW q \in Procs, NEW r \in Procs, q # r PROVE held'[q] \cap held'[r] = {}
    BY <1>2, <2>1, <2>5 DEF Safe, HeldOnce
  <2>6. HeldOnce'
    BY <2>4, <2>5 DEF HeldOnce
  <2>7. ASSUME NEW q \in Procs PROVE Seen(call[q])'
    BY <2>1 DEF Seen
  <2> QED BY <2>3, <2>6, <2>7 DEF Safe
<1> QED BY <1>3, <1>4 DEF IInv

\* The table stays as it is; p may go into its next step inside a call, or be
\* gone.
LEMMA PrivateOK ==
  ASSUME IInv, NEW p \in Procs, NEW c \in Calling,
         UNCHANGED <<page_availibility_table, last_availible, grants, overlap>>,
         panic' \in BOOLEAN, ~overlap => Seen(c)',
         call' = [call EXCEPT ![p] = c],
         held' = held \/ held' = [held EXCEPT ![p] = {}]
  PROVE  IInv'
<1>1. Typed
  BY DEF IInv
<1>2. held' \in [Procs -> SUBSET Pages] /\ \A q \in Procs : held'[q] \subseteq held[q]
  BY <1>1 DEF Typed
<1>3. /\ call' \in [Procs -> Calling] /\ call'[p] = c
      /\ \A q \in Procs : q # p => call'[q] = call[q]
  BY <1>1 DEF Typed
<1>4. Typed'
  BY <1>1, <1>2, <1>3 DEF Typed
<1>5. ASSUME ~overlap PROVE Safe'
  <2>1. Safe /\ Seen(c)'
    BY <1>5 DEF IInv
  <2>2. HeldOnce'
    BY <1>2, <2>1 DEF Safe, HeldOnce
  <2>3. ASSUME NEW q \in Procs PROVE Seen(call[q])'
    <3>1. CASE q = p
      BY <1>3, <2>1, <3>1 DEF Seen
    <3>2. CASE q # p
      <4>1. Seen(call[q]) /\ call'[q] = call[q]
        BY <1>3, <2>1, <3>2 DEF Safe
      <4> QED BY <4>1 DEF Seen, Scanned, Marked
    <3> QED BY <3>1, <3>2
  <2> QED BY <2>1, <2>2, <2>3 DEF Safe, Owned, MarkedIn
<1> QED BY <1>4, <1>5 DEF IInv

\* fork and exec to the system's own directory leave the table alone.
LEMMA ForkOK ==
  ASSUME IInv, UNCHANGED <<page_availibility_table, last_availible, grants, overlap, panic, call>>,
         NEW p \in Procs, held' = held \/ held' = [held EXCEPT ![p] = {}]
  PROVE  IInv'
<1>1. Typed /\ call[p] \in Calling /\ call' = [call EXCEPT ![p] = call[p]]
  BY DEF IInv, Typed
<1>3. ~overlap => LET c == call[p] IN Seen(c)
  BY DEF IInv, Safe
<1>4. PICK c \in Calling : c = call[p]
  BY <1>1
<1>5. ~overlap => Seen(c)'
  BY <1>3, <1>4 DEF Seen, Scanned, Marked
<1>6. panic' \in BOOLEAN
  BY <1>1 DEF Typed
<1>7. call' = [call EXCEPT ![p] = c]
  BY <1>1, <1>4
<1> QED BY <1>5, <1>6, <1>7, PrivateOK

\* exec gives a process a new directory.
LEMMA ExecOK ==
  ASSUME IInv, NEW p \in Procs, NEW prio \in Prios, sys_exec(p, prio)
  PROVE  IInv' /\ (panic' => Full(page_availibility_table'))
<1>1. CASE prio = 0
  BY <1>1, ForkOK DEF sys_exec, Calls
<1>2. CASE prio # 0
  <2>1. PICK n : n = new_page_directory(State) /\ Becomes(n) /\ Touched(p)
    BY <1>2 DEF sys_exec
  <2>2. Typed /\ Books(State) /\ State.panic = panic
    BY StateIs DEF IInv
  <2>3. Grown(State, n)
    BY <2>1, <2>2, NewDirectoryOK
  <2>4. /\ page_availibility_table' = n.pat /\ last_availible' = n.last /\ grants' = n.grants
        /\ panic' = n.panic
    BY <2>1 DEF Becomes
  <2>5. panic' \in BOOLEAN
    BY <2>3, <2>4 DEF Grown, Books
  <2>6. ~panic /\ ~InCall(p) /\ call' = call /\ held' = [held EXCEPT ![p] = {}]
    BY DEF sys_exec, Calls
  <2>7. panic' => Full(page_availibility_table')
    BY <2>2, <2>3, <2>4, <2>6 DEF Grown
  <2> QED BY <2>7, <2>1, <2>3, <2>4, <2>5, <2>6, TableOK
<1> QED BY <1>1, <1>2

\* mmap takes new pages, or panics.
LEMMA SysMmapOK ==
  ASSUME IInv, NEW p \in Procs, NEW a \in MmapArgs, sys_mmap(p, a)
  PROVE  /\ IInv'
         /\ panic' => \/ memory[p] = page_directory \/ a.v < SECOND_PDE
                      \/ Full(page_availibility_table')
<1>1. PICK n : n = k_mmap(State, memory[p], a) /\ Becomes(n)
  BY DEF sys_mmap
<1>2. ~panic /\ ~InCall(p) /\ Touched(p) /\ call' = call /\ held' = held
  BY DEF sys_mmap, Calls
<1>3. Typed /\ Books(State) /\ State.panic = panic
  BY StateIs DEF IInv
<1>4. /\ page_availibility_table' = n.pat /\ last_availible' = n.last /\ grants' = n.grants
      /\ panic' = n.panic
  BY <1>1 DEF Becomes
<1>5. CASE /\ n = [State EXCEPT !.panic = TRUE]
           /\ memory[p] = page_directory \/ a.v < SECOND_PDE
  <2>1. PICK s : s = State
    OBVIOUS
  <2>2. /\ Books(n) /\ n.pat = s.pat /\ n.last = s.last /\ n.grants = s.grants
        /\ n.panic = TRUE /\ Books(s)
    BY <1>3, <1>5, <2>1 DEF Books
  <2> DEFINE o == [s EXCEPT !.got = NULL]
  <2>3. Books(o) /\ o.pat = s.pat /\ o.last = s.last /\ o.grants = s.grants /\ o.panic = s.panic
    BY <2>2 DEF Books
  <2> HIDE DEF o
  <2>4. Grown(State, o)
    BY <1>3, <2>1, <2>3, GrownSame
  <2>5. /\ page_availibility_table' = o.pat /\ last_availible' = o.last /\ grants' = o.grants
        /\ panic' \in BOOLEAN
    BY <1>4, <2>2, <2>3
  <2> QED BY <1>2, <1>5, <2>4, <2>5, TableOK
<1>6. CASE Grown(State, n)
  <2>1. panic' \in BOOLEAN /\ (panic' => Full(page_availibility_table'))
    BY <1>2, <1>3, <1>4, <1>6 DEF Grown, Books
  <2> QED BY <1>2, <1>4, <1>6, <2>1, TableOK
<1> QED BY <1>1, <1>3, <1>5, <1>6, MmapOK

\* exit leaves the table alone as well, and ends the call the process was in.
LEMMA ExitOK ==
  ASSUME IInv, NEW p \in Procs, sys_exit(p)
  PROVE  IInv'
<1>1. /\ UNCHANGED <<page_availibility_table, last_availible, grants, overlap>>
      /\ panic' = panic /\ panic \in BOOLEAN
      /\ call' = [call EXCEPT ![p] = NoCall] /\ held' = [held EXCEPT ![p] = {}]
  BY DEF sys_exit, gone, IInv, Typed
<1>2. PICK c \in Calling : c = NoCall /\ c.at = "none"
  BY NoCallOK
<1>3. Seen(c)'
  BY <1>2 DEF Seen
<1>4. call' = [call EXCEPT ![p] = c]
  BY <1>1, <1>2
<1> QED BY <1>1, <1>3, <1>4, PrivateOK

\* Nothing has been searched yet.
LEMMA StartOK ==
  ASSUME IInv, NEW p \in Procs, malloc_start(p)
  PROVE  IInv'
<1>1. PICK c : c = [NoCall EXCEPT !.at = "scan", !.index = last_availible]
  OBVIOUS
<1>2. /\ UNCHANGED <<page_availibility_table, last_availible, grants, overlap>>
      /\ panic' = panic /\ held' = held /\ call' = [call EXCEPT ![p] = c]
  BY <1>1 DEF malloc_start
<1>3. /\ panic \in BOOLEAN /\ last_availible \in Bytes
  BY DEF IInv, Typed
<1>4. c \in Calling /\ c.at = "scan" /\ c.index = last_availible
  <2>1. NoCall \in Calling
    BY NoCallOK
  <2>2. "scan" \in Places
    BY DEF Places
  <2> QED BY <1>1, <1>3, <2>1, <2>2 DEF Calling
<1>5. Scanned(last_availible)'
  <2>1. (last_availible + 0) % PAT_SIZE = last_availible
    BY <1>3, Around
  <2>2. 0 \in 0 .. PAT_SIZE - 1 /\ 0 .. 0 - 1 = {}
    BY Constants
  <2>3. PICK l : l = last_availible /\ l = last_availible'
    BY <1>2
  <2> QED BY <2>1, <2>2, <2>3 DEF Scanned
<1>6. Seen(c)'
  BY <1>2, <1>4, <1>5 DEF Seen, Scanned
<1> QED BY <1>2, <1>3, <1>4, <1>6, PrivateOK

\* A byte more is known to be full, or a page is found; the search is back
\* where it began only if all bytes are full.
LEMMA ScanOK ==
  ASSUME IInv, NEW p \in Procs, malloc_scan(p)
  PROVE  IInv' /\ (~overlap /\ panic' => Full(page_availibility_table'))
<1>1. /\ UNCHANGED <<page_availibility_table, last_availible, grants, overlap>>
      /\ held' = held /\ ~panic
  BY DEF malloc_scan, Moves
<1>2. PICK d \in Calling : d = call[p] /\ d.at = "scan"
  BY DEF IInv, Typed, malloc_scan, Moves
<1>3. PICK pat \in [Bytes -> SUBSET Bits] : pat = page_availibility_table
  BY DEF IInv, Typed
<1>4. PICK l \in Bytes : l = last_availible
  BY DEF IInv, Typed
<1>5. PICK i \in Bytes : i = d.index
  BY <1>2 DEF Calling
<1>6. ~overlap => Scanned(i)
  BY <1>2, <1>5 DEF IInv, Safe, Seen
<1>7. CASE /\ pat[i] # Bits /\ panic' = panic
           /\ call' = [call EXCEPT ![p].at = "load",
                                   ![p].page = i * BITS + Min(Bits \ pat[i])]
  <2>1. PICK b \in Bits : b = Min(Bits \ pat[i]) /\ b \notin pat[i]
    <3> DEFINE S == Bits \ pat[i]
    <3>1. S \subseteq Nat /\ S # {}
      <4>1. pat[i] \subseteq Bits /\ pat[i] # Bits
        BY <1>5, <1>7
      <4>2. Bits \subseteq Nat
        BY Constants DEF Bits
      <4> QED BY <4>1, <4>2
    <3>2. Min(S) \in S
      <4> HIDE DEF S
      <4> QED BY <3>1, MinIs
    <3> QED BY <3>2
  <2>2. PICK page \in Pages : page = i * BITS + b /\ index(page) = i /\ bit(page) = b
    BY <2>1, PageOf
  <2>3. PICK c : c = [d EXCEPT !.at = "load", !.page = page]
    OBVIOUS
  <2>4. c \in Calling /\ c.at = "load" /\ c.page = page /\ c.index = i
    <3>1. "load" \in Places
      BY DEF Places
    <3> QED BY <1>2, <1>5, <2>3, <3>1 DEF Calling
  <2>5. call' = [call EXCEPT ![p] = c]
    BY <1>2, <1>7, <2>1, <2>2, <2>3
  <2>6. Seen(c)'
    BY <1>1, <1>3, <2>1, <2>2, <2>4 DEF Seen, Marked
  <2>7. panic' \in BOOLEAN /\ ~panic'
    BY <1>1, <1>7 DEF IInv, Typed
  <2> QED BY <1>1, <2>4, <2>5, <2>6, <2>7, PrivateOK
<1>8. CASE /\ pat[i] = Bits /\ panic' = ((i + 1) % PAT_SIZE = l)
           /\ call' = [call EXCEPT ![p].index = (i + 1) % PAT_SIZE]
  <2>1. PICK n \in Nat : n = PAT_SIZE /\ n >= 1 /\ Bytes = 0 .. n - 1
    BY Constants DEF Bytes
  <2>2. PICK next \in Bytes : next = (i + 1) % PAT_SIZE
    BY <1>5, <2>1
  <2>3. PICK c : c = [d EXCEPT !.index = next]
    OBVIOUS
  <2>4. c \in Calling /\ c.at = "scan" /\ c.index = next
    BY <1>2, <2>3 DEF Calling
  <2>5. call' = [call EXCEPT ![p] = c]
    BY <1>2, <1>8, <2>2, <2>3
  <2>6. ASSUME ~overlap
        PROVE  Scanned(next)' /\ (next = l => Full(pat))
    <3>1. PICK k \in Bytes : /\ i = (l + k) % PAT_SIZE
                             /\ \A j \in 0 .. k - 1 : pat[(l + j) % PAT_SIZE] = Bits
      BY <1>3, <1>4, <1>6, <2>6 DEF Scanned, Bytes
    <3>2. \A j \in 0 .. k : pat[(l + j) % PAT_SIZE] = Bits
      <4>1. \A j \in 0 .. k : j = k \/ j \in 0 .. k - 1
        BY <2>1
      <4> QED BY <1>8, <3>1, <4>1
    <3>3. (l + k + 1) % PAT_SIZE = next
      BY <2>2, <3>1, Around
    <3>4. CASE next # l
      <4>1. k # n - 1
        <5>1. SUFFICES ASSUME k = n - 1 PROVE next = l
          BY <3>4
        <5>2. l + k + 1 = l + n
          BY <2>1, <5>1
        <5>3. (l + n) % n = l
          BY <2>1
        <5> QED BY <2>1, <3>3, <5>2, <5>3
      <4>2. k + 1 \in 0 .. n - 1 /\ (k + 1) - 1 = k /\ l + (k + 1) = l + k + 1
        BY <2>1, <4>1
      <4>3. \E e \in 0 .. PAT_SIZE - 1 :
               /\ next = (l + e) % PAT_SIZE
               /\ \A j \in 0 .. e - 1 : pat[(l + j) % PAT_SIZE] = Bits
        BY <2>1, <3>2, <3>3, <4>2
      <4>4. l = last_availible' /\ pat = page_availibility_table'
        BY <1>1, <1>3, <1>4
      <4> QED BY <3>4, <4>3, <4>4 DEF Scanned
    <3>5. CASE next = l
      <4>1. (l + 0) % PAT_SIZE = l /\ k = n - 1
        <5>1. (l + 0) % PAT_SIZE = l
          BY Around
        <5>2. (l + k + 1) % PAT_SIZE = l => k = PAT_SIZE - 1
          BY Around
        <5> QED BY <2>1, <3>3, <3>5, <5>1, <5>2
      <4>2. Full(pat)
        <5> SUFFICES ASSUME NEW x \in Bytes PROVE pat[x] = Bits
          BY DEF Full
        <5>1. PICK j \in Bytes : x = (l + j) % PAT_SIZE
          BY Around
        <5>2. j \in 0 .. k
          BY <2>1, <4>1
        <5> QED BY <3>2, <5>1, <5>2
      <4>3. 0 \in 0 .. n - 1 /\ 0 .. 0 - 1 = {}
        BY <2>1
      <4>4. l = last_availible' /\ pat = page_availibility_table'
        BY <1>1, <1>3, <1>4
      <4> QED BY <2>1, <3>5, <4>1, <4>2, <4>3, <4>4 DEF Scanned
    <3> QED BY <3>4, <3>5
  <2>7. ~overlap => Seen(c)'
    <3>1. ~overlap => Scanned(next)'
      BY <2>6
    <3> QED BY <2>4, <3>1 DEF Seen, Scanned
  <2>8. panic' \in BOOLEAN /\ (~overlap /\ panic' => Full(page_availibility_table'))
    BY <1>1, <1>3, <1>8, <2>2, <2>6
  <2> QED BY <1>1, <2>4, <2>5, <2>7, <2>8, PrivateOK
<1> QED
  <2>1. \/ /\ pat[i] # Bits /\ panic' = panic
           /\ call' = [call EXCEPT ![p].at = "load",
                                   ![p].page = i * BITS + Min(Bits \ pat[i])]
        \/ /\ pat[i] = Bits /\ panic' = ((i + 1) % PAT_SIZE = l)
           /\ call' = [call EXCEPT ![p].index = (i + 1) % PAT_SIZE]
    BY <1>2, <1>3, <1>4, <1>5 DEF malloc_scan
  <2> QED BY <1>7, <1>8, <2>1

\* The byte in hand is the one in the table.
LEMMA LoadOK ==
  ASSUME IInv, NEW p \in Procs, set_pat_load(p)
  PROVE  IInv'
<1>1. /\ UNCHANGED <<page_availibility_table, last_availible, grants, overlap>>
      /\ held' = held /\ panic' = panic
  BY DEF set_pat_load
<1>2. PICK d \in Calling : d = call[p] /\ d.at = "load"
  BY DEF IInv, Typed, set_pat_load, Moves
<1>3. PICK pat \in [Bytes -> SUBSET Bits] : pat = page_availibility_table
  BY DEF IInv, Typed
<1>4. PICK c : c = [d EXCEPT !.at = "store", !.byte = pat[d.index]]
  OBVIOUS
<1>5. /\ c \in Calling /\ c.at = "store" /\ c.byte = pat[d.index]
      /\ c.index = d.index /\ c.page = d.page
  <2>1. "store" \in Places
    BY DEF Places
  <2>2. d.index \in Bytes
    BY <1>2 DEF Calling
  <2>3. pat[d.index] \in SUBSET Bits
    BY <2>2
  <2> QED BY <1>2, <1>4, <2>1, <2>3 DEF Calling
<1>6. call' = [call EXCEPT ![p] = c]
  BY <1>2, <1>3, <1>4 DEF set_pat_load
<1>7. ~overlap => Seen(c)'
  <2>1. ~overlap => Seen(d)
    BY <1>2 DEF IInv, Safe
  <2> QED BY <1>1, <1>2, <1>3, <1>5, <2>1 DEF Seen, Marked
<1>8. panic' \in BOOLEAN
  BY <1>1 DEF IInv, Typed
<1> QED BY <1>1, <1>5, <1>6, <1>7, <1>8, PrivateOK

\* A step that changes the table or its books, of a process that nobody
\* overlaps with.
LEMMA AloneOK ==
  ASSUME IInv, NEW p \in Procs, NEW c \in Calling, Touched(p),
         page_availibility_table' \in [Bytes -> SUBSET Bits], last_availible' \in Bytes,
         grants' \in [Pages -> Int], held' \in [Procs -> SUBSET Pages], panic' = panic,
         call' = [call EXCEPT ![p] = c],
         ~overlap /\ Safe => /\ Owned(page_availibility_table, grants)'
                             /\ HeldOnce' /\ Seen(c)'
  PROVE  IInv'
<1>1. Typed /\ overlap' \in BOOLEAN
  BY TouchedIs DEF IInv
<1>2. /\ call' \in [Procs -> Calling] /\ call'[p] = c
      /\ \A q \in Procs : q # p => call'[q] = call[q]
  BY <1>1 DEF Typed
<1>3. Typed'
  BY <1>1, <1>2 DEF Typed
<1>4. ASSUME ~overlap' PROVE Safe'
  <2>1. ~overlap /\ Safe /\ \A q \in Procs : q # p => call[q].at = "none"
    BY <1>1, <1>4, TouchedIs DEF IInv
  <2>2. ASSUME NEW q \in Procs PROVE Seen(call[q])'
    <3>1. CASE q = p
      <4>1. Seen(c)'
        BY <2>1
      <4> QED BY <1>2, <3>1, <4>1 DEF Seen
    <3>2. CASE q # p
      BY <1>2, <2>1, <3>2 DEF Seen
    <3> QED BY <3>1, <3>2
  <2> QED BY <2>1, <2>2 DEF Safe
<1> QED BY <1>3, <1>4 DEF IInv

\* Pages of other bytes or of other bits are not affected by a store.
LEMMA OtherPages ==
  ASSUME NEW x \in Pages, NEW y \in Pages, index(x) = index(y), bit(x) = bit(y)
  PROVE  x = y
BY PageIs

\* The byte with one bit more is written back.
LEMMA StoreOK ==
  ASSUME IInv, NEW p \in Procs, set_pat_store(p)
  PROVE  IInv'
<1>1. /\ last_availible' = last_availible /\ grants' = grants /\ held' = held /\ panic' = panic
      /\ Touched(p)
  BY DEF set_pat_store
<1>2. PICK d \in Calling : d = call[p] /\ d.at = "store"
  BY DEF IInv, Typed, set_pat_store, Moves
<1>3. PICK pat \in [Bytes -> SUBSET Bits] : pat = page_availibility_table
  BY DEF IInv, Typed
<1>4. d.index \in Bytes /\ d.page \in Pages /\ d.byte \subseteq Bits
  BY <1>2 DEF Calling
<1>5. PICK new : new = [pat EXCEPT ![d.index] = d.byte \cup {bit(d.page)}]
  OBVIOUS
<1>6. page_availibility_table' = new
  BY <1>2, <1>3, <1>5 DEF set_pat_store
<1>7. new \in [Bytes -> SUBSET Bits]
  <2>1. bit(d.page) \in Bits
    BY <1>4, PageIs
  <2> QED BY <1>4, <1>5, <2>1
<1>8. PICK c : c = [d EXCEPT !.at = "return"]
  OBVIOUS
<1>9. c \in Calling /\ c.at = "return" /\ c.index = d.index /\ c.page = d.page
  <2>1. "return" \in Places
    BY DEF Places
  <2> QED BY <1>2, <1>8, <2>1 DEF Calling
<1>10. call' = [call EXCEPT ![p] = c]
  BY <1>2, <1>8 DEF set_pat_store
<1>11. ASSUME ~overlap, Safe
       PROVE  Owned(page_availibility_table, grants)' /\ HeldOnce' /\ Seen(c)'
  <2>1. Seen(d) /\ Owned(pat, grants) /\ HeldOnce
    BY <1>2, <1>3, <1>11 DEF Safe
  <2>2. d.index = index(d.page) /\ ~MarkedIn(pat, d.page) /\ d.byte = pat[d.index]
    BY <1>2, <1>3, <2>1 DEF Seen, Marked, MarkedIn
  <2>3. grants[d.page] = 0 /\ d.page \notin Unusable
    BY <1>4, <2>1, <2>2 DEF Owned
  <2>4. MarkedIn(new, d.page)
    BY <1>3, <1>4, <1>5, <2>2 DEF MarkedIn
  <2>5. \A x \in Pages : MarkedIn(pat, x) => MarkedIn(new, x)
    <3> SUFFICES ASSUME NEW x \in Pages, MarkedIn(pat, x) PROVE MarkedIn(new, x)
      OBVIOUS
    <3>1. index(x) \in Bytes
      BY PageIs
    <3> QED BY <1>3, <1>4, <1>5, <2>2, <3>1 DEF MarkedIn
  <2>6. Owned(new, grants)
    BY <2>1, <2>5 DEF Owned
  <2>7. Seen(c)'
    BY <1>1, <1>6, <1>9, <2>2, <2>3, <2>4 DEF Seen, Marked, MarkedIn
  <2>8. HeldOnce'
    BY <1>1, <2>1 DEF HeldOnce
  <2> QED BY <1>1, <1>6, <2>6, <2>7, <2>8 DEF Owned
<1>12. /\ page_availibility_table' \in [Bytes -> SUBSET Bits] /\ last_availible' \in Bytes
       /\ grants' \in [Pages -> Int] /\ held' \in [Procs -> SUBSET Pages]
  BY <1>1, <1>6, <1>7 DEF IInv, Typed
<1> QED BY <1>1, <1>9, <1>10, <1>11, <1>12, AloneOK

\* The page is the caller's, or the caller is gone.
LEMMA ReturnOK ==
  ASSUME IInv, NEW p \in Procs, malloc_return(p)
  PROVE  IInv'
<1>1. /\ page_availibility_table' = page_availibility_table /\ panic' = panic /\ Touched(p)
      /\ last_availible' = call[p].index
  BY DEF malloc_return
<1>2. PICK d \in Calling : d = call[p] /\ d.at = "return"
  BY DEF IInv, Typed, malloc_return, Moves
<1>3. /\ page_availibility_table \in [Bytes -> SUBSET Bits] /\ grants \in [Pages -> Int]
      /\ held \in [Procs -> SUBSET Pages]
  BY DEF IInv, Typed
<1>4. d.index \in Bytes /\ d.page \in Pages
  BY <1>2 DEF Calling
<1>5. PICK c \in Calling : c = NoCall /\ c.at = "none"
  BY NoCallOK
<1>6. Seen(c)'
  BY <1>5 DEF Seen
<1>7. CASE /\ grants' = grants
           /\ call' = [call EXCEPT ![p] = NoCall] /\ held' = [held EXCEPT ![p] = {}]
  <2>1. ~overlap /\ Safe => Owned(page_availibility_table, grants)' /\ HeldOnce'
    BY <1>1, <1>3, <1>7 DEF Safe, HeldOnce, Owned
  <2>2. /\ page_availibility_table' \in [Bytes -> SUBSET Bits] /\ last_availible' \in Bytes
        /\ grants' \in [Pages -> Int] /\ held' \in [Procs -> SUBSET Pages]
    BY <1>1, <1>2, <1>3, <1>4, <1>7
  <2>3. call' = [call EXCEPT ![p] = c]
    BY <1>5, <1>7
  <2> QED BY <1>1, <1>6, <2>1, <2>2, <2>3, AloneOK
<1>8. CASE /\ grants' = [grants EXCEPT ![d.page] = @ + 1]
           /\ call' = [call EXCEPT ![p] = NoCall]
           /\ held' = [held EXCEPT ![p] = @ \cup {d.page}]
  <2>1. ASSUME ~overlap, Safe
        PROVE  Owned(page_availibility_table, grants)' /\ HeldOnce'
    <3>1. Seen(d) /\ Owned(page_availibility_table, grants) /\ HeldOnce
      BY <1>2, <2>1 DEF Safe
    <3>2. /\ MarkedIn(page_availibility_table, d.page) /\ grants[d.page] = 0
          /\ d.page \notin Unusable
      BY <1>2, <3>1 DEF Seen, Marked, MarkedIn
    <3>3. grants'[d.page] = 1 /\ \A x \in Pages : x # d.page => grants'[x] = grants[x]
      BY <1>3, <1>4, <1>8, <3>2
    <3>4. Owned(page_availibility_table, grants)'
      BY <1>1, <3>1, <3>2, <3>3 DEF Owned
    <3>5. /\ held'[p] = held[p] \cup {d.page}
          /\ \A q \in Procs : q # p => held'[q] = held[q]
      BY <1>3, <1>8
    <3>6. ASSUME NEW q \in Procs PROVE d.page \notin held[q] /\ held[q] \subseteq Pages
      BY <1>3, <3>1, <3>2 DEF HeldOnce
    <3>7. \A q \in Procs : \A x \in held'[q] : grants'[x] = 1 /\ x \notin Unusable
      <4> SUFFICES ASSUME NEW q \in Procs, NEW x \in held'[q]
                   PROVE  grants'[x] = 1 /\ x \notin Unusable
        OBVIOUS
      <4>1. x = d.page \/ x \in held[q]
        BY <3>5
      <4> QED BY <3>1, <3>2, <3>3, <3>6, <4>1 DEF HeldOnce
    <3>8. \A q, r \in Procs : q # r => held'[q] \cap held'[r] = {}
      BY <3>1, <3>5, <3>6 DEF HeldOnce
    <3> QED BY <3>4, <3>7, <3>8 DEF HeldOnce
  <2>2. /\ page_availibility_table' \in [Bytes -> SUBSET Bits] /\ last_availible' \in Bytes
        /\ grants' \in [Pages -> Int] /\ held' \in [Procs -> SUBSET Pages]
    BY <1>1, <1>2, <1>3, <1>4, <1>8
  <2>3. call' = [call EXCEPT ![p] = c]
    BY <1>5, <1>8
  <2> QED BY <1>1, <1>6, <2>1, <2>2, <2>3, AloneOK
<1>9. \/ /\ grants' = grants
         /\ call' = [call EXCEPT ![p] = NoCall] /\ held' = [held EXCEPT ![p] = {}]
      \/ /\ grants' = [grants EXCEPT ![d.page] = @ + 1]
         /\ call' = [call EXCEPT ![p] = NoCall]
         /\ held' = [held EXCEPT ![p] = @ \cup {d.page}]
  BY <1>2 DEF malloc_return, gone
<1> QED BY <1>7, <1>8, <1>9

\* The page is nobody's, and its bit is still set.
LEMMA FreeLoadOK ==
  ASSUME IInv, NEW p \in Procs, NEW page \in held[p], free_load(p, page)
  PROVE  IInv'
<1>1. /\ UNCHANGED <<page_availibility_table, last_availible, overlap, panic>>
      /\ held' = [held EXCEPT ![p] = @ \ {page}]
      /\ grants' = [grants EXCEPT ![page] = @ - 1]
  BY DEF free_load
<1>2. PICK pat \in [Bytes -> SUBSET Bits] : pat = page_availibility_table
  BY DEF IInv, Typed
<1>3. /\ grants \in [Pages -> Int] /\ held \in [Procs -> SUBSET Pages]
      /\ call \in [Procs -> Calling] /\ last_availible \in Bytes
      /\ overlap \in BOOLEAN /\ panic \in BOOLEAN
  BY DEF IInv, Typed
<1>4. page \in Pages /\ index(page) \in Bytes
  BY <1>3, PageIs
<1>5. PICK c : c = [at |-> "free", index |-> index(page), page |-> page,
                    byte |-> pat[index(page)]]
  OBVIOUS
<1>6. /\ c \in Calling /\ c.at = "free" /\ c.index = index(page) /\ c.page = page
      /\ c.byte = pat[index(page)]
  <2>1. "free" \in Places /\ pat[index(page)] \in SUBSET Bits
    BY <1>4 DEF Places
  <2> QED BY <1>4, <1>5, <2>1 DEF Calling
<1>7. call' = [call EXCEPT ![p] = c]
  BY <1>2, <1>5 DEF free_load
<1>8. /\ call' \in [Procs -> Calling] /\ call'[p] = c
      /\ \A q \in Procs : q # p => call'[q] = call[q]
  BY <1>3, <1>6, <1>7
<1>9. /\ grants' \in [Pages -> Int] /\ grants'[page] = grants[page] - 1
      /\ \A x \in Pages : x # page => grants'[x] = grants[x]
  BY <1>1, <1>3, <1>4
<1>10. /\ held' \in [Procs -> SUBSET Pages] /\ held'[p] = held[p] \ {page}
       /\ \A q \in Procs : q # p => held'[q] = held[q]
  BY <1>1, <1>3
<1>11. Typed'
  BY <1>1, <1>2, <1>3, <1>8, <1>9, <1>10 DEF Typed
<1>12. ASSUME ~overlap PROVE Safe'
  <2>1. Safe /\ Owned(pat, grants) /\ HeldOnce
    BY <1>2, <1>12 DEF IInv, Safe
  <2>2. grants[page] = 1 /\ page \notin Unusable /\ MarkedIn(pat, page)
    BY <1>4, <2>1 DEF HeldOnce, Owned
  <2>3. Owned(pat, grants')
    BY <1>9, <2>1, <2>2 DEF Owned
  <2>4. \A q \in Procs : page \notin held'[q] /\ held'[q] \subseteq held[q] /\ held[q] \subseteq Pages
    BY <1>3, <1>10, <2>1 DEF HeldOnce
  <2>5. HeldOnce'
    <3>1. \A q \in Procs : \A x \in held'[q] : grants'[x] = 1 /\ x \notin Unusable
      BY <1>9, <2>1, <2>4 DEF HeldOnce
    <3>2. \A q, r \in Procs : q # r => held'[q] \cap held'[r] = {}
      BY <2>1, <2>4 DEF HeldOnce
    <3> QED BY <3>1, <3>2 DEF HeldOnce
  <2>6. ASSUME NEW q \in Procs PROVE Seen(call[q])'
    <3>1. CASE q = p
      <4>1. grants'[page] = 0
        BY <1>9, <2>2
      <4> QED BY <1>1, <1>2, <1>6, <1>8, <2>2, <3>1, <4>1 DEF Seen, Marked, MarkedIn
    <3>2. CASE q # p
      <4>1. Seen(call[q]) /\ call'[q] = call[q] /\ call[q].page \in Pages
        BY <1>3, <1>8, <2>1, <3>2 DEF Safe, Calling
      <4>2. call[q].at \in {"return", "free"} => grants'[call[q].page] = 0
        BY <1>9, <2>2, <4>1 DEF Seen
      <4> QED BY <1>1, <4>1, <4>2 DEF Seen, Scanned, Marked
    <3> QED BY <3>1, <3>2
  <2> QED BY <1>1, <1>2, <2>3, <2>5, <2>6 DEF Safe, Owned
<1> QED BY <1>1, <1>11, <1>12 DEF IInv

\* The byte with one bit less is written back.
LEMMA FreeStoreOK ==
  ASSUME IInv, NEW p \in Procs, free_store(p)
  PROVE  IInv'
<1>1. /\ last_availible' = last_availible /\ grants' = grants /\ held' = held /\ panic' = panic
      /\ Touched(p)
  BY DEF free_store
<1>2. PICK d \in Calling : d = call[p] /\ d.at = "free"
  BY DEF IInv, Typed, free_store, Moves
<1>3. PICK pat \in [Bytes -> SUBSET Bits] : pat = page_availibility_table
  BY DEF IInv, Typed
<1>4. d.index \in Bytes /\ d.page \in Pages /\ d.byte \subseteq Bits
  BY <1>2 DEF Calling
<1>5. PICK new : new = [pat EXCEPT ![d.index] = d.byte \ {bit(d.page)}]
  OBVIOUS
<1>6. page_availibility_table' = new
  BY <1>2, <1>3, <1>5 DEF free_store
<1>7. new \in [Bytes -> SUBSET Bits]
  BY <1>4, <1>5
<1>8. PICK c \in Calling : c = NoCall /\ c.at = "none"
  BY NoCallOK
<1>9. Seen(c)' /\ call' = [call EXCEPT ![p] = c]
  BY <1>8 DEF Seen, free_store
<1>10. ASSUME ~overlap, Safe
       PROVE  Owned(page_availibility_table, grants)' /\ HeldOnce'
  <2>1. Seen(d) /\ Owned(pat, grants) /\ HeldOnce
    BY <1>2, <1>3, <1>10 DEF Safe
  <2>2. d.index = index(d.page) /\ d.byte = pat[d.index]
    BY <1>2, <1>3, <2>1 DEF Seen
  <2>3. grants[d.page] = 0 /\ d.page \notin Unusable
    BY <1>2, <2>1 DEF Seen
  <2>4. \A x \in Pages : x # d.page /\ MarkedIn(pat, x) => MarkedIn(new, x)
    <3> SUFFICES ASSUME NEW x \in Pages, x # d.page, MarkedIn(pat, x) PROVE MarkedIn(new, x)
      OBVIOUS
    <3>1. index(x) \in Bytes
      BY PageIs
    <3>2. index(x) # index(d.page) \/ bit(x) # bit(d.page)
      BY <1>4, OtherPages
    <3> QED BY <1>3, <1>4, <1>5, <2>2, <3>1, <3>2 DEF MarkedIn
  <2>5. Owned(new, grants)
    BY <2>1, <2>3, <2>4 DEF Owned
  <2>6. HeldOnce'
    BY <1>1, <2>1 DEF HeldOnce
  <2> QED BY <1>1, <1>6, <2>5, <2>6 DEF Owned
<1>11. /\ page_availibility_table' \in [Bytes -> SUBSET Bits] /\ last_availible' \in Bytes
       /\ grants' \in [Pages -> Int] /\ held' \in [Procs -> SUBSET Pages]
  BY <1>1, <1>6, <1>7 DEF IInv, Typed
<1> QED BY <1>1, <1>9, <1>10, <1>11, AloneOK

\* Every step keeps the invariant, and panics only when the table is full or
\* mmap is used where it must not be.
LEMMA StepOK ==
  ASSUME IInv, Next
  PROVE  /\ IInv'
         /\ ~panic /\ panic' /\ ~overlap' =>
              \/ Full(page_availibility_table')
              \/ \E p \in Procs, a \in MmapArgs :
                    sys_mmap(p, a) /\ (memory[p] = page_directory \/ a.v < SECOND_PDE)
<1>1. CASE \E p, q \in Procs : sys_fork(p, q)
  BY <1>1, ForkOK DEF sys_fork
<1>2. CASE \E p \in Procs, prio \in Prios : sys_exec(p, prio)
  BY <1>2, ExecOK
<1>3. CASE \E p \in Procs, a \in MmapArgs : sys_mmap(p, a)
  BY <1>3, SysMmapOK
<1>4. CASE \E p \in Procs : sys_exit(p)
  <2>1. IInv'
    BY <1>4, ExitOK
  <2>2. panic' = panic
    BY <1>4 DEF sys_exit
  <2> QED BY <2>1, <2>2, Zenon
<1>5. CASE \E p \in Procs : malloc_start(p)
  <2>1. IInv'
    BY <1>5, StartOK
  <2>2. panic' = panic
    BY <1>5 DEF malloc_start
  <2> QED BY <2>1, <2>2, Zenon
<1>6. CASE \E p \in Procs : malloc_scan(p)
  <2>1. IInv' /\ (~overlap /\ panic' => Full(page_availibility_table'))
    BY <1>6, ScanOK
  <2>2. overlap' = overlap
    BY <1>6 DEF malloc_scan
  <2> QED BY <2>1, <2>2, Zenon
<1>7. CASE \E p \in Procs : set_pat_load(p)
  <2>1. IInv'
    BY <1>7, LoadOK
  <2>2. panic' = panic
    BY <1>7 DEF set_pat_load
  <2> QED BY <2>1, <2>2, Zenon
<1>8. CASE \E p \in Procs : set_pat_store(p)
  <2>1. IInv'
    BY <1>8, StoreOK
  <2>2. panic' = panic
    BY <1>8 DEF set_pat_store
  <2> QED BY <2>1, <2>2, Zenon
<1>9. CASE \E p \in Procs : malloc_return(p)
  <2>1. IInv'
    BY <1>9, ReturnOK
  <2>2. panic' = panic
    BY <1>9 DEF malloc_return
  <2> QED BY <2>1, <2>2, Zenon
<1>10. CASE \E p \in Procs : \E page \in held[p] : free_load(p, page)
  <2>1. IInv'
    BY <1>10, FreeLoadOK
  <2>2. panic' = panic
    BY <1>10 DEF free_load
  <2> QED BY <2>1, <2>2, Zenon
<1>11. CASE \E p \in Procs : free_store(p)
  <2>1. IInv'
    BY <1>11, FreeStoreOK
  <2>2. panic' = panic
    BY <1>11 DEF free_store
  <2> QED BY <2>1, <2>2, Zenon
<1>12. CASE Halted
  <2>1. PICK p \in Procs : p = InitProc
    BY MemoryAssumption
  <2> QED BY <1>12, <2>1, ForkOK DEF Halted, vars
<1> QED BY <1>1, <1>2, <1>3, <1>4, <1>5, <1>6, <1>7, <1>8, <1>9, <1>10, <1>11, <1>12 DEF Next

-----------------------------------------------------------------------------
(***************************************************************************)
(* What the pages are used for.  Besides those that belong to processes or *)
(* to nobody ("other") there are the tables that map 1:1, the directories  *)
(* that exec has made, their tables and the frames that mmap has mapped.   *)
(* mm is the contents of pages, gr how often they are given out, kind      *)
(* their roles, home the directory and entry of each table, H the pages    *)
(* that processes have from malloc.                                        *)
(***************************************************************************)
Roles == {"other", "identity", "dir", "table", "frame"}
Contents == [Pages -> [Entries -> Pages]]

\* the tables that map 1:1, as setup_initial_page_table leaves them
Identity == setup_initial_page_table.mem

Kept(gr, kind, H) ==
  /\ \A x \in Pages : kind[x] # "other" => gr[x] = 1 /\ x \notin Unusable /\ x \notin H
  /\ \A x \in H : x \in Pages /\ gr[x] = 1

Fixed(mm, kind) ==
  \A x \in IdentityTables : x \in Pages /\ kind[x] = "identity" /\ mm[x] = Identity[x]

IsTable(t, kind, home, d, e) == t = NULL \/ (kind[t] = "table" /\ home[t] = <<d, e>>)

Dirs(mm, kind, home) ==
  \A d \in Pages : kind[d] = "dir" =>
     /\ mm[d][0] = page_table
     /\ \A e \in Entries \ {0} : IsTable(mm[d][e], kind, home, d, e)

IsFrame(w, kind) == w \in Unusable \/ kind[w] = "frame"

Tabs(mm, kind) ==
  \A t \in Pages : kind[t] = "table" => \A f \in Entries : IsFrame(mm[t][f], kind)

Ground(mm, gr, kind, home, H) ==
  /\ mm \in Contents /\ gr \in [Pages -> Int] /\ kind \in [Pages -> Roles]
  /\ Kept(gr, kind, H) /\ Fixed(mm, kind) /\ Dirs(mm, kind, home) /\ Tabs(mm, kind)

\* the roles of k are still those of l
Extends(k, l) == \A x \in Pages : k[x] # "other" => l[x] = k[x]

\* what entry f of the table at entry e of directory d stands for
Phys(mm, d, e, f) == IF mm[d][e] = NULL THEN NULL ELSE mm[mm[d][e]][f]

\* the address spaces see in mn what they saw in mm, except at X
SameView(mm, mn, kind, X) ==
  \A d \in Pages : kind[d] = "dir" =>
     \A e, f \in Entries : <<d, e, f>> \notin X => Phys(mn, d, e, f) = Phys(mm, d, e, f)

\* The entries of a directory and of a table.
LEMMA GroundEntries ==
  ASSUME NEW mm, NEW gr, NEW kind, NEW home, NEW H, Ground(mm, gr, kind, home, H),
         NEW d \in Pages, kind[d] = "dir", NEW e \in Entries
  PROVE  /\ mm[d][e] \in Pages
         /\ mm[d][e] = NULL \/ kind[mm[d][e]] \in {"identity", "table"}
         /\ kind[mm[d][e]] = "table" => e # 0 /\ home[mm[d][e]] = <<d, e>>
<1>1. mm \in Contents /\ kind \in [Pages -> Roles]
  BY DEF Ground
<1>2. mm[d][e] \in Pages
  BY <1>1 DEF Contents
<1>3. kind[NULL] = "other"
  BY Constants DEF Ground, Kept
<1>4. 0 \in Entries
  BY Constants DEF Entries
<1>5. page_table \in IdentityTables
  BY <1>4 DEF page_table, IdentityTables
<1>6. kind[page_table] = "identity"
  BY <1>5 DEF Ground, Fixed
<1>7. CASE e = 0
  BY <1>2, <1>6, <1>7 DEF Ground, Dirs
<1>8. CASE e # 0
  <2>1. IsTable(mm[d][e], kind, home, d, e)
    BY <1>8 DEF Ground, Dirs
  <2> QED BY <1>2, <1>3, <1>8, <2>1 DEF IsTable
<1> QED BY <1>7, <1>8

\* A view that no table and no directory changes.
LEMMA ViewKept ==
  ASSUME NEW mm, NEW mn, NEW gr, NEW kind, NEW home, NEW H, Ground(mm, gr, kind, home, H),
         \A x \in Pages : kind[x] \in {"identity", "dir", "table"} => mn[x] = mm[x],
         NEW X
  PROVE  SameView(mm, mn, kind, X)
<1> SUFFICES ASSUME NEW d \in Pages, kind[d] = "dir", NEW e \in Entries, NEW f \in Entries
             PROVE  Phys(mn, d, e, f) = Phys(mm, d, e, f)
  BY DEF SameView
<1>1. /\ mm[d][e] \in Pages
      /\ mm[d][e] = NULL \/ kind[mm[d][e]] \in {"identity", "table"}
  BY GroundEntries
<1>2. mn[d] = mm[d]
  OBVIOUS
<1>3. PICK t : t = mm[d][e]
  OBVIOUS
<1>4. t # NULL => mn[t] = mm[t]
  BY <1>1, <1>3
<1> QED BY <1>2, <1>3, <1>4 DEF Phys

\* One change after another.
LEMMA ViewTwice ==
  ASSUME NEW mm, NEW mn, NEW mo, NEW k, NEW l, NEW X,
         SameView(mm, mn, k, X), SameView(mn, mo, l, X), Extends(k, l)
  PROVE  SameView(mm, mo, k, X)
<1> SUFFICES ASSUME NEW d \in Pages, k[d] = "dir", NEW e \in Entries, NEW f \in Entries,
                    <<d, e, f>> \notin X
             PROVE  Phys(mo, d, e, f) = Phys(mm, d, e, f)
  BY DEF SameView
<1>1. l[d] = "dir"
  BY DEF Extends
<1>2. Phys(mo, d, e, f) = Phys(mn, d, e, f)
  BY <1>1 DEF SameView
<1>3. Phys(mn, d, e, f) = Phys(mm, d, e, f)
  BY DEF SameView
<1> QED BY <1>2, <1>3

\* The changes that one assignment makes: a row of mm, an entry of a row, a
\* count, a role, a home.
PutRow(mm, mn, x, z) == mn = [mm EXCEPT ![x] = z]
Put(mm, mn, x, e, w) == mn = [mm EXCEPT ![x][e] = w]
CountUp(gr, gn, x) == gn = [gr EXCEPT ![x] = @ + 1]
NewRole(kind, k, x, r) == k = [kind EXCEPT ![x] = r]
NewHome(home, h, x, y) == h = [z \in Pages |-> IF z = x THEN y ELSE home[z]]

\* How a new page looks in each of its roles.
Blank(z, r) ==
  \/ r = "dir" /\ z = [Zero EXCEPT ![0] = page_table]
  \/ r \in {"table", "frame"} /\ z = Zero

\* A page of nobody gets a role.
LEMMA GroundNew ==
  ASSUME NEW mm, NEW gr, NEW kind, NEW home, NEW H, Ground(mm, gr, kind, home, H),
         NEW x \in Pages, gr[x] = 0, x \notin Unusable,
         NEW z, NEW r, Blank(z, r), NEW mn, PutRow(mm, mn, x, z),
         NEW gn, CountUp(gr, gn, x), NEW k2, NewRole(kind, k2, x, r),
         NEW h2, NEW hm, NewHome(home, hm, x, h2)
  PROVE  /\ Ground(mn, gn, k2, hm, H) /\ Extends(kind, k2)
         /\ k2[x] = r /\ hm[x] = h2 /\ \A X : SameView(mm, mn, kind, X)
<1>1. /\ mm \in Contents /\ gr \in [Pages -> Int] /\ kind \in [Pages -> Roles]
      /\ Kept(gr, kind, H) /\ Fixed(mm, kind) /\ Dirs(mm, kind, home) /\ Tabs(mm, kind)
  BY DEF Ground
<1>2. kind[x] = "other" /\ x \notin H /\ x # NULL
  BY <1>1, Constants DEF Kept
<1>3. /\ 0 \in Entries /\ NULL \in Pages /\ NULL \in Unusable
  BY Constants DEF Entries
<1>4. page_table \in IdentityTables /\ page_table \in Pages
  <2>1. page_table \in IdentityTables
    BY <1>3 DEF page_table, IdentityTables
  <2> QED BY <2>1, <1>1 DEF Fixed
<1>5. Zero \in [Entries -> Pages] /\ \A e \in Entries : Zero[e] = NULL
  BY <1>3 DEF Zero
<1>6. z \in [Entries -> Pages] /\ r \in Roles \ {"other", "identity"}
  BY <1>4, <1>5 DEF Blank, Roles
<1>7. /\ mn \in Contents /\ mn[x] = z /\ \A y \in Pages : y # x => mn[y] = mm[y]
  BY <1>1, <1>6 DEF Contents, PutRow
<1>8. /\ gn \in [Pages -> Int] /\ gn[x] = 1 /\ \A y \in Pages : y # x => gn[y] = gr[y]
  BY <1>1 DEF CountUp
<1>9. /\ k2 \in [Pages -> Roles] /\ k2[x] = r /\ \A y \in Pages : y # x => k2[y] = kind[y]
  BY <1>1, <1>6 DEF NewRole
<1>10. hm[x] = h2 /\ \A y \in Pages : y # x => hm[y] = home[y]
  BY DEF NewHome
<1>11. Kept(gn, k2, H)
  BY <1>1, <1>2, <1>8, <1>9 DEF Kept
<1>12. Fixed(mn, k2)
  BY <1>1, <1>2, <1>7, <1>9 DEF Fixed
<1>13. Dirs(mn, k2, hm)
  <2> SUFFICES ASSUME NEW d \in Pages, k2[d] = "dir"
               PROVE  /\ mn[d][0] = page_table
                      /\ \A e \in Entries \ {0} : IsTable(mn[d][e], k2, hm, d, e)
    BY DEF Dirs
  <2>1. CASE d = x
    <3>1. z = [Zero EXCEPT ![0] = page_table]
      BY <2>1, <1>9 DEF Blank
    <3>2. z[0] = page_table /\ \A e \in Entries \ {0} : z[e] = NULL
      BY <3>1, <1>3, <1>5
    <3> QED BY <3>2, <2>1, <1>7 DEF IsTable
  <2>2. CASE d # x
    <3>1. kind[d] = "dir" /\ mn[d] = mm[d]
      BY <2>2, <1>7, <1>9
    <3>2. mm[d][0] = page_table
      BY <3>1, <1>1 DEF Dirs
    <3>3. ASSUME NEW e \in Entries \ {0} PROVE IsTable(mn[d][e], k2, hm, d, e)
      <4>1. PICK t : t = mm[d][e]
        OBVIOUS
      <4>2. t \in Pages /\ IsTable(t, kind, home, d, e)
        BY <4>1, <3>1, <1>1 DEF Dirs, Contents
      <4>3. t # NULL => t # x
        BY <4>2, <1>2 DEF IsTable
      <4>4. IsTable(t, k2, hm, d, e)
        BY <4>2, <4>3, <1>9, <1>10 DEF IsTable
      <4> QED BY <4>1, <4>4, <3>1
    <3> QED BY <3>1, <3>2, <3>3
  <2> QED BY <2>1, <2>2
<1>14. Tabs(mn, k2)
  <2> SUFFICES ASSUME NEW t \in Pages, k2[t] = "table", NEW f \in Entries
               PROVE  IsFrame(mn[t][f], k2)
    BY DEF Tabs
  <2>1. CASE t = x
    <3>1. z = Zero
      BY <2>1, <1>9 DEF Blank
    <3> QED BY <3>1, <2>1, <1>3, <1>5, <1>7 DEF IsFrame
  <2>2. CASE t # x
    <3>1. PICK w : w = mm[t][f]
      OBVIOUS
    <3>2. w \in Pages /\ IsFrame(w, kind) /\ mn[t][f] = w
      BY <3>1, <2>2, <1>1, <1>7, <1>9 DEF Tabs, Contents
    <3>3. IsFrame(w, k2)
      BY <3>2, <1>2, <1>9 DEF IsFrame
    <3> QED BY <3>2, <3>3
  <2> QED BY <2>1, <2>2
<1>15. Ground(mn, gn, k2, hm, H)
  BY <1>7, <1>8, <1>9, <1>11, <1>12, <1>13, <1>14 DEF Ground
<1>16. Extends(kind, k2)
  BY <1>2, <1>9 DEF Extends
<1>17. \A X : SameView(mm, mn, kind, X)
  <2>1. \A y \in Pages : kind[y] \in {"identity", "dir", "table"} => mn[y] = mm[y]
    BY <1>2, <1>7
  <2> QED BY <2>1, ViewKept
<1> QED BY <1>9, <1>10, <1>15, <1>16, <1>17

\* A new table is entered into its directory.
LEMMA GroundLink ==
  ASSUME NEW mm, NEW gr, NEW kind, NEW home, NEW H, Ground(mm, gr, kind, home, H),
         NEW d \in Pages, kind[d] = "dir", NEW e \in Entries, e # 0, mm[d][e] = NULL,
         NEW t \in Pages, kind[t] = "table", home[t] = <<d, e>>, mm[t] = Zero,
         NEW mn, Put(mm, mn, d, e, t)
  PROVE  /\ Ground(mn, gr, kind, home, H) /\ mn[d][e] = t
         /\ \A X : SameView(mm, mn, kind, X)
<1>1. /\ mm \in Contents /\ gr \in [Pages -> Int] /\ kind \in [Pages -> Roles]
      /\ Kept(gr, kind, H) /\ Fixed(mm, kind) /\ Dirs(mm, kind, home) /\ Tabs(mm, kind)
  BY DEF Ground
<1>2. /\ mn \in Contents /\ mn[d][e] = t
      /\ \A g \in Entries : g # e => mn[d][g] = mm[d][g]
      /\ \A y \in Pages : y # d => mn[y] = mm[y]
  BY <1>1 DEF Contents, Put
<1>3. Fixed(mn, kind)
  BY <1>1, <1>2 DEF Fixed
<1>4. Dirs(mn, kind, home)
  <2> SUFFICES ASSUME NEW d2 \in Pages, kind[d2] = "dir"
               PROVE  /\ mn[d2][0] = page_table
                      /\ \A g \in Entries \ {0} : IsTable(mn[d2][g], kind, home, d2, g)
    BY DEF Dirs
  <2>1. 0 \in Entries
    BY Constants DEF Entries
  <2>2. mn[d2][0] = mm[d2][0]
    BY <2>1, <1>2
  <2>3. ASSUME NEW g \in Entries \ {0} PROVE IsTable(mn[d2][g], kind, home, d2, g)
    <3>1. CASE d2 = d /\ g = e
      BY <3>1, <1>2 DEF IsTable
    <3>2. CASE ~(d2 = d /\ g = e)
      <4>1. mn[d2][g] = mm[d2][g]
        BY <3>2, <1>2
      <4>2. IsTable(mm[d2][g], kind, home, d2, g)
        BY <1>1 DEF Dirs
      <4> QED BY <4>1, <4>2
    <3> QED BY <3>1, <3>2
  <2> QED BY <2>2, <2>3, <1>1 DEF Dirs
<1>5. Tabs(mn, kind)
  BY <1>1, <1>2 DEF Tabs
<1>6. ASSUME NEW X PROVE SameView(mm, mn, kind, X)
  <2> SUFFICES ASSUME NEW d2 \in Pages, kind[d2] = "dir", NEW g \in Entries, NEW f \in Entries
               PROVE  Phys(mn, d2, g, f) = Phys(mm, d2, g, f)
    BY DEF SameView
  <2>1. CASE d2 = d /\ g = e
    <3>1. mn[t] = Zero /\ Zero[f] = NULL /\ mn[d][e] = t
      BY <1>2 DEF Zero
    <3> QED BY <3>1, <2>1 DEF Phys
  <2>2. CASE ~(d2 = d /\ g = e)
    <3>1. PICK u : u = mm[d2][g]
      OBVIOUS
    <3>2. mn[d2][g] = u
      BY <3>1, <2>2, <1>2
    <3>3. u \in Pages /\ (u = NULL \/ kind[u] \in {"identity", "table"})
      BY <3>1, GroundEntries
    <3>4. u # NULL => mn[u] = mm[u]
      BY <3>3, <1>2
    <3> QED BY <3>1, <3>2, <3>4 DEF Phys
  <2> QED BY <2>1, <2>2
<1> QED BY <1>1, <1>2, <1>3, <1>4, <1>5, <1>6 DEF Ground

\* A frame is entered into a table: only there the view changes.
LEMMA GroundMap ==
  ASSUME NEW mm, NEW gr, NEW kind, NEW home, NEW H, Ground(mm, gr, kind, home, H),
         NEW d \in Pages, kind[d] = "dir", NEW e \in Entries, e # 0, NEW f \in Entries,
         NEW t, t = mm[d][e], t # NULL, NEW w \in Pages, IsFrame(w, kind),
         NEW X, <<d, e, f>> \in X, NEW mn, Put(mm, mn, t, f, w)
  PROVE  Ground(mn, gr, kind, home, H) /\ SameView(mm, mn, kind, X)
<1>1. /\ mm \in Contents /\ gr \in [Pages -> Int] /\ kind \in [Pages -> Roles]
      /\ Kept(gr, kind, H) /\ Fixed(mm, kind) /\ Dirs(mm, kind, home) /\ Tabs(mm, kind)
  BY DEF Ground
<1>2. t \in Pages
  BY GroundEntries
<1>3. kind[t] = "table" /\ home[t] = <<d, e>>
  BY <1>1, <1>2 DEF Dirs, IsTable
<1>4. /\ mn \in Contents /\ mn[t][f] = w
      /\ \A g \in Entries : g # f => mn[t][g] = mm[t][g]
      /\ \A y \in Pages : y # t => mn[y] = mm[y]
  BY <1>1, <1>2 DEF Contents, Put
<1>5. Fixed(mn, kind)
  BY <1>1, <1>3, <1>4 DEF Fixed
<1>6. Dirs(mn, kind, home)
  BY <1>1, <1>3, <1>4 DEF Dirs
<1>7. Tabs(mn, kind)
  BY <1>1, <1>3, <1>4 DEF Tabs
<1>8. SameView(mm, mn, kind, X)
  <2> SUFFICES ASSUME NEW d2 \in Pages, kind[d2] = "dir", NEW g \in Entries, NEW j \in Entries,
                      <<d2, g, j>> \notin X
               PROVE  Phys(mn, d2, g, j) = Phys(mm, d2, g, j)
    BY DEF SameView
  <2>1. PICK u : u = mm[d2][g]
    OBVIOUS
  <2>2. mn[d2][g] = u /\ u \in Pages
    BY <2>1, <1>1, <1>3, <1>4 DEF Contents
  <2>3. u = t => d2 = d /\ g = e
    <3>1. kind[mm[d2][g]] = "table" => home[mm[d2][g]] = <<d2, g>>
      BY GroundEntries
    <3>2. u = t => <<d2, g>> = <<d, e>>
      BY <3>1, <2>1, <1>3
    <3> QED BY <3>2
  <2>4. u = t => j # f
    BY <2>3
  <2>5. mn[u][j] = mm[u][j]
    BY <2>2, <2>4, <1>4
  <2> QED BY <2>1, <2>2, <2>5 DEF Phys
<1> QED BY <1>1, <1>4, <1>5, <1>6, <1>7, <1>8 DEF Ground

\* A page that is neither a table nor a directory is wiped.
LEMMA GroundWipe ==
  ASSUME NEW mm, NEW gr, NEW kind, NEW home, NEW H, Ground(mm, gr, kind, home, H),
         NEW x \in Pages, kind[x] \in {"other", "frame"},
         NEW mn, PutRow(mm, mn, x, Zero), NEW X
  PROVE  Ground(mn, gr, kind, home, H) /\ SameView(mm, mn, kind, X)
<1>1. /\ mm \in Contents /\ gr \in [Pages -> Int] /\ kind \in [Pages -> Roles]
      /\ Kept(gr, kind, H) /\ Fixed(mm, kind) /\ Dirs(mm, kind, home) /\ Tabs(mm, kind)
  BY DEF Ground
<1>2. Zero \in [Entries -> Pages]
  BY Constants DEF Zero
<1>3. mn \in Contents /\ \A y \in Pages : y # x => mn[y] = mm[y]
  BY <1>1, <1>2 DEF Contents, PutRow
<1>4. \A y \in Pages : kind[y] \in {"identity", "dir", "table"} => mn[y] = mm[y]
  BY <1>3
<1>5. Fixed(mn, kind)
  BY <1>1, <1>4 DEF Fixed
<1>6. Dirs(mn, kind, home) /\ Tabs(mn, kind)
  BY <1>1, <1>4 DEF Dirs, Tabs
<1>7. SameView(mm, mn, kind, X)
  BY <1>4, ViewKept
<1> QED BY <1>1, <1>3, <1>5, <1>6, <1>7 DEF Ground

\* The books and the layout of a record of the globals.
Lies(m, kind, home, H) ==
  Books(m) /\ Owned(m.pat, m.grants) /\ Ground(m.mem, m.grants, kind, home, H)

\* n lies as m does, and the address spaces of mm see what they saw there
Follows(mm, kind, n, X, H) ==
  \E k, h : Lies(n, k, h, H) /\ Extends(kind, k) /\ SameView(mm, n.mem, kind, X)

\* get_next_page from m to n: no page, or page x
Stuck(m, n) == n.mem = m.mem /\ n.grants = m.grants /\ n.panic = TRUE
Fresh(m, n, x) ==
  /\ x \in Pages /\ m.grants[x] = 0 /\ x \notin Unusable
  /\ n.got = x /\ m.panic = FALSE /\ n.panic = FALSE
  /\ PutRow(m.mem, n.mem, x, Zero) /\ CountUp(m.grants, n.grants, x)

\* get_next_page gives out a page of nobody.
LEMMA GetNextIs ==
  ASSUME NEW m, Books(m), Owned(m.pat, m.grants), NEW n, n = get_next_page(m)
  PROVE  /\ Books(n) /\ Owned(n.pat, n.grants)
         /\ Stuck(m, n) \/ \E x : Fresh(m, n, x)
<1>1. Books(n) /\ Owned(n.pat, n.grants)
  BY GetNextOK DEF Grown
<1> DEFINE at == (m.last + Min(open(m))) % PAT_SIZE
           b == Min(Bits \ m.pat[at])
           page == at * BITS + b
           n1 == [m EXCEPT !.panic = TRUE]
           n2 == grant(m, at, page)
<1>2. n = IF m.panic \/ open(m) = {} THEN n1 ELSE n2
  BY DEF get_next_page, first_free
<1>3. /\ m.pat \in [Bytes -> SUBSET Bits] /\ m.last \in Bytes
      /\ m.grants \in [Pages -> Int] /\ m.panic \in BOOLEAN
      /\ DOMAIN m = {"pat", "last", "mem", "grants", "got", "panic"}
  BY DEF Books
<1>4. CASE m.panic \/ open(m) = {}
  <2>1. Stuck(m, n1)
    BY <1>3 DEF Stuck
  <2> QED BY <1>1, <1>2, <1>4, <2>1
<1>5. CASE ~(m.panic \/ open(m) = {})
  <2>1. at \in Bytes /\ m.pat[at] # Bits
    <3>1. open(m) \subseteq Nat /\ open(m) # {}
      BY <1>5, Constants DEF Bytes, open
    <3>2. Min(open(m)) \in open(m)
      BY <3>1, MinIs
    <3>3. Min(open(m)) \in Bytes /\ m.pat[(m.last + Min(open(m))) % PAT_SIZE] # Bits
      BY <3>2 DEF open
    <3> QED BY <1>3, <3>3, Around
  <2> HIDE DEF at
  <2>2. b \in Bits /\ b \notin m.pat[at]
    <3> DEFINE S == Bits \ m.pat[at]
    <3>1. S \subseteq Nat /\ S # {}
      <4>1. m.pat[at] \subseteq Bits
        BY <1>3, <2>1
      <4>2. Bits \subseteq Nat
        BY Constants DEF Bits
      <4> QED BY <2>1, <4>1, <4>2
    <3>2. Min(S) \in S
      <4> HIDE DEF S
      <4> QED BY <3>1, MinIs
    <3> QED BY <3>2
  <2> HIDE DEF b
  <2>3. page \in Pages /\ index(page) = at /\ bit(page) = b
    BY <2>1, <2>2, PageOf
  <2> HIDE DEF page
  <2>4. ~MarkedIn(m.pat, page)
    BY <2>2, <2>3 DEF MarkedIn
  <2>5. m.grants[page] = 0 /\ page \notin Unusable
    BY <2>3, <2>4 DEF Owned
  <2>6. /\ n2.got = page /\ n2.panic = m.panic
        /\ n2.mem = [m.mem EXCEPT ![page] = Zero]
        /\ n2.grants = [m.grants EXCEPT ![page] = @ + 1]
    BY <1>3 DEF grant
  <2> HIDE DEF n2
  <2>7. Fresh(m, n2, page)
    BY <1>3, <1>5, <2>3, <2>5, <2>6 DEF Fresh, PutRow, CountUp
  <2> QED BY <1>1, <1>2, <1>5, <2>7
<1> QED BY <1>4, <1>5

\* A record with the same contents lies the same way.
LEMMA LiesSame ==
  ASSUME NEW m, NEW n, NEW kind, NEW home, NEW H, Lies(m, kind, home, H),
         Books(n), Owned(n.pat, n.grants), n.mem = m.mem, n.grants = m.grants
  PROVE  Lies(n, kind, home, H)
BY DEF Lies

LEMMA FollowsSelf ==
  ASSUME NEW m, NEW kind, NEW home, NEW H, Lies(m, kind, home, H), NEW mm, mm = m.mem, NEW X
  PROVE  Follows(mm, kind, m, X, H)
<1>1. Extends(kind, kind) /\ SameView(mm, m.mem, kind, X)
  BY DEF Extends, SameView
<1> QED BY <1>1 DEF Follows

LEMMA FollowsTwice ==
  ASSUME NEW mm, NEW kind, NEW n, NEW k, NEW h, NEW o, NEW X, NEW H,
         Extends(kind, k), SameView(mm, n.mem, kind, X), Follows(n.mem, k, o, X, H)
  PROVE  Follows(mm, kind, o, X, H)
<1>1. PICK l, g : Lies(o, l, g, H) /\ Extends(k, l) /\ SameView(n.mem, o.mem, k, X)
  BY DEF Follows
<1>2. Extends(kind, l)
  BY <1>1 DEF Extends
<1>3. SameView(mm, o.mem, kind, X)
  BY <1>1, ViewTwice
<1> QED BY <1>1, <1>2, <1>3 DEF Follows

\* an entry of a page is written
Write(m, n, x, e, w) == n = [m EXCEPT !.mem[x][e] = w]

\* That leaves the rest of the record.
LEMMA WriteIs ==
  ASSUME NEW m, Books(m), NEW x, NEW e, NEW w, NEW n, Write(m, n, x, e, w)
  PROVE  /\ Books(n) /\ Put(m.mem, n.mem, x, e, w) /\ n.grants = m.grants
         /\ n.pat = m.pat /\ n.panic = m.panic /\ n.got = m.got /\ n.last = m.last
BY DEF Books, Write, Put

\* n is m with role r for page x
Gains(m, kind, n, x, r, h2, H) ==
  \E k, h : /\ Lies(n, k, h, H) /\ Extends(kind, k)
            /\ \A X : SameView(m.mem, n.mem, kind, X)
            /\ k[x] = r /\ h[x] = h2

\* A page that has no role gets one.
LEMMA LiesNew ==
  ASSUME NEW m, NEW kind, NEW home, NEW H, Lies(m, kind, home, H),
         NEW n, Books(n), Owned(n.pat, n.grants), NEW x, Fresh(m, n, x),
         NEW r \in {"table", "frame"}, NEW h2
  PROVE  Gains(m, kind, n, x, r, h2, H)
<1>1. Ground(m.mem, m.grants, kind, home, H)
  BY DEF Lies
<1>2. Blank(Zero, r)
  BY DEF Blank
<1>3. /\ x \in Pages /\ m.grants[x] = 0 /\ x \notin Unusable
      /\ PutRow(m.mem, n.mem, x, Zero) /\ CountUp(m.grants, n.grants, x)
  BY DEF Fresh
<1>4. PICK k, h : NewRole(kind, k, x, r) /\ NewHome(home, h, x, h2)
  BY DEF NewRole, NewHome
<1>5. PICK mm, gr, mn, gn : mm = m.mem /\ gr = m.grants /\ mn = n.mem /\ gn = n.grants
  OBVIOUS
<1>6. /\ Ground(mn, gn, k, h, H) /\ Extends(kind, k) /\ k[x] = r /\ h[x] = h2
      /\ \A X : SameView(mm, mn, kind, X)
  BY <1>1, <1>2, <1>3, <1>4, <1>5, GroundNew
<1> QED BY <1>5, <1>6 DEF Lies, Gains

\* a directory with a table for entry e, and a record with a frame
WithTable(m, dir, e, t, d) ==
  d = IF m.mem[dir][e] # NULL THEN m
      ELSE IF t.panic THEN t ELSE [t EXCEPT !.mem[dir][e] = t.got]
WithFrame(d, p, f) == f = IF p = NULL THEN get_next_page(d) ELSE [d EXCEPT !.got = p]

\* The first half of a round: the directory has a table, or there is no page.
LEMMA TableThere ==
  ASSUME NEW m, NEW kind, NEW home, NEW H, Lies(m, kind, home, H),
         NEW dir \in Pages, kind[dir] = "dir", NEW e \in Entries, e # 0, NEW X,
         NEW t, t = get_next_page(m), NEW d, WithTable(m, dir, e, t, d)
  PROVE  \E k, h : /\ Lies(d, k, h, H) /\ Extends(kind, k) /\ SameView(m.mem, d.mem, kind, X)
                   /\ d.panic \/ d.mem[dir][e] # NULL
<1>1. Books(m) /\ Owned(m.pat, m.grants) /\ Ground(m.mem, m.grants, kind, home, H)
  BY DEF Lies
<1>2. Extends(kind, kind) /\ SameView(m.mem, m.mem, kind, X)
  BY DEF Extends, SameView
<1>3. CASE m.mem[dir][e] # NULL
  <2>1. d = m
    BY <1>3 DEF WithTable
  <2> QED BY <1>2, <1>3, <2>1
<1>4. CASE m.mem[dir][e] = NULL
  <2>1. Books(t) /\ Owned(t.pat, t.grants) /\ (Stuck(m, t) \/ \E x : Fresh(m, t, x))
    BY <1>1, GetNextIs
  <2>2. CASE Stuck(m, t)
    <3>1. d = t /\ t.panic
      BY <1>4, <2>2 DEF Stuck, WithTable
    <3>2. Lies(t, kind, home, H)
      BY <2>1, <2>2, LiesSame DEF Stuck
    <3>3. SameView(m.mem, t.mem, kind, X)
      BY <1>2, <2>2 DEF Stuck
    <3> QED BY <1>2, <3>1, <3>2, <3>3
  <2>3. ASSUME NEW x, Fresh(m, t, x) PROVE \E k, h :
            /\ Lies(d, k, h, H) /\ Extends(kind, k) /\ SameView(m.mem, d.mem, kind, X)
            /\ d.panic \/ d.mem[dir][e] # NULL
    <3>1. PICK k, h : /\ Lies(t, k, h, H) /\ Extends(kind, k)
                      /\ \A Y : SameView(m.mem, t.mem, kind, Y)
                      /\ k[x] = "table" /\ h[x] = <<dir, e>>
      <4>1. PICK r \in {"table", "frame"} : r = "table"
        OBVIOUS
      <4>2. PICK h2 : h2 = <<dir, e>>
        OBVIOUS
      <4>3. Gains(m, kind, t, x, r, h2, H)
        BY <2>1, <2>3, LiesNew
      <4> QED BY <4>1, <4>2, <4>3 DEF Gains
    <3>2. /\ x \in Pages /\ t.got = x /\ t.panic = FALSE /\ PutRow(m.mem, t.mem, x, Zero)
          /\ x \notin Unusable
      BY <2>3 DEF Fresh
    <3>3. m.mem \in Contents
      BY <1>1 DEF Ground
    <3>4. k[dir] = "dir" /\ x # dir /\ x # NULL
      BY <3>1, <3>2, Constants DEF Extends
    <3>5. t.mem[x] = Zero /\ t.mem[dir] = m.mem[dir]
      BY <3>2, <3>3, <3>4 DEF Contents, PutRow
    <3>6. Write(t, d, dir, e, x)
      BY <1>4, <3>2 DEF Write, WithTable
    <3>7. Books(d) /\ Put(t.mem, d.mem, dir, e, x) /\ d.grants = t.grants /\ d.pat = t.pat
      BY <2>1, <3>6, WriteIs
    <3>8. PICK mt, gt, md : mt = t.mem /\ gt = t.grants /\ md = d.mem
      OBVIOUS
    <3>9. Ground(mt, gt, k, h, H)
      BY <3>1, <3>8 DEF Lies
    <3>10. mt[x] = Zero /\ mt[dir][e] = NULL /\ Put(mt, md, dir, e, x)
      BY <1>4, <3>5, <3>7, <3>8
    <3>11. /\ Ground(md, gt, k, h, H) /\ md[dir][e] = x
           /\ \A Y : SameView(mt, md, k, Y)
      BY <3>1, <3>2, <3>4, <3>9, <3>10, GroundLink
    <3>12. Lies(d, k, h, H)
      BY <2>1, <3>7, <3>8, <3>11 DEF Lies
    <3>13. SameView(m.mem, md, kind, X)
      <4>1. SameView(m.mem, mt, kind, X) /\ SameView(mt, md, k, X)
        BY <3>1, <3>8, <3>11
      <4> QED BY <3>1, <4>1, ViewTwice
    <3>14. d.mem[dir][e] # NULL
      BY <3>4, <3>8, <3>11
    <3> QED BY <3>1, <3>8, <3>12, <3>13, <3>14
  <2> QED BY <2>1, <2>2, <2>3
<1> QED BY <1>3, <1>4

\* The second half: there is a frame, or no page.
LEMMA FrameThere ==
  ASSUME NEW d, NEW kind, NEW home, NEW H, Lies(d, kind, home, H),
         NEW dir \in Pages, kind[dir] = "dir", NEW e \in Entries,
         d.panic \/ d.mem[dir][e] # NULL, NEW X, NEW p, p = NULL \/ p \in Unusable,
         NEW f, WithFrame(d, p, f)
  PROVE  \E k, h : /\ Lies(f, k, h, H) /\ Extends(kind, k) /\ SameView(d.mem, f.mem, kind, X)
                   /\ f.panic \/ /\ f.mem[dir][e] # NULL
                                 /\ f.got \in Pages /\ IsFrame(f.got, k)
<1>1. Books(d) /\ Owned(d.pat, d.grants) /\ Ground(d.mem, d.grants, kind, home, H)
  BY DEF Lies
<1>2. Extends(kind, kind) /\ SameView(d.mem, d.mem, kind, X)
  BY DEF Extends, SameView
<1>3. CASE p # NULL
  <2>1. f = [d EXCEPT !.got = p]
    BY <1>3 DEF WithFrame
  <2>2. /\ Books(f) /\ f.pat = d.pat /\ f.grants = d.grants /\ f.mem = d.mem
        /\ f.panic = d.panic /\ f.got = p
    BY <1>1, <2>1 DEF Books
  <2>3. Lies(f, kind, home, H)
    BY <1>1, <2>2, LiesSame
  <2>4. p \in Pages /\ IsFrame(p, kind)
    BY <1>3, Constants DEF IsFrame
  <2> QED BY <1>2, <2>2, <2>3, <2>4
<1>4. CASE p = NULL
  <2>1. Books(f) /\ Owned(f.pat, f.grants) /\ (Stuck(d, f) \/ \E x : Fresh(d, f, x))
    <3>1. f = get_next_page(d)
      BY <1>4 DEF WithFrame
    <3> QED BY <1>1, <3>1, GetNextIs
  <2>2. CASE Stuck(d, f)
    <3>1. f.panic /\ f.mem = d.mem
      BY <2>2 DEF Stuck
    <3>2. Lies(f, kind, home, H)
      BY <2>1, <2>2, LiesSame DEF Stuck
    <3> QED BY <1>2, <3>1, <3>2
  <2>3. ASSUME NEW x, Fresh(d, f, x) PROVE \E k, h :
            /\ Lies(f, k, h, H) /\ Extends(kind, k) /\ SameView(d.mem, f.mem, kind, X)
            /\ f.panic \/ /\ f.mem[dir][e] # NULL
                          /\ f.got \in Pages /\ IsFrame(f.got, k)
    <3>1. PICK k, h : /\ Lies(f, k, h, H) /\ Extends(kind, k)
                      /\ \A Y : SameView(d.mem, f.mem, kind, Y)
                      /\ k[x] = "frame" /\ h[x] = 0
      <4>1. PICK r \in {"table", "frame"} : r = "frame"
        OBVIOUS
      <4>2. PICK h2 : h2 = 0
        OBVIOUS
      <4>3. Gains(d, kind, f, x, r, h2, H)
        BY <2>1, <2>3, LiesNew
      <4> QED BY <4>1, <4>2, <4>3 DEF Gains
    <3>2. /\ x \in Pages /\ f.got = x /\ d.panic = FALSE
          /\ PutRow(d.mem, f.mem, x, Zero)
      BY <2>3 DEF Fresh
    <3>3. k[dir] = "dir" /\ x # dir
      BY <3>1 DEF Extends
    <3>4. f.mem[dir] = d.mem[dir]
      <4>1. d.mem \in Contents
        BY <1>1 DEF Ground
      <4> QED BY <3>2, <3>3, <4>1 DEF Contents, PutRow
    <3>5. IsFrame(x, k)
      BY <3>1 DEF IsFrame
    <3> QED BY <3>1, <3>2, <3>4, <3>5
  <2> QED BY <2>1, <2>2, <2>3
<1> QED BY <1>3, <1>4

\* A round of the loop changes what is seen at one place.
LEMMA MapPageLies ==
  ASSUME NEW m, NEW kind, NEW home, NEW H, Lies(m, kind, home, H),
         NEW dir \in Pages, kind[dir] = "dir", NEW v,
         pde_index(v) \in Entries, pde_index(v) # 0, pte_index(v) \in Entries,
         NEW p, p = NULL \/ p \in Unusable,
         NEW X, <<dir, pde_index(v), pte_index(v)>> \in X
  PROVE  Follows(m.mem, kind, map_page(m, dir, v, p), X, H)
<1> DEFINE e == pde_index(v)
           g == pte_index(v)
           t == get_next_page(m)
           d == IF m.mem[dir][e] # NULL THEN m
                ELSE IF t.panic THEN t ELSE [t EXCEPT !.mem[dir][e] = t.got]
           f == IF p = NULL THEN get_next_page(d) ELSE [d EXCEPT !.got = p]
           x == f.mem[dir][e]
           o == [f EXCEPT !.mem[f.mem[dir][e]][g] = f.got]
<1>5. map_page(m, dir, v, p) = IF f.panic THEN f ELSE o
  BY DEF map_page
<1> HIDE DEF e, g, t
<1>1. t = get_next_page(m)
  BY DEF t
<1>2. WithTable(m, dir, e, t, d)
  BY DEF WithTable
<1> HIDE DEF d
<1>3. WithFrame(d, p, f)
  BY DEF WithFrame
<1> HIDE DEF f
<1>4. x = f.mem[dir][e] /\ Write(f, o, x, g, f.got)
  BY DEF Write
<1> HIDE DEF x, o
<1>6. e \in Entries /\ e # 0 /\ g \in Entries /\ <<dir, e, g>> \in X
  BY DEF e, g
<1>7. PICK k, h : /\ Lies(d, k, h, H) /\ Extends(kind, k) /\ SameView(m.mem, d.mem, kind, X)
                  /\ d.panic \/ d.mem[dir][e] # NULL
  BY <1>1, <1>2, <1>6, TableThere
<1>8. k[dir] = "dir"
  BY <1>7 DEF Extends
<1>9. PICK l, hh : /\ Lies(f, l, hh, H) /\ Extends(k, l) /\ SameView(d.mem, f.mem, k, X)
                   /\ f.panic \/ /\ f.mem[dir][e] # NULL
                                 /\ f.got \in Pages /\ IsFrame(f.got, l)
  BY <1>3, <1>6, <1>7, <1>8, FrameThere
<1>10. Extends(kind, l) /\ l[dir] = "dir"
  BY <1>7, <1>8, <1>9 DEF Extends
<1>11. SameView(m.mem, f.mem, kind, X)
  BY <1>7, <1>9, ViewTwice
<1>12. CASE f.panic
  BY <1>5, <1>9, <1>10, <1>11, <1>12 DEF Follows
<1>13. CASE ~f.panic
  <2>1. Books(f) /\ Owned(f.pat, f.grants)
    BY <1>9 DEF Lies
  <2>2. PICK mf, gf, mo, w : mf = f.mem /\ gf = f.grants /\ mo = o.mem /\ w = f.got
    OBVIOUS
  <2>3. Books(o) /\ Put(mf, mo, x, g, w) /\ o.grants = gf /\ o.pat = f.pat
    <3>1. /\ Books(o) /\ Put(f.mem, o.mem, x, g, f.got) /\ o.grants = f.grants
          /\ o.pat = f.pat
      BY <1>4, <2>1, WriteIs
    <3> QED BY <3>1, <2>2
  <2>4. /\ Ground(mf, gf, l, hh, H) /\ x = mf[dir][e] /\ x # NULL
        /\ w \in Pages /\ IsFrame(w, l)
    BY <1>4, <1>9, <1>13, <2>2 DEF Lies
  <2>5. Ground(mo, gf, l, hh, H) /\ SameView(mf, mo, l, X)
    BY <1>6, <1>10, <2>3, <2>4, GroundMap
  <2>6. Lies(o, l, hh, H)
    BY <2>1, <2>2, <2>3, <2>5 DEF Lies
  <2>7. SameView(m.mem, mo, kind, X)
    BY <1>10, <1>11, <2>2, <2>5, ViewTwice
  <2> QED BY <1>5, <1>10, <1>13, <2>2, <2>6, <2>7 DEF Follows
<1> QED BY <1>12, <1>13

-----------------------------------------------------------------------------
(* Addresses *)

\* Products grow with a factor.
LEMMA TimesLess ==
  ASSUME NEW f \in Nat, NEW K \in Nat, f < K, NEW B \in Nat, B >= 1
  PROVE  f * B \in Nat /\ f * B < K * B
<1>1. PICK c \in Nat : K = f + c /\ c >= 1
  <2>1. K - f \in Nat /\ K = f + (K - f) /\ K - f >= 1
    OBVIOUS
  <2> QED BY <2>1
<1>2. K * B = f * B + c * B
  BY <1>1
<1>3. c * B >= B /\ c * B \in Nat
  BY <1>1
<1>4. f * B \in Nat
  OBVIOUS
<1> QED BY <1>2, <1>3, <1>4

\* The quotient of a sum.
LEMMA QuotientIs ==
  ASSUME NEW e \in Nat, NEW A \in Nat, A >= 1, NEW r \in 0 .. A - 1
  PROVE  (e * A + r) \div A = e
OBVIOUS

\* The entries that an address goes through.
LEMMA EntriesOf ==
  ASSUME NEW v \in VirtualPages
  PROVE  \E e \in Entries, f \in Entries :
            /\ v = (e * KB + f) * PAGE_SIZE
            /\ pde_index(v) = e /\ pte_index(v) = f
            /\ v >= SECOND_PDE => e # 0
<1>1. PICK K \in Nat, B \in Nat : K = KB /\ B = PAGE_SIZE /\ K >= 1 /\ B >= 1
  BY Constants
<1>2. PICK k \in 0 .. K * K - 1 : v = k * B
  BY <1>1 DEF VirtualPages
<1>3. PICK e \in Nat, f \in 0 .. K - 1 : k = e * K + f /\ e = k \div K /\ f = k % K
  <2>1. k \in Nat
    BY <1>1, <1>2
  <2> QED BY <1>1, <2>1, DivMod
<1>4. e < K
  <2>1. e * K < K * K
    BY <1>1, <1>2, <1>3
  <2>2. ASSUME e >= K PROVE FALSE
    <3>1. PICK c \in Nat : e = K + c
      <4>1. e - K \in Nat /\ e = K + (e - K)
        BY <1>1, <1>3, <2>2
      <4> QED BY <4>1
    <3>2. e * K = K * K + c * K /\ c * K \in Nat /\ K * K \in Nat
      BY <1>1, <3>1
    <3> QED BY <2>1, <3>2
  <2> QED BY <1>1, <1>3, <2>2
<1>5. v \div B = k
  BY <1>1, <1>2
<1>6. v \div (K * B) = e
  <2>1. PICK A \in Nat : A = K * B /\ A >= 1
    BY <1>1
  <2>2. v = e * A + f * B
    BY <1>1, <1>2, <1>3, <2>1
  <2>3. f * B \in Nat /\ f * B < A
    BY <1>1, <1>3, <2>1, TimesLess
  <2>4. PICK r \in 0 .. A - 1 : r = f * B
    BY <2>3
  <2>5. (e * A + r) \div A = e
    BY <1>3, <2>1, QuotientIs
  <2> QED BY <2>1, <2>2, <2>4, <2>5
<1>7. v >= K * B => e # 0
  <2> SUFFICES ASSUME e = 0 PROVE v < K * B
    BY <1>1, <1>2
  <2>1. k = f
    <3>1. e * K = 0
      BY <1>1
    <3> QED BY <1>3, <3>1
  <2>2. f \in Nat /\ f < K
    BY <1>1, <1>3
  <2> QED BY <1>1, <1>2, <2>1, <2>2, TimesLess
<1>8. e \in Entries /\ f \in Entries
  BY <1>1, <1>3, <1>4 DEF Entries
<1> QED BY <1>1, <1>2, <1>3, <1>5, <1>6, <1>7, <1>8
        DEF pde_index, pte_index, SECOND_PDE

\* Another address goes through other entries.
LEMMA EntriesDiffer ==
  ASSUME NEW u \in VirtualPages, NEW v \in VirtualPages,
         pde_index(u) = pde_index(v), pte_index(u) = pte_index(v)
  PROVE  u = v
<1>1. u = (pde_index(u) * KB + pte_index(u)) * PAGE_SIZE
  BY EntriesOf
<1>2. v = (pde_index(v) * KB + pte_index(v)) * PAGE_SIZE
  BY EntriesOf
<1> QED BY <1>1, <1>2

\* the address of round i, and the page it is given
RoundAt(a, i) == (a.v + i * PAGE_SIZE) % AddressSpace
RoundPage(a, i) == IF a.p = NULL THEN NULL ELSE a.p \div PAGE_SIZE + i

\* The rounds stay in the range.
LEMMA RoundIs ==
  ASSUME PlainRanges, NEW a \in MmapArgs, aligned(a),
         NEW n, n = rounds(IF a.p = NULL THEN a.v ELSE a.p, a.len), NEW i \in Nat, i < n, n \in Nat
  PROVE  /\ RoundAt(a, i) \in Covered(a)
         /\ a.v <= RoundAt(a, i)
         /\ RoundPage(a, i) = NULL \/ RoundPage(a, i) \in Unusable
<1>1. PICK K \in Nat, B \in Nat : K = KB /\ B = PAGE_SIZE /\ K >= 1 /\ B >= 1
  BY Constants
<1>2. PICK k \in Nat : k = K * K /\ k >= 1
  BY <1>1
<1>3. PICK A \in Nat : A = AddressSpace /\ A = k * B /\ A >= 1
  <2>1. k * B \in Nat /\ k * B >= 1
    BY <1>1, <1>2
  <2> QED BY <1>1, <1>2, <2>1 DEF AddressSpace
<1>4. PICK v \in Nat, p \in Nat, len \in Nat : v = a.v /\ p = a.p /\ len = a.len
  <2>1. {a.v, a.p, a.len} \subseteq 0 .. A - 1
    BY <1>3, MemoryAssumption
  <2> QED BY <2>1
<1>5. v + len <= A /\ p + len <= A
  BY <1>3, <1>4 DEF PlainRanges
<1>6. PICK start \in Nat : start = (IF a.p = NULL THEN a.v ELSE a.p) /\ start + len <= A
  BY <1>4, <1>5
<1>7. n = LET done == (start + len) % A
          IN  IF done <= start THEN 0 ELSE (done - start + B - 1) \div B
  BY <1>1, <1>3, <1>4, <1>6 DEF rounds
<1>8. start + len < A /\ (start + len) % A = start + len
  <2>1. ASSUME start + len = A PROVE FALSE
    <3>1. A % A = 0
      BY <1>3
    <3>2. n = 0
      BY <1>7, <2>1, <3>1
    <3> QED BY <3>2
  <2>2. start + len < A
    BY <1>3, <1>6, <2>1
  <2> QED BY <1>3, <2>2
<1>9. n = (len + B - 1) \div B
  <2>1. start + len > start
    BY <1>7, <1>8
  <2>2. (start + len) - start + B - 1 = len + B - 1
    BY <1>1
  <2> QED BY <1>7, <1>8, <2>1, <2>2
<1>10. i * B \in Nat /\ i * B < len
  <2>1. len + B - 1 \in Nat
    BY <1>1
  <2>2. PICK q \in Nat, r \in 0 .. B - 1 : len + B - 1 = q * B + r /\ q = (len + B - 1) \div B
    BY <1>1, <2>1, DivMod
  <2>3. PICK c \in Nat : q = i + 1 + c
    <3>1. q - (i + 1) \in Nat /\ q = i + 1 + (q - (i + 1))
      BY <1>9, <2>2
    <3> QED BY <3>1
  <2>4. q * B = i * B + B + c * B /\ c * B \in Nat /\ i * B \in Nat
    BY <1>1, <2>3
  <2> QED BY <1>1, <2>2, <2>4
<1>11. PICK k0 \in Nat : v = k0 * B
  <2>1. v % B = 0
    BY <1>1, <1>4 DEF aligned
  <2>2. PICK q \in Nat, r \in 0 .. B - 1 : v = q * B + r /\ r = v % B
    BY <1>1, DivMod
  <2> QED BY <2>1, <2>2
<1>12. PICK w \in Nat : w = v + i * B
  BY <1>10
<1>13. w < v + len /\ v <= w /\ w < A
  BY <1>5, <1>10, <1>12
<1>14. RoundAt(a, i) = w
  <2>1. w % A = w
    BY <1>3, <1>13
  <2> QED BY <1>1, <1>3, <1>4, <1>12, <2>1 DEF RoundAt
<1>15. w \in VirtualPages
  <2>1. PICK j \in Nat : j = k0 + i
    OBVIOUS
  <2>2. w = j * B
    BY <1>1, <1>11, <1>12, <2>1
  <2>3. j < k
    <3>1. ASSUME j >= k PROVE FALSE
      <4>1. PICK c \in Nat : j = k + c
        <5>1. j - k \in Nat /\ j = k + (j - k)
          BY <1>2, <2>1, <3>1
        <5> QED BY <5>1
      <4>2. j * B = k * B + c * B /\ c * B \in Nat /\ k * B \in Nat
        BY <1>1, <1>2, <4>1
      <4> QED BY <1>3, <1>13, <2>2, <4>2
    <3> QED BY <1>2, <2>1, <3>1
  <2>4. j \in 0 .. k - 1
    BY <1>2, <2>1, <2>3
  <2> QED BY <1>1, <1>2, <2>2, <2>4 DEF VirtualPages
<1>16. RoundPage(a, i) = NULL \/ RoundPage(a, i) \in Unusable
  <2>1. CASE a.p = NULL
    BY <2>1 DEF RoundPage
  <2>2. CASE a.p # NULL
    <3>1. n = rounds(a.p, a.len)
      BY <2>2
    <3>2. i \in 0 .. n - 1
      OBVIOUS
    <3> QED BY <2>2, <3>1, <3>2 DEF PlainRanges, RoundPage
  <2> QED BY <2>1, <2>2
<1> QED BY <1>4, <1>13, <1>14, <1>15, <1>16 DEF Covered

\* round i maps at a place in X, and not into the first table
RoundPlain(dir, a, i, X) ==
  /\ pde_index(RoundAt(a, i)) \in Entries /\ pde_index(RoundAt(a, i)) # 0
  /\ pte_index(RoundAt(a, i)) \in Entries
  /\ RoundPage(a, i) = NULL \/ RoundPage(a, i) \in Unusable
  /\ <<dir, pde_index(RoundAt(a, i)), pte_index(RoundAt(a, i))>> \in X

LEMMA RoundLies ==
  ASSUME NEW m, NEW kind, NEW home, NEW H, Lies(m, kind, home, H),
         NEW dir \in Pages, kind[dir] = "dir", NEW a, NEW i, NEW X, RoundPlain(dir, a, i, X)
  PROVE  Follows(m.mem, kind, map_round(m, dir, a, i), X, H)
<1>1. map_round(m, dir, a, i) = map_page(m, dir, RoundAt(a, i), RoundPage(a, i))
  BY DEF map_round, RoundAt, RoundPage
<1>2. PICK v, p : v = RoundAt(a, i) /\ p = RoundPage(a, i)
  OBVIOUS
<1>3. /\ pde_index(v) \in Entries /\ pde_index(v) # 0 /\ pte_index(v) \in Entries
      /\ p = NULL \/ p \in Unusable
      /\ <<dir, pde_index(v), pte_index(v)>> \in X
  BY <1>2 DEF RoundPlain
<1>4. Follows(m.mem, kind, map_page(m, dir, v, p), X, H)
  BY <1>3, MapPageLies
<1> QED BY <1>1, <1>2, <1>4

\* So do all rounds together.
LEMMA RoundsLie ==
  ASSUME NEW m, NEW kind, NEW home, NEW H, Lies(m, kind, home, H),
         NEW dir \in Pages, kind[dir] = "dir", NEW a, NEW X, NEW n \in Nat,
         \A i \in 0 .. n - 1 : RoundPlain(dir, a, i, X),
         NEW g, Rounds(g, n, m, dir, a)
  PROVE  Follows(m.mem, kind, g[n], X, H)
<1> DEFINE S == {j \in 0 .. n : ~Follows(m.mem, kind, g[j], X, H)}
<1>1. SUFFICES ASSUME S # {} PROVE FALSE
  OBVIOUS
<1>2. PICK x \in S : \A y \in S : x <= y
  <2>1. S \subseteq Nat
    OBVIOUS
  <2> HIDE DEF S
  <2> QED BY <1>1, <2>1, LeastNat
<1>3. x \in 0 .. n /\ ~Follows(m.mem, kind, g[x], X, H)
  OBVIOUS
<1>4. g[x] = IF x = 0 THEN m ELSE map_round(g[x - 1], dir, a, x - 1)
  BY <1>3 DEF Rounds
<1>5. x # 0
  BY <1>3, <1>4, FollowsSelf
<1>6. x - 1 \in 0 .. n /\ ~(x <= x - 1) /\ x - 1 \in 0 .. n - 1
  BY <1>3, <1>5
<1>7. Follows(m.mem, kind, g[x - 1], X, H)
  BY <1>2, <1>6
<1>8. PICK o, i : o = g[x - 1] /\ i = x - 1
  OBVIOUS
<1>9. PICK k, h : Lies(o, k, h, H) /\ Extends(kind, k) /\ SameView(m.mem, o.mem, kind, X)
  BY <1>7, <1>8 DEF Follows
<1>10. k[dir] = "dir" /\ RoundPlain(dir, a, i, X)
  BY <1>6, <1>8, <1>9 DEF Extends
<1>11. Follows(o.mem, k, map_round(o, dir, a, i), X, H)
  BY <1>9, <1>10, RoundLies
<1>12. Follows(m.mem, kind, map_round(o, dir, a, i), X, H)
  BY <1>9, <1>11, FollowsTwice
<1> QED BY <1>3, <1>4, <1>5, <1>8, <1>12

\* the places that a range covers
Reach(dir, a) == {<<dir, pde_index(v), pte_index(v)>> : v \in Covered(a)}

\* _k_mmap keeps the layout, and changes what is seen in its range only.
LEMMA MmapLies ==
  ASSUME PlainRanges, NEW m, NEW kind, NEW home, NEW H, Lies(m, kind, home, H),
         NEW dir, dir = page_directory \/ (dir \in Pages /\ kind[dir] = "dir"),
         NEW a \in MmapArgs
  PROVE  Follows(m.mem, kind, k_mmap(m, dir, a), Reach(dir, a), H)
<1>1. PICK g, n : /\ n \in Nat /\ n = rounds(IF a.p = NULL THEN a.v ELSE a.p, a.len)
                  /\ Rounds(g, n, m, dir, a)
                  /\ k_mmap(m, dir, a) = IF dir = page_directory \/ a.v < SECOND_PDE
                                         THEN [m EXCEPT !.panic = TRUE]
                                         ELSE IF ~aligned(a) THEN m ELSE g[n]
  <2>1. PICK g, n : Loop(g, n, m, dir, a)
    BY MmapIs
  <2> QED BY <2>1, Zenon DEF Loop
<1>2. PICK X : X = Reach(dir, a)
  OBVIOUS
<1>3. CASE dir = page_directory \/ a.v < SECOND_PDE
  <2>1. PICK o : o = [m EXCEPT !.panic = TRUE]
    OBVIOUS
  <2>2. Books(m) /\ Owned(m.pat, m.grants)
    BY DEF Lies
  <2>3. Books(o) /\ o.mem = m.mem /\ o.grants = m.grants /\ o.pat = m.pat
    BY <2>1, <2>2 DEF Books
  <2>4. Lies(o, kind, home, H)
    BY <2>2, <2>3, LiesSame
  <2>5. Follows(m.mem, kind, o, X, H)
    BY <2>3, <2>4, FollowsSelf
  <2> QED BY <1>1, <1>2, <1>3, <2>1, <2>5
<1>4. CASE ~(dir = page_directory \/ a.v < SECOND_PDE) /\ ~aligned(a)
  <2>1. Follows(m.mem, kind, m, X, H)
    BY FollowsSelf
  <2> QED BY <1>1, <1>2, <1>4, <2>1
<1>5. CASE ~(dir = page_directory \/ a.v < SECOND_PDE) /\ aligned(a)
  <2>1. ASSUME NEW i \in 0 .. n - 1 PROVE RoundPlain(dir, a, i, X)
    <3>1. i \in Nat /\ i < n
      BY <1>1
    <3>2. /\ RoundAt(a, i) \in Covered(a) /\ a.v <= RoundAt(a, i)
          /\ RoundPage(a, i) = NULL \/ RoundPage(a, i) \in Unusable
      BY <1>1, <1>5, <3>1, RoundIs
    <3>3. PICK v : v = RoundAt(a, i)
      OBVIOUS
    <3>4. v \in VirtualPages /\ <<dir, pde_index(v), pte_index(v)>> \in X
      BY <1>2, <3>2, <3>3 DEF Covered, Reach
    <3>5. v >= SECOND_PDE
      <4>1. a.v \in Int /\ SECOND_PDE \in Int /\ v \in Int
        <5>1. PICK A : A = AddressSpace /\ {a.v, a.p, a.len} \subseteq 0 .. A - 1
          BY MemoryAssumption
        <5>2. KB \in Nat /\ PAGE_SIZE \in Nat
          BY Constants
        <5> QED BY <3>4, <5>1, <5>2 DEF SECOND_PDE, VirtualPages
      <4> QED BY <1>5, <3>2, <3>3, <4>1
    <3>6. pde_index(v) \in Entries /\ pte_index(v) \in Entries /\ pde_index(v) # 0
      BY <3>4, <3>5, EntriesOf
    <3> QED BY <3>2, <3>3, <3>4, <3>6 DEF RoundPlain
  <2>2. dir \in Pages /\ kind[dir] = "dir"
    BY <1>5
  <2>3. Follows(m.mem, kind, g[n], X, H)
    BY <1>1, <2>1, <2>2, RoundsLie
  <2> QED BY <1>1, <1>2, <1>5, <2>3
<1> QED BY <1>3, <1>4, <1>5

-----------------------------------------------------------------------------
(* setup_initial_page_table *)

\* entry e of directory pd is a table that maps 1:1
OneToOne(mm, gr, pd, e) ==
  /\ mm[pd][e] \in Pages /\ mm[pd][e] # pd /\ mm[pd][e] \notin Unusable
  /\ gr[mm[pd][e]] = 1
  /\ \A f \in Entries : mm[mm[pd][e]][f] = e * KB + f

\* the state after i tables
SetUp(mm, gr, pd, i) ==
  /\ mm \in Contents /\ gr \in [Pages -> Int]
  /\ pd \in Pages /\ pd \notin Unusable /\ gr[pd] = 1
  /\ \A e \in 0 .. i - 1 : OneToOne(mm, gr, pd, e)

\* A page that an entry of a 1:1 table stands for.
LEMMA PageOfEntries ==
  ASSUME NEW e \in Entries, NEW f \in Entries
  PROVE  e * KB + f \in Pages
<1>1. PICK K \in Nat : K = KB /\ K >= 1 /\ PAT_SIZE * BITS = K * K
  BY Constants, MemoryAssumption
<1>2. e \in 0 .. K - 1 /\ f \in 0 .. K - 1
  BY <1>1 DEF Entries
<1>3. PICK c \in Nat : K = e + c /\ c >= 1
  <2>1. K - e \in Nat /\ K = e + (K - e) /\ K - e >= 1
    BY <1>1, <1>2
  <2> QED BY <2>1
<1>4. K * K = e * K + c * K
  BY <1>1, <1>2, <1>3
<1>5. c * K >= K /\ c * K \in Nat
  BY <1>1, <1>3
<1>6. e * K \in Nat
  BY <1>1, <1>2
<1>7. e * K + f \in Nat /\ e * K + f <= K * K - 1
  BY <1>1, <1>2, <1>4, <1>5, <1>6
<1> QED BY <1>1, <1>7 DEF Pages

\* what add_table writes
PutTable(mm, mn, pd, e, x) ==
  mn = [[mm EXCEPT ![pd][e] = x] EXCEPT ![x] = [f \in Entries |-> e * KB + f]]

LEMMA SetUpMore ==
  ASSUME NEW mm, NEW gr, NEW pd, NEW i \in Entries, SetUp(mm, gr, pd, i),
         NEW x \in Pages, gr[x] = 0, x \notin Unusable,
         NEW mt, PutRow(mm, mt, x, Zero), NEW mn, PutTable(mt, mn, pd, i, x),
         NEW gn, CountUp(gr, gn, x)
  PROVE  SetUp(mn, gn, pd, i + 1)
<1>1. /\ mm \in Contents /\ gr \in [Pages -> Int] /\ pd \in Pages /\ pd \notin Unusable
      /\ gr[pd] = 1 /\ \A e \in 0 .. i - 1 : OneToOne(mm, gr, pd, e)
  BY DEF SetUp
<1>2. x # pd
  BY <1>1
<1>3. Zero \in [Entries -> Pages]
  BY Constants DEF Zero
<1>4. mt \in Contents /\ \A y \in Pages : y # x => mt[y] = mm[y]
  BY <1>1, <1>3 DEF PutRow, Contents
<1>5. PICK row : row = [f \in Entries |-> i * KB + f]
  OBVIOUS
<1>6. row \in [Entries -> Pages] /\ \A f \in Entries : row[f] = i * KB + f
  BY <1>5, PageOfEntries
<1>7. PICK md : md = [mt EXCEPT ![pd][i] = x]
  OBVIOUS
<1>8. /\ md \in Contents /\ md[pd][i] = x /\ \A g \in Entries : g # i => md[pd][g] = mt[pd][g]
      /\ \A y \in Pages : y # pd => md[y] = mt[y]
  BY <1>1, <1>4, <1>7 DEF Contents
<1>9. mn = [md EXCEPT ![x] = row]
  BY <1>5, <1>7 DEF PutTable
<1>10. /\ mn \in Contents /\ mn[x] = row /\ \A y \in Pages : y # x => mn[y] = md[y]
  BY <1>6, <1>8, <1>9 DEF Contents
<1>11. /\ mn[pd][i] = x /\ \A g \in Entries : g # i => mn[pd][g] = mm[pd][g]
       /\ \A y \in Pages : y # x /\ y # pd => mn[y] = mm[y]
  BY <1>1, <1>2, <1>4, <1>8, <1>10
<1>12. gn \in [Pages -> Int] /\ gn[x] = 1 /\ \A y \in Pages : y # x => gn[y] = gr[y]
  BY <1>1 DEF CountUp
<1>13. ASSUME NEW e \in 0 .. (i + 1) - 1 PROVE OneToOne(mn, gn, pd, e)
  <2>1. CASE e = i
    BY <2>1, <1>2, <1>6, <1>10, <1>11, <1>12 DEF OneToOne
  <2>2. CASE e # i
    <3>1. e \in 0 .. i - 1 /\ e \in Entries
      BY <2>2, Constants DEF Entries
    <3>2. PICK t : t = mm[pd][e]
      OBVIOUS
    <3>3. /\ t \in Pages /\ t # pd /\ t \notin Unusable /\ gr[t] = 1
          /\ \A f \in Entries : mm[t][f] = e * KB + f
      BY <3>1, <3>2, <1>1 DEF OneToOne
    <3>4. t # x /\ mn[pd][e] = t
      BY <3>1, <3>2, <3>3, <2>2, <1>11
    <3>5. mn[t] = mm[t] /\ gn[t] = 1
      BY <3>3, <3>4, <1>11, <1>12
    <3> QED BY <3>3, <3>4, <3>5 DEF OneToOne
  <2> QED BY <2>1, <2>2
<1> QED BY <1>1, <1>2, <1>10, <1>12, <1>13 DEF SetUp

\* One table more, unless there was no page.
LEMMA AddTableIs ==
  ASSUME NEW m, Books(m), Owned(m.pat, m.grants), NEW pd, NEW i \in Entries,
         m.panic \/ SetUp(m.mem, m.grants, pd, i), NEW n, n = add_table(m, pd, i)
  PROVE  /\ Books(n) /\ Owned(n.pat, n.grants)
         /\ n.panic \/ SetUp(n.mem, n.grants, pd, i + 1)
<1> DEFINE t == get_next_page(m)
<1>1. n = [t EXCEPT !.mem[pd][i] = t.got, !.mem[t.got] = [f \in Entries |-> i * KB + f]]
  BY DEF add_table
<1>2. Books(n) /\ Owned(n.pat, n.grants)
  BY AddTableOK DEF Grown
<1>3. Books(t) /\ (Stuck(m, t) \/ \E x : Fresh(m, t, x))
  BY GetNextIs
<1> HIDE DEF t
<1>4. PICK x : x = t.got
  OBVIOUS
<1>5. n.panic = t.panic /\ n.grants = t.grants /\ PutTable(t.mem, n.mem, pd, i, x)
  BY <1>1, <1>3, <1>4 DEF Books, PutTable
<1>6. CASE Stuck(m, t)
  BY <1>2, <1>5, <1>6 DEF Stuck
<1>7. CASE Fresh(m, t, x)
  <2>1. /\ x \in Pages /\ m.grants[x] = 0 /\ x \notin Unusable /\ m.panic = FALSE
        /\ PutRow(m.mem, t.mem, x, Zero) /\ CountUp(m.grants, t.grants, x)
    BY <1>7 DEF Fresh
  <2>2. PICK mm, gr, mt, mn, gn : /\ mm = m.mem /\ gr = m.grants /\ mt = t.mem
                                  /\ mn = n.mem /\ gn = n.grants
    OBVIOUS
  <2>3. /\ SetUp(mm, gr, pd, i) /\ PutRow(mm, mt, x, Zero) /\ CountUp(gr, gn, x)
        /\ PutTable(mt, mn, pd, i, x) /\ gr[x] = 0
    BY <1>5, <2>1, <2>2
  <2>4. SetUp(mn, gn, pd, i + 1)
    BY <2>1, <2>3, SetUpMore
  <2> QED BY <1>2, <2>2, <2>4
<1>8. \A y : Fresh(m, t, y) => y = x
  BY <1>4 DEF Fresh
<1> QED BY <1>3, <1>6, <1>7, <1>8

\* All of them.
LEMMA TablesSetUp ==
  ASSUME NEW m, Books(m), Owned(m.pat, m.grants), NEW pd,
         m.panic \/ SetUp(m.mem, m.grants, pd, 0), NEW g, Tables(g, KB, m, pd)
  PROVE  g[KB].panic \/ SetUp(g[KB].mem, g[KB].grants, pd, KB)
<1> DEFINE Good(j) == /\ Books(g[j]) /\ Owned(g[j].pat, g[j].grants)
                      /\ g[j].panic \/ SetUp(g[j].mem, g[j].grants, pd, j)
           S == {j \in 0 .. KB : ~Good(j)}
<1>0. KB \in Nat
  BY Constants
<1>1. SUFFICES ASSUME S # {} PROVE FALSE
  BY <1>0
<1>2. PICK x \in S : \A y \in S : x <= y
  <2>1. S \subseteq Nat
    OBVIOUS
  <2> HIDE DEF S
  <2> QED BY <1>1, <2>1, LeastNat
<1>3. x \in 0 .. KB /\ ~Good(x)
  OBVIOUS
<1>4. g[x] = IF x = 0 THEN m ELSE add_table(g[x - 1], pd, x - 1)
  BY <1>0, <1>3 DEF Tables
<1>5. x # 0
  BY <1>3, <1>4
<1>6. x - 1 \in 0 .. KB /\ ~(x <= x - 1) /\ x - 1 \in Entries
  BY <1>0, <1>3, <1>5 DEF Entries
<1>7. Good(x - 1)
  BY <1>2, <1>6
<1>8. PICK o, i, n : o = g[x - 1] /\ i = x - 1 /\ n = g[x]
  OBVIOUS
<1>9. /\ Books(o) /\ Owned(o.pat, o.grants) /\ i \in Entries
      /\ o.panic \/ SetUp(o.mem, o.grants, pd, i)
      /\ n = add_table(o, pd, i) /\ i + 1 = x
  BY <1>3, <1>4, <1>5, <1>6, <1>7, <1>8
<1>10. /\ Books(n) /\ Owned(n.pat, n.grants)
       /\ n.panic \/ SetUp(n.mem, n.grants, pd, i + 1)
  BY <1>9, AddTableIs
<1> QED BY <1>3, <1>8, <1>9, <1>10

\* setup_initial_page_table makes a directory that maps everything 1:1, or
\* finds too little memory.
LEMMA SetupIs ==
  LET s == setup_initial_page_table
  IN  s.panic \/ SetUp(s.mem, s.grants, page_directory, KB)
<1> DEFINE m == setup_page_availibility_table
           dir == get_next_page(m)
<1>1. Books(m) /\ Owned(m.pat, m.grants)
  BY EmptyTable
<1>2. m.mem = [page \in Pages |-> Zero] /\ m.grants = [page \in Pages |-> 0]
  BY DEF setup_page_availibility_table
<1>3. PICK f : /\ f = CHOOSE g : Tables(g, KB, dir, dir.got)
               /\ setup_initial_page_table = f[KB]
  BY DEF setup_initial_page_table, Tables
<1>4. page_directory = dir.got
  BY DEF page_directory
<1> HIDE DEF m
<1>5. Books(dir) /\ Owned(dir.pat, dir.grants) /\ (Stuck(m, dir) \/ \E x : Fresh(m, dir, x))
  BY <1>1, GetNextIs
<1> HIDE DEF dir
<1>6. dir.panic \/ SetUp(dir.mem, dir.grants, dir.got, 0)
  <2>1. CASE Stuck(m, dir)
    BY <2>1 DEF Stuck
  <2>2. ASSUME NEW x, Fresh(m, dir, x) PROVE SetUp(dir.mem, dir.grants, dir.got, 0)
    <3>1. Zero \in [Entries -> Pages]
      BY Constants DEF Zero
    <3>2. /\ x \in Pages /\ x \notin Unusable /\ dir.got = x
          /\ PutRow(m.mem, dir.mem, x, Zero) /\ CountUp(m.grants, dir.grants, x)
      BY <2>2 DEF Fresh
    <3>3. dir.mem \in Contents
      BY <1>2, <3>1, <3>2 DEF PutRow, Contents
    <3>4. dir.grants \in [Pages -> Int] /\ dir.grants[x] = 1
      BY <1>2, <3>2 DEF CountUp
    <3> QED BY <3>2, <3>3, <3>4 DEF SetUp
  <2> QED BY <1>5, <2>1, <2>2
<1>7. Tables(f, KB, dir, dir.got)
  <2>1. KB \in Nat
    BY Constants
  <2>2. \E g : Tables(g, KB, dir, dir.got)
    BY <2>1, TablesExist
  <2> QED BY <1>3, <2>2, Zenon
<1>8. f[KB].panic \/ SetUp(f[KB].mem, f[KB].grants, dir.got, KB)
  BY <1>5, <1>6, <1>7, TablesSetUp
<1> QED BY <1>3, <1>4, <1>8

-----------------------------------------------------------------------------
(* The layout in every state *)

\* the pages that processes have from malloc
Had == UNION {held[p] : p \in Procs}

\* directory r of a process: none, the one that maps 1:1, or one of its own
IsRoot(r, kind) == r = NULL \/ r = page_directory \/ kind[r] = "dir"
RootsIn(roots, calls, kind) ==
  /\ roots \in [Procs -> Pages]
  /\ \A p \in Procs : IsRoot(roots[p], kind) /\ (roots[p] = NULL => calls[p].at = "none")

Layout(kind, home) == Ground(mem, grants, kind, home, Had) /\ RootsIn(memory, call, kind)

\* the 1:1 tables are complete
Straight ==
  /\ page_directory \in Pages \ Unusable
  /\ \A e, f \in Entries : Identity[Identity[page_directory][e]][f] = e * KB + f

LInv ==
  ~overlap => \/ panic /\ \A x \in IdentityTables : mem[x] = Identity[x]
              \/ Straight /\ \E kind, home : Layout(kind, home)

\* the address spaces see what they saw, except where mmap has mapped
Sees(kind) ==
  \/ SameView(mem, mem', kind, {})
  \/ \E p \in Procs, a \in MmapArgs :
        sys_mmap(p, a) /\ SameView(mem, mem', kind, Reach(memory[p], a))

\* what a step does to a layout
LaidOut(kind) == Sees(kind) /\ \E k, h : Layout(k, h)'

\* The next layout, from its parts.
LEMMA LayoutNext ==
  ASSUME NEW k, NEW h, Ground(mem', grants', k, h, Had'), RootsIn(memory', call', k)
  PROVE  Layout(k, h)'
BY DEF Layout

\* Pages without a role change hands.
LEMMA GroundHands ==
  ASSUME NEW mm, NEW gr, NEW kind, NEW home, NEW H, Ground(mm, gr, kind, home, H),
         NEW gn \in [Pages -> Int], NEW Hn,
         \A x \in Pages : kind[x] # "other" => gn[x] = gr[x] /\ x \notin Hn,
         \A x \in Hn : x \in Pages /\ gn[x] = 1
  PROVE  Ground(mm, gn, kind, home, Hn)
<1>1. Kept(gn, kind, Hn)
  BY DEF Ground, Kept
<1> QED BY <1>1 DEF Ground

\* What processes have is theirs alone.
LEMMA HadNext ==
  ASSUME Typed', HeldOnce'
  PROVE  /\ grants' \in [Pages -> Int]
         /\ \A x \in Had' : x \in Pages /\ grants'[x] = 1
BY DEF Typed, HeldOnce, Had

\* The pages stay where they are; processes may lose some.
LEMMA QuietLies ==
  ASSUME NEW kind, NEW home, Layout(kind, home), Typed', HeldOnce',
         mem' = mem, grants' = grants, Had' \subseteq Had, RootsIn(memory', call', kind)
  PROVE  LaidOut(kind)
<1>1. Ground(mem, grants, kind, home, Had)
  BY DEF Layout
<1>2. grants' \in [Pages -> Int] /\ \A x \in Had' : x \in Pages /\ grants'[x] = 1
  BY HadNext
<1>3. \A x \in Pages : kind[x] # "other" => grants'[x] = grants[x] /\ x \notin Had'
  BY <1>1 DEF Ground, Kept
<1>4. PICK gn, Hn : gn = grants' /\ Hn = Had'
  OBVIOUS
<1>5. Ground(mem, gn, kind, home, Hn)
  BY <1>1, <1>2, <1>3, <1>4, GroundHands
<1>6. Layout(kind, home)'
  BY <1>4, <1>5, LayoutNext
<1>7. SameView(mem, mem', kind, {})
  BY DEF SameView
<1> QED BY <1>6, <1>7 DEF LaidOut, Sees

\* The roots, when one process gets another one.
LEMMA RootsNew ==
  ASSUME NEW roots, NEW calls, NEW kind, NEW k, RootsIn(roots, calls, kind), Extends(kind, k),
         NEW q \in Procs, NEW r \in Pages, IsRoot(r, k), NEW new, PutRow(roots, new, q, r),
         NEW cn, \A p \in Procs : p # q => cn[p] = calls[p],
         r = NULL => cn[q].at = "none"
  PROVE  RootsIn(new, cn, k)
<1>1. roots \in [Procs -> Pages]
  BY DEF RootsIn
<1>2. /\ new \in [Procs -> Pages] /\ new[q] = r
      /\ \A p \in Procs : p # q => new[p] = roots[p]
  BY <1>1 DEF PutRow
<1>3. ASSUME NEW p \in Procs PROVE IsRoot(new[p], k) /\ (new[p] = NULL => cn[p].at = "none")
  <2>1. CASE p = q
    BY <2>1, <1>2
  <2>2. CASE p # q
    <3>1. IsRoot(roots[p], kind) /\ (roots[p] = NULL => calls[p].at = "none")
      BY DEF RootsIn
    <3>2. new[p] = roots[p] /\ roots[p] \in Pages /\ cn[p] = calls[p]
      BY <2>2, <1>1, <1>2
    <3> QED BY <3>1, <3>2 DEF IsRoot, Extends
  <2> QED BY <2>1, <2>2
<1> QED BY <1>2, <1>3 DEF RootsIn

\* The roots, when they stay and a process goes on in a call.
LEMMA RootsSame ==
  ASSUME NEW roots, NEW calls, NEW kind, NEW k, RootsIn(roots, calls, kind), Extends(kind, k),
         NEW cn, \A p \in Procs : roots[p] = NULL => cn[p].at = "none"
  PROVE  RootsIn(roots, cn, k)
BY DEF RootsIn, IsRoot, Extends

LEMMA ForkLies ==
  ASSUME NEW kind, NEW home, Layout(kind, home), Typed', HeldOnce',
         NEW p \in Procs, NEW q \in Procs, sys_fork(p, q)
  PROVE  LaidOut(kind)
<1>1. RootsIn(memory, call, kind) /\ memory[q] = NULL
  BY DEF Layout, sys_fork, Alive
<1>2. PICK r \in Pages : r = memory[p]
  BY <1>1 DEF RootsIn
<1>3. IsRoot(r, kind) /\ call[q].at = "none"
  BY <1>1, <1>2 DEF RootsIn
<1>4. PICK new : new = memory' /\ PutRow(memory, new, q, r)
  BY <1>2 DEF sys_fork, PutRow
<1>5. Extends(kind, kind)
  BY DEF Extends
<1>6. RootsIn(new, call, kind)
  BY <1>1, <1>3, <1>4, <1>5, RootsNew
<1>7. mem' = mem /\ grants' = grants /\ held' = held /\ call' = call
  BY DEF sys_fork
<1>8. Had' \subseteq Had
  BY <1>7 DEF Had
<1> QED BY <1>4, <1>6, <1>7, <1>8, QuietLies

\* p has nothing any more
LEMMA HadLess ==
  ASSUME NEW p \in Procs, Typed, held' = [held EXCEPT ![p] = {}]
  PROVE  Had' \subseteq Had
<1>1. held \in [Procs -> SUBSET Pages]
  BY DEF Typed
<1>2. \A q \in Procs : held'[q] \subseteq held[q]
  BY <1>1
<1> QED BY <1>2 DEF Had

LEMMA ExitLies ==
  ASSUME NEW kind, NEW home, Layout(kind, home), Typed, Typed', HeldOnce',
         NEW p \in Procs, gone(p), mem' = mem, grants' = grants
  PROVE  LaidOut(kind)
<1>1. RootsIn(memory, call, kind) /\ call \in [Procs -> Calling]
  BY DEF Layout, Typed
<1>2. NULL \in Pages /\ IsRoot(NULL, kind) /\ Extends(kind, kind) /\ NoCall.at = "none"
  BY Constants DEF IsRoot, Extends, NoCall
<1>3. PICK new, cn, r : /\ new = memory' /\ PutRow(memory, new, p, r) /\ r = NULL
                        /\ cn = call' /\ cn = [call EXCEPT ![p] = NoCall]
  BY DEF gone, PutRow
<1>4. cn[p].at = "none" /\ \A q \in Procs : q # p => cn[q] = call[q]
  BY <1>1, <1>2, <1>3
<1>5. RootsIn(new, cn, kind)
  <2>1. r \in Pages /\ IsRoot(r, kind) /\ PutRow(memory, new, p, r)
    BY <1>2, <1>3
  <2>2. r = NULL => cn[p].at = "none"
    BY <1>4
  <2>3. RootsIn(memory, call, kind) /\ Extends(kind, kind)
    BY <1>1, <1>2
  <2> QED BY <1>4, <2>1, <2>2, <2>3, RootsNew
<1>6. Had' \subseteq Had
  BY HadLess DEF gone
<1> QED BY <1>3, <1>5, <1>6, QuietLies

\* A process goes on inside a call, or starts one.
LEMMA CallLies ==
  ASSUME NEW kind, NEW home, Layout(kind, home), Typed, Typed', HeldOnce',
         NEW p \in Procs, NEW c, call' = [call EXCEPT ![p] = c],
         memory[p] # NULL \/ c.at = "none",
         mem' = mem, memory' = memory, grants' = grants, held' = held
  PROVE  LaidOut(kind)
<1>1. RootsIn(memory, call, kind) /\ call \in [Procs -> Calling]
  BY DEF Layout, Typed
<1>2. Extends(kind, kind) /\ Had' \subseteq Had
  BY DEF Extends, Had
<1>3. PICK cn : cn = call'
  OBVIOUS
<1>4. cn[p] = c /\ \A q \in Procs : q # p => cn[q] = call[q]
  BY <1>1, <1>3
<1>5. \A q \in Procs : memory[q] = NULL => cn[q].at = "none"
  BY <1>1, <1>4 DEF RootsIn
<1>6. RootsIn(memory, cn, kind)
  BY <1>1, <1>2, <1>5, RootsSame
<1> QED BY <1>2, <1>3, <1>6, QuietLies

\* The layout belongs to the record of the globals.
LEMMA StateLies ==
  ASSUME NEW kind, NEW home, Layout(kind, home), Typed, Owned(page_availibility_table, grants)
  PROVE  Lies(State, kind, home, Had) /\ State.mem = mem
<1>1. State.mem = mem
  BY DEF State
<1>2. Books(State) /\ State.pat = page_availibility_table /\ State.grants = grants
  BY StateIs
<1> QED BY <1>1, <1>2 DEF Lies, Layout

\* After new pages, from a record that lies well.
LEMMA BecomesLies ==
  ASSUME NEW k, NEW h, NEW H, NEW n, Lies(n, k, h, H), Becomes(n), Had' \subseteq H,
         Typed', HeldOnce', RootsIn(memory', call', k)
  PROVE  Layout(k, h)'
<1>1. Ground(n.mem, n.grants, k, h, H) /\ n.mem = mem' /\ n.grants = grants'
  BY DEF Lies, Becomes
<1>2. grants' \in [Pages -> Int] /\ \A x \in Had' : x \in Pages /\ grants'[x] = 1
  BY HadNext
<1>3. PICK mn, gn, Hn : mn = mem' /\ gn = grants' /\ Hn = Had'
  OBVIOUS
<1>4. Ground(mn, gn, k, h, H)
  BY <1>1, <1>3
<1>5. \A x \in Pages : k[x] # "other" => gn[x] = gn[x] /\ x \notin Hn
  BY <1>3, <1>4 DEF Ground, Kept
<1>6. Ground(mn, gn, k, h, Hn)
  BY <1>2, <1>3, <1>4, <1>5, GroundHands
<1> QED BY <1>3, <1>6, LayoutNext

LEMMA MmapLaysOut ==
  ASSUME PlainRanges, NEW kind, NEW home, Layout(kind, home), Typed,
         Owned(page_availibility_table, grants), Typed', HeldOnce',
         NEW p \in Procs, NEW a \in MmapArgs, sys_mmap(p, a)
  PROVE  LaidOut(kind)
<1>1. Lies(State, kind, home, Had) /\ State.mem = mem
  BY StateLies
<1>2. PICK dir : dir = memory[p]
  OBVIOUS
<1>3. RootsIn(memory, call, kind) /\ dir # NULL /\ dir \in Pages
  BY <1>2 DEF Layout, sys_mmap, Calls, Alive, RootsIn
<1>4. dir = page_directory \/ (dir \in Pages /\ kind[dir] = "dir")
  BY <1>2, <1>3 DEF RootsIn, IsRoot
<1>5. PICK n, m, H : /\ n = k_mmap(State, dir, a) /\ Becomes(n) /\ m = State /\ H = Had
  BY <1>2 DEF sys_mmap
<1>6. Follows(m.mem, kind, n, Reach(dir, a), H)
  BY <1>1, <1>4, <1>5, MmapLies
<1>7. PICK k, h : Lies(n, k, h, H) /\ Extends(kind, k) /\ SameView(m.mem, n.mem, kind, Reach(dir, a))
  BY <1>6 DEF Follows
<1>8. memory' = memory /\ call' = call /\ held' = held
  BY DEF sys_mmap
<1>9. RootsIn(memory, call, k)
  <2>1. \A q \in Procs : memory[q] = NULL => call[q].at = "none"
    BY <1>3 DEF RootsIn
  <2> QED BY <1>3, <1>7, <2>1, RootsSame
<1>10. Had' \subseteq H
  BY <1>5, <1>8 DEF Had
<1>11. Layout(k, h)'
  BY <1>5, <1>7, <1>8, <1>9, <1>10, BecomesLies
<1>12. n.mem = mem' /\ m.mem = mem
  BY <1>1, <1>5 DEF Becomes
<1>13. SameView(mem, mem', kind, Reach(memory[p], a))
  BY <1>2, <1>7, <1>12
<1> QED BY <1>11, <1>13 DEF LaidOut, Sees

LEMMA ExecLaysOut ==
  ASSUME NEW kind, NEW home, Layout(kind, home), Straight, Typed,
         Owned(page_availibility_table, grants), Typed', HeldOnce',
         NEW p \in Procs, NEW prio, sys_exec(p, prio)
  PROVE  LaidOut(kind)
<1>1. Lies(State, kind, home, Had) /\ State.mem = mem /\ RootsIn(memory, call, kind)
  BY StateLies DEF Layout
<1>2. call' = call /\ Had' \subseteq Had
  BY HadLess DEF sys_exec
<1>3. Extends(kind, kind)
  BY DEF Extends
<1>4. memory[p] # NULL /\ \A q \in Procs : memory[q] = NULL => call[q].at = "none"
  BY <1>1 DEF RootsIn, sys_exec, Calls, Alive
<1>5. CASE prio = 0
  <2>1. PICK r \in Pages : r = page_directory /\ r # NULL
    BY Constants DEF Straight
  <2>2. PICK new : new = memory' /\ PutRow(memory, new, p, r)
    BY <1>5, <2>1 DEF sys_exec, PutRow
  <2>3. IsRoot(r, kind)
    BY <2>1 DEF IsRoot
  <2>4. RootsIn(new, call, kind)
    BY <1>1, <1>3, <2>1, <2>2, <2>3, RootsNew
  <2>5. mem' = mem /\ grants' = grants
    BY <1>5 DEF sys_exec
  <2> QED BY <1>2, <2>2, <2>4, <2>5, QuietLies
<1>6. CASE prio # 0
  <2> DEFINE d == get_next_page(State)
             n == [d EXCEPT !.mem[d.got][0] = page_table]
             o == new_page_directory(State)
  <2>1. o = IF d.panic THEN d ELSE n
    BY DEF new_page_directory
  <2>2. Becomes(o) /\ memory' = IF o.panic THEN memory ELSE [memory EXCEPT ![p] = o.got]
    BY <1>6 DEF sys_exec
  <2>3. Books(State) /\ Owned(State.pat, State.grants)
    BY <1>1 DEF Lies
  <2>4. Books(d) /\ Owned(d.pat, d.grants) /\ (Stuck(State, d) \/ \E x : Fresh(State, d, x))
    BY <2>3, GetNextIs
  <2> HIDE DEF d, o
  <2>5. CASE Stuck(State, d)
    <3>1. o = d /\ o.panic = TRUE
      BY <2>1, <2>5 DEF Stuck
    <3>2. Lies(d, kind, home, Had)
      BY <1>1, <2>4, <2>5, LiesSame DEF Stuck
    <3>3. RootsIn(memory', call', kind)
      BY <1>1, <1>2, <2>2, <3>1
    <3>4. PICK H : H = Had
      OBVIOUS
    <3>5. Layout(kind, home)'
      BY <1>2, <2>2, <3>1, <3>2, <3>3, <3>4, BecomesLies
    <3>6. mem' = mem
      BY <1>1, <2>2, <2>5, <3>1 DEF Becomes, Stuck
    <3>7. SameView(mem, mem', kind, {})
      BY <3>6 DEF SameView
    <3> QED BY <3>5, <3>7 DEF LaidOut, Sees
  <2>6. ASSUME NEW x, Fresh(State, d, x) PROVE LaidOut(kind)
    <3>1. /\ x \in Pages /\ State.grants[x] = 0 /\ x \notin Unusable /\ d.got = x
          /\ d.panic = FALSE
          /\ PutRow(State.mem, d.mem, x, Zero) /\ CountUp(State.grants, d.grants, x)
      BY <2>6 DEF Fresh
    <3>2. o = n /\ Write(d, n, x, 0, page_table)
      BY <2>1, <3>1 DEF Write
    <3> HIDE DEF n
    <3>3. /\ Books(n) /\ Put(d.mem, n.mem, x, 0, page_table) /\ n.grants = d.grants
          /\ n.pat = d.pat /\ n.panic = d.panic /\ n.got = d.got
      BY <2>4, <3>2, WriteIs
    <3>4. PICK mm, gr, mn, gn, H, z :
              /\ mm = mem /\ gr = State.grants /\ mn = n.mem /\ gn = n.grants /\ H = Had
              /\ z = [Zero EXCEPT ![0] = page_table]
      OBVIOUS
    <3>5. Ground(mm, gr, kind, home, H)
      BY <1>1, <3>4 DEF Lies
    <3>6. Blank(z, "dir")
      BY <3>4 DEF Blank
    <3>7. PutRow(mm, mn, x, z)
      <4>1. mm \in Contents
        BY <3>5 DEF Ground
      <4>2. d.mem = [mm EXCEPT ![x] = Zero] /\ mn = [d.mem EXCEPT ![x][0] = page_table]
        BY <1>1, <3>1, <3>3, <3>4 DEF PutRow, Put
      <4>3. d.mem[x] = Zero /\ x \in DOMAIN mm
        BY <3>1, <4>1, <4>2 DEF Contents
      <4> QED BY <3>4, <4>1, <4>2, <4>3 DEF PutRow, Contents
    <3>8. CountUp(gr, gn, x) /\ gr[x] = 0
      BY <3>1, <3>3, <3>4
    <3>9. PICK r, k, h : r = "dir" /\ NewRole(kind, k, x, r) /\ NewHome(home, h, x, 0)
      BY DEF NewRole, NewHome
    <3>10. /\ Ground(mn, gn, k, h, H) /\ Extends(kind, k) /\ k[x] = r
           /\ \A X : SameView(mm, mn, kind, X)
      BY <3>1, <3>5, <3>6, <3>7, <3>8, <3>9, GroundNew
    <3>11. Lies(n, k, h, H)
      BY <2>4, <3>3, <3>4, <3>10 DEF Lies
    <3>12. x # NULL /\ IsRoot(x, k)
      BY <3>1, <3>9, <3>10, Constants DEF IsRoot
    <3>13. PICK new : new = memory' /\ PutRow(memory, new, p, x)
      BY <2>2, <3>1, <3>2, <3>3 DEF PutRow
    <3>14. RootsIn(new, call, k)
      BY <1>1, <3>1, <3>10, <3>12, <3>13, RootsNew
    <3>15. Layout(k, h)'
      BY <1>2, <2>2, <3>2, <3>4, <3>11, <3>13, <3>14, BecomesLies
    <3>16. mem' = mn
      BY <2>2, <3>2, <3>4 DEF Becomes
    <3>17. SameView(mem, mem', kind, {})
      BY <3>4, <3>10, <3>16
    <3> QED BY <3>15, <3>17 DEF LaidOut, Sees
  <2> QED BY <2>4, <2>5, <2>6
<1> QED BY <1>5, <1>6

\* The page that malloc wipes is its own, or a frame.
LEMMA WipedIs ==
  ASSUME NEW kind, NEW home, Layout(kind, home), Straight,
         NEW p \in Procs, memory[p] # NULL, NEW page \in Pages, kind[page] = "other",
         NEW frame, frame = get_phys_address(memory[p], page * PAGE_SIZE), frame # NULL
  PROVE  frame \in Pages /\ kind[frame] \in {"other", "frame"}
<1>1. Ground(mem, grants, kind, home, Had) /\ RootsIn(memory, call, kind)
  BY DEF Layout
<1>2. PICK dir : dir = memory[p] /\ dir \in Pages
  BY <1>1 DEF RootsIn
<1>3. PICK v : v = page * PAGE_SIZE /\ v \in VirtualPages
  <2>1. Pages = 0 .. KB * KB - 1
    BY MemoryAssumption DEF Pages
  <2> QED BY <2>1 DEF VirtualPages
<1>4. PICK e \in Entries, f \in Entries :
         v = (e * KB + f) * PAGE_SIZE /\ pde_index(v) = e /\ pte_index(v) = f
  BY <1>3, EntriesOf
<1>5. page = e * KB + f
  <2>1. PICK B \in Nat : B = PAGE_SIZE /\ B >= 1
    BY Constants
  <2>2. page \in Nat
    BY Constants DEF Pages
  <2>3. PICK k \in Nat : k = e * KB + f
    <3>1. e * KB + f \in Pages
      BY PageOfEntries
    <3> QED BY <3>1, Constants DEF Pages
  <2>4. page * B = k * B
    BY <1>3, <1>4, <2>1, <2>3
  <2>5. (page * B) \div B = page /\ (k * B) \div B = k
    BY <2>1, <2>2, <2>3
  <2> QED BY <2>3, <2>4, <2>5
<1>6. frame = Phys(mem, dir, e, f)
  BY <1>2, <1>3, <1>4 DEF get_phys_address, Phys
<1>7. PICK t : t = mem[dir][e]
  OBVIOUS
<1>8. t # NULL /\ frame = mem[t][f]
  BY <1>6, <1>7 DEF Phys
<1>9. ASSUME t = Identity[page_directory][e] PROVE frame = page
  <2>1. t \in IdentityTables
    BY <1>9 DEF Identity, IdentityTables
  <2>2. mem[t] = Identity[t]
    BY <1>1, <2>1 DEF Ground, Fixed
  <2>3. Identity[t][f] = e * KB + f
    BY <1>9 DEF Straight
  <2> QED BY <1>5, <1>8, <2>2, <2>3
<1>10. CASE dir = page_directory
  <2>1. page_directory \in IdentityTables
    BY DEF IdentityTables
  <2>2. mem[page_directory] = Identity[page_directory]
    BY <1>1, <2>1 DEF Ground, Fixed
  <2> QED BY <1>7, <1>9, <1>10, <2>2
<1>11. CASE dir # page_directory
  <2>1. kind[dir] = "dir"
    BY <1>1, <1>2, <1>11 DEF RootsIn, IsRoot
  <2>2. CASE e = 0
    <3>1. t = page_table
      BY <1>1, <1>2, <1>7, <2>1, <2>2 DEF Ground, Dirs
    <3>2. t = Identity[page_directory][e]
      BY <2>2, <3>1 DEF page_table, Identity
    <3> QED BY <1>9, <3>2
  <2>3. CASE e # 0
    <3>1. IsTable(t, kind, home, dir, e)
      BY <1>1, <1>2, <1>7, <2>1, <2>3 DEF Ground, Dirs
    <3>2. kind[t] = "table"
      BY <1>8, <3>1 DEF IsTable
    <3>3. t \in Pages /\ frame \in Pages
      <4>1. mem \in Contents
        BY <1>1 DEF Ground
      <4>2. t \in Pages
        BY <1>2, <1>7, <4>1 DEF Contents
      <4> QED BY <1>8, <4>1, <4>2 DEF Contents
    <3>4. IsFrame(frame, kind)
      BY <1>1, <1>8, <3>2, <3>3 DEF Ground, Tabs
    <3>5. frame \in Unusable => kind[frame] = "other"
      BY <1>1, <3>3 DEF Ground, Kept
    <3> QED BY <3>3, <3>4, <3>5 DEF IsFrame
  <2> QED BY <2>2, <2>3
<1> QED BY <1>10, <1>11

\* malloc has found a page, which it wipes and takes.
LEMMA ReturnLies ==
  ASSUME NEW kind, NEW home, Layout(kind, home), Straight, Typed, Typed', HeldOnce',
         NEW p \in Procs, Seen(call[p]), malloc_return(p)
  PROVE  LaidOut(kind)
<1>1. /\ Ground(mem, grants, kind, home, Had) /\ RootsIn(memory, call, kind)
      /\ call \in [Procs -> Calling] /\ held \in [Procs -> SUBSET Pages]
      /\ grants \in [Pages -> Int]
  BY DEF Layout, Typed
<1>2. PICK page : page = call[p].page
  OBVIOUS
<1>3. page \in Pages /\ call[p].at = "return" /\ grants[page] = 0
  BY <1>1, <1>2 DEF malloc_return, Moves, Seen, Calling
<1>4. memory[p] # NULL
  BY <1>1, <1>3 DEF RootsIn
<1>5. kind[page] = "other"
  BY <1>1, <1>3 DEF Ground, Kept
<1>6. PICK frame : frame = get_phys_address(memory[p], page * PAGE_SIZE)
  OBVIOUS
<1>7. CASE frame = NULL
  <2>1. gone(p) /\ mem' = mem /\ grants' = grants
    BY <1>2, <1>6, <1>7 DEF malloc_return
  <2> QED BY <2>1, ExitLies
<1>8. CASE frame # NULL
  <2>1. frame \in Pages /\ kind[frame] \in {"other", "frame"}
    BY <1>3, <1>4, <1>5, <1>6, <1>8, WipedIs
  <2>2. /\ mem' = [mem EXCEPT ![frame] = Zero]
        /\ grants' = [grants EXCEPT ![page] = @ + 1]
        /\ held' = [held EXCEPT ![p] = @ \cup {page}]
        /\ call' = [call EXCEPT ![p] = NoCall] /\ memory' = memory
    BY <1>2, <1>6, <1>8 DEF malloc_return
  <2>3. PICK mn, gn, Hn, cn, H :
            /\ mn = mem' /\ gn = grants' /\ Hn = Had' /\ cn = call' /\ H = Had
            /\ PutRow(mem, mn, frame, Zero)
    BY <2>2 DEF PutRow
  <2>4. PICK X : X = {}
    OBVIOUS
  <2>5. Ground(mn, grants, kind, home, H) /\ SameView(mem, mn, kind, X)
    BY <1>1, <2>1, <2>3, GroundWipe
  <2>6. gn \in [Pages -> Int] /\ \A x \in Hn : x \in Pages /\ gn[x] = 1
    BY <2>3, HadNext
  <2>7. Hn \subseteq H \cup {page}
    <3>1. \A q \in Procs : held'[q] \subseteq held[q] \cup {page}
      BY <1>1, <2>2
    <3> QED BY <2>3, <3>1 DEF Had
  <2>8. \A x \in Pages : kind[x] # "other" => gn[x] = grants[x] /\ x \notin Hn
    <3>1. ASSUME NEW x \in Pages, kind[x] # "other" PROVE gn[x] = grants[x] /\ x \notin Hn
      <4>1. x # page
        BY <1>5, <3>1
      <4>2. x \notin H
        BY <2>5, <3>1 DEF Ground, Kept
      <4>3. gn[x] = grants[x]
        BY <1>1, <2>2, <2>3, <4>1
      <4> QED BY <2>7, <4>1, <4>2, <4>3
    <3> QED BY <3>1
  <2>9. Ground(mn, gn, kind, home, Hn)
    BY <2>5, <2>6, <2>8, GroundHands
  <2>10. RootsIn(memory, cn, kind)
    <3>1. \A q \in Procs : memory[q] = NULL => cn[q].at = "none"
      BY <1>1, <1>4, <2>2, <2>3 DEF RootsIn
    <3>2. Extends(kind, kind)
      BY DEF Extends
    <3> QED BY <1>1, <3>1, <3>2, RootsSame
  <2>11. Layout(kind, home)'
    BY <2>2, <2>3, <2>9, <2>10, LayoutNext
  <2>12. SameView(mem, mem', kind, {})
    BY <2>3, <2>4, <2>5
  <2> QED BY <2>11, <2>12 DEF LaidOut, Sees
<1> QED BY <1>7, <1>8

\* A page goes back.
LEMMA FreeLoadLies ==
  ASSUME NEW kind, NEW home, Layout(kind, home), Typed, Typed', HeldOnce',
         NEW p \in Procs, NEW page \in held[p], free_load(p, page)
  PROVE  LaidOut(kind)
<1>1. /\ Ground(mem, grants, kind, home, Had) /\ RootsIn(memory, call, kind)
      /\ call \in [Procs -> Calling] /\ held \in [Procs -> SUBSET Pages]
      /\ grants \in [Pages -> Int]
  BY DEF Layout, Typed
<1>2. page \in Had /\ page \in Pages
  BY <1>1 DEF Had
<1>3. kind[page] = "other"
  BY <1>1, <1>2 DEF Ground, Kept
<1>4. memory[p] # NULL
  BY DEF free_load, Calls, Alive
<1>5. PICK c : call' = [call EXCEPT ![p] = c]
  BY DEF free_load
<1>6. /\ held' = [held EXCEPT ![p] = @ \ {page}] /\ grants' = [grants EXCEPT ![page] = @ - 1]
      /\ mem' = mem /\ memory' = memory
  BY DEF free_load
<1>7. PICK gn, Hn, cn, H : gn = grants' /\ Hn = Had' /\ cn = call' /\ H = Had
  OBVIOUS
<1>8. gn \in [Pages -> Int] /\ \A x \in Hn : x \in Pages /\ gn[x] = 1
  BY <1>7, HadNext
<1>9. Hn \subseteq H
  <2>1. \A q \in Procs : held'[q] \subseteq held[q]
    BY <1>1, <1>6
  <2> QED BY <1>7, <2>1 DEF Had
<1>10. \A x \in Pages : kind[x] # "other" => gn[x] = grants[x] /\ x \notin Hn
  <2>1. ASSUME NEW x \in Pages, kind[x] # "other" PROVE gn[x] = grants[x] /\ x \notin Hn
    <3>1. x # page
      BY <1>3, <2>1
    <3>2. x \notin H
      BY <1>1, <1>7, <2>1 DEF Ground, Kept
    <3>3. gn[x] = grants[x]
      BY <1>1, <1>6, <1>7, <3>1
    <3> QED BY <1>9, <3>2, <3>3
  <2> QED BY <2>1
<1>11. Ground(mem, gn, kind, home, Hn)
  <2>1. Ground(mem, grants, kind, home, H)
    BY <1>1, <1>7
  <2> QED BY <2>1, <1>8, <1>10, GroundHands
<1>12. RootsIn(memory, cn, kind)
  <2>1. \A q \in Procs : memory[q] = NULL => cn[q].at = "none"
    BY <1>1, <1>4, <1>5, <1>7 DEF RootsIn
  <2>2. Extends(kind, kind)
    BY DEF Extends
  <2> QED BY <1>1, <2>1, <2>2, RootsSame
<1>13. Layout(kind, home)'
  BY <1>6, <1>7, <1>11, <1>12, LayoutNext
<1>14. SameView(mem, mem', kind, {})
  BY <1>6 DEF SameView
<1> QED BY <1>13, <1>14 DEF LaidOut, Sees

\* the steps inside malloc and free that only read, or write the table
Steps(p) ==
  \/ malloc_start(p) \/ malloc_scan(p) \/ set_pat_load(p) \/ set_pat_store(p) \/ free_store(p)

LEMMA StepsLie ==
  ASSUME NEW kind, NEW home, Layout(kind, home), Typed, Typed', HeldOnce',
         NEW p \in Procs, Steps(p)
  PROVE  LaidOut(kind)
<1>1. RootsIn(memory, call, kind) /\ call \in [Procs -> Calling]
  BY DEF Layout, Typed
<1>2. memory[p] # NULL
  <2>1. CASE malloc_start(p)
    BY <2>1 DEF malloc_start, Calls, Alive
  <2>2. CASE ~malloc_start(p)
    <3>1. call[p].at # "none"
      BY <2>2 DEF Steps, malloc_scan, set_pat_load, set_pat_store, free_store, Moves
    <3> QED BY <1>1, <3>1 DEF RootsIn
  <2> QED BY <2>1, <2>2
<1>3. mem' = mem /\ memory' = memory /\ grants' = grants /\ held' = held
  BY DEF Steps, malloc_start, malloc_scan, set_pat_load, set_pat_store, free_store
<1>4. \E c : call' = [call EXCEPT ![p] = c]
  <2>1. CASE malloc_start(p)
    BY <2>1 DEF malloc_start
  <2>2. CASE malloc_scan(p)
    BY <2>2, <1>1 DEF malloc_scan
  <2>3. CASE set_pat_load(p)
    BY <2>3, <1>1 DEF set_pat_load
  <2>4. CASE set_pat_store(p)
    BY <2>4, <1>1 DEF set_pat_store
  <2>5. CASE free_store(p)
    BY <2>5 DEF free_store
  <2> QED BY <2>1, <2>2, <2>3, <2>4, <2>5 DEF Steps
<1>5. PICK c : call' = [call EXCEPT ![p] = c]
  BY <1>4
<1> QED BY <1>2, <1>3, <1>5, CallLies

\* The layout that setup_initial_page_table leaves.
LEMMA InitLies == Init => LInv
<1> SUFFICES ASSUME Init PROVE LInv
  OBVIOUS
<1> DEFINE s == setup_initial_page_table
<1>1. /\ mem = Identity /\ grants = s.grants /\ panic = s.panic
      /\ memory = [p \in Procs |-> IF p = InitProc THEN page_directory ELSE NULL]
      /\ call = [p \in Procs |-> NoCall] /\ held = [p \in Procs |-> {}]
  BY DEF Init, Identity
<1>2. s.panic \/ SetUp(Identity, s.grants, page_directory, KB)
  BY SetupIs DEF Identity
<1>3. s.panic \in BOOLEAN
  BY <1>1, InitOK DEF IInv, Typed
<1> HIDE DEF s
<1>4. CASE s.panic
  BY <1>1, <1>4 DEF LInv
<1>5. CASE ~s.panic
  <2>1. SetUp(mem, grants, page_directory, KB)
    BY <1>1, <1>2, <1>5
  <2>2. /\ mem \in Contents /\ grants \in [Pages -> Int]
        /\ page_directory \in Pages /\ page_directory \notin Unusable
        /\ grants[page_directory] = 1
    BY <2>1 DEF SetUp
  <2>3. \A e \in Entries : OneToOne(mem, grants, page_directory, e)
    BY <2>1 DEF SetUp, Entries
  <2>4. Straight
    BY <1>1, <2>2, <2>3 DEF Straight, OneToOne
  <2>5. \A x \in IdentityTables : x \in Pages /\ x \notin Unusable /\ grants[x] = 1
    <3>1. IdentityTables = {page_directory} \cup {mem[page_directory][e] : e \in Entries}
      BY <1>1 DEF IdentityTables, Identity
    <3> QED BY <2>2, <2>3, <3>1 DEF OneToOne
  <2>6. PICK kind, home :
            /\ kind = [x \in Pages |-> IF x \in IdentityTables THEN "identity" ELSE "other"]
            /\ home = {}
    OBVIOUS
  <2>7. kind \in [Pages -> Roles]
    BY <2>6 DEF Roles
  <2>8. Had = {}
    BY <1>1 DEF Had
  <2>9. Kept(grants, kind, Had)
    BY <2>5, <2>6, <2>8 DEF Kept
  <2>10. Fixed(mem, kind)
    BY <1>1, <2>5, <2>6 DEF Fixed
  <2>11. Dirs(mem, kind, home) /\ Tabs(mem, kind)
    BY <2>6 DEF Dirs, Tabs
  <2>12. RootsIn(memory, call, kind)
    <3>1. NULL \in Pages /\ NoCall.at = "none"
      BY Constants DEF NoCall
    <3> QED BY <1>1, <2>2, <3>1 DEF RootsIn, IsRoot
  <2>13. Layout(kind, home)
    BY <2>2, <2>7, <2>9, <2>10, <2>11, <2>12 DEF Layout, Ground
  <2> QED BY <2>4, <2>13 DEF LInv
<1> QED BY <1>4, <1>5

\* A step from a layout.
LEMMA StepLies ==
  ASSUME PlainRanges, Typed, Safe, Typed', HeldOnce', Straight, Next,
         NEW kind, NEW home, Layout(kind, home)
  PROVE  LaidOut(kind)
<1>1. Owned(page_availibility_table, grants) /\ \A p \in Procs : Seen(call[p])
  BY DEF Safe
<1>2. CASE \E p, q \in Procs : sys_fork(p, q)
  BY <1>2, ForkLies
<1>3. CASE \E p \in Procs, prio \in Prios : sys_exec(p, prio)
  BY <1>1, <1>3, ExecLaysOut
<1>4. CASE \E p \in Procs, a \in MmapArgs : sys_mmap(p, a)
  BY <1>1, <1>4, MmapLaysOut
<1>5. CASE \E p \in Procs : sys_exit(p)
  BY <1>5, ExitLies DEF sys_exit
<1>6. CASE \E p \in Procs : Steps(p)
  BY <1>6, StepsLie
<1>7. CASE \E p \in Procs : malloc_return(p)
  BY <1>1, <1>7, ReturnLies
<1>8. CASE \E p \in Procs : \E page \in held[p] : free_load(p, page)
  BY <1>8, FreeLoadLies
<1>9. CASE Halted
  <2>1. mem' = mem /\ grants' = grants /\ held' = held /\ memory' = memory /\ call' = call
    BY <1>9 DEF Halted, vars
  <2>2. Had' \subseteq Had
    BY <2>1 DEF Had
  <2>3. RootsIn(memory', call', kind)
    BY <2>1 DEF Layout
  <2> QED BY <2>1, <2>2, <2>3, QuietLies
<1> QED BY <1>2, <1>3, <1>4, <1>5, <1>6, <1>7, <1>8, <1>9 DEF Next, Steps

\* Uses of the table that have overlapped stay so, and a panic is the end.
LEMMA StepEnds ==
  ASSUME Typed, Typed', Next
  PROVE  (overlap => overlap') /\ (panic => Halted)
<1>1. overlap => overlap'
  BY DEF Typed, Next, Halted, vars, sys_fork, sys_exec, sys_mmap, sys_exit, malloc_start,
         malloc_scan, set_pat_load, set_pat_store, malloc_return, free_load, free_store, Touched
<1>2. panic => Halted
  BY DEF Next, sys_fork, sys_exec, sys_mmap, sys_exit, malloc_start, malloc_scan,
         set_pat_load, set_pat_store, malloc_return, free_load, free_store, Calls, Moves
<1> QED BY <1>1, <1>2

\* What a step does to the invariant, and to what the address spaces see.
LEMMA LayoutKept ==
  ASSUME PlainRanges, IInv, IInv', LInv, Next, ~overlap'
  PROVE  /\ \/ UNCHANGED vars
            \/ \E kind, home : Layout(kind, home) /\ LaidOut(kind)
         /\ LInv'
<1>1. Typed /\ Typed' /\ HeldOnce'
  BY DEF IInv, Safe
<1>2. ~overlap /\ (panic => Halted)
  BY <1>1, StepEnds
<1>3. Safe
  BY <1>2 DEF IInv
<1>4. CASE panic /\ \A x \in IdentityTables : mem[x] = Identity[x]
  <2>1. UNCHANGED vars
    BY <1>2, <1>4 DEF Halted
  <2>2. panic' /\ mem' = mem
    BY <1>4, <2>1 DEF vars
  <2>3. \A x \in IdentityTables : mem'[x] = Identity[x]
    BY <1>4, <2>2
  <2> QED BY <2>1, <2>2, <2>3 DEF LInv
<1>5. CASE Straight /\ \E kind, home : Layout(kind, home)
  <2>1. PICK kind, home : Layout(kind, home)
    BY <1>5
  <2>2. LaidOut(kind)
    BY <1>1, <1>3, <1>5, <2>1, StepLies
  <2>3. \E k, h : Layout(k, h)'
    BY <2>2 DEF LaidOut
  <2> QED BY <1>5, <2>1, <2>2, <2>3 DEF LInv
<1> QED BY <1>2, <1>4, <1>5 DEF LInv

-----------------------------------------------------------------------------
(* Theorems *)

\* What malloc and free have read of the table holds until an overlap.
THEOREM Invariance == Spec => []IInv
<1>1. Init => IInv
  BY InitOK
<1>2. IInv /\ [Next]_vars => IInv'
  <2>1. CASE Next
    BY <2>1, StepOK
  <2>2. CASE UNCHANGED vars
    <3>1. PICK p \in Procs : p = InitProc
      BY MemoryAssumption
    <3> QED BY <2>2, <3>1, ForkOK DEF vars
  <2> QED BY <2>1, <2>2
<1> QED BY <1>1, <1>2, PTL DEF Spec

\* get_next_page: until two uses of the table have overlapped, no page is
\* given out twice, and every page that is given out, or that was in use
\* before there were processes, is marked.
THEOREM PagesOwnedOnce == Spec => []PageOwnedOnce
<1>1. IInv => PageOwnedOnce
  BY DEF IInv, Safe, Owned, PageOwnedOnce, Marked, MarkedIn
<1> QED BY <1>1, Invariance, PTL

\* get_next_page: until two uses of the table have overlapped, there is no
\* panic for want of memory while a page is free.
THEOREM SearchIsComplete == Spec => PanicOnlyWhenFull
<1> DEFINE Allowed == \A p \in Procs, a \in MmapArgs :
                        sys_mmap(p, a) => memory[p] # page_directory /\ a.v >= SECOND_PDE
           Step == ~overlap' /\ panic' /\ Allowed => \A page \in Pages : Marked(page)'
<1>1. IInv /\ [Next]_vars => [Step]_vars
  <2> SUFFICES ASSUME IInv, Next, ~overlap', panic', Allowed, ~UNCHANGED vars,
                      NEW page \in Pages
               PROVE  Marked(page)'
    OBVIOUS
  <2>1. ~panic
    BY DEF Next, Halted, sys_fork, sys_exec, sys_mmap, sys_exit, malloc_start, malloc_scan,
           set_pat_load, set_pat_store, malloc_return, free_load, free_store, Calls, Moves
  <2>2. ASSUME NEW p \in Procs, NEW a \in MmapArgs, sys_mmap(p, a)
        PROVE  ~(memory[p] = page_directory \/ a.v < SECOND_PDE)
    <3>1. a.v \in Int /\ SECOND_PDE \in Int
      <4>1. PICK A : A = AddressSpace /\ {a.v, a.p, a.len} \subseteq 0 .. A - 1
        BY MemoryAssumption
      <4>2. KB \in Nat /\ PAGE_SIZE \in Nat
        BY Constants
      <4> QED BY <4>1, <4>2 DEF SECOND_PDE
    <3>2. memory[p] # page_directory /\ a.v >= SECOND_PDE
      BY <2>2
    <3> QED BY <3>1, <3>2
  <2>3. Full(page_availibility_table')
    BY <2>1, <2>2, StepOK
  <2>4. index(page) \in Bytes /\ bit(page) \in Bits
    BY PageIs
  <2> QED BY <2>3, <2>4 DEF Full, Marked
<1> QED BY <1>1, Invariance, PTL DEF Spec, PanicOnlyWhenFull

\* Until two uses of the table have overlapped, every page keeps its role: mmap
\* writes only to the directory and the tables of its caller, exec to a new
\* directory, and malloc wipes a frame or the page that it has found.
THEOREM LayoutHolds == PlainRanges => (Spec => [](IInv /\ LInv))
<1> SUFFICES ASSUME PlainRanges PROVE Spec => [](IInv /\ LInv)
  OBVIOUS
<1>1. Init => IInv /\ LInv
  BY InitOK, InitLies
<1>2. IInv /\ IInv' /\ LInv /\ [Next]_vars => LInv'
  <2> SUFFICES ASSUME IInv, IInv', LInv, [Next]_vars PROVE LInv'
    OBVIOUS
  <2>1. CASE Next
    <3>1. CASE overlap'
      BY <3>1 DEF LInv
    <3>2. CASE ~overlap'
      BY <2>1, <3>2, LayoutKept
    <3> QED BY <3>1, <3>2
  <2>2. CASE UNCHANGED vars
    <3>1. CASE panic
      <4>1. Next
        BY <2>2, <3>1 DEF Next, Halted
      <4>2. CASE overlap'
        BY <4>2 DEF LInv
      <4>3. CASE ~overlap'
        BY <4>1, <4>3, LayoutKept
      <4> QED BY <4>2, <4>3
    <3>2. CASE ~panic
      BY <2>2, <3>2 DEF vars, LInv, Layout, Had
    <3> QED BY <3>1, <3>2
  <2> QED BY <2>1, <2>2
<1> QED BY <1>1, <1>2, Invariance, PTL DEF Spec

\* _k_mmap: when the arguments of mmap are plain, nothing is written to the
\* tables that map 1:1 until two uses of the table of pages have overlapped.
THEOREM IdentityKept == PlainRanges => (Spec => []IdentityUntouched)
<1> SUFFICES ASSUME PlainRanges PROVE Spec => []IdentityUntouched
  OBVIOUS
<1>1. LInv => IdentityUntouched
  <2> SUFFICES ASSUME LInv, ~overlap, NEW page \in IdentityTables
               PROVE  mem[page] = Identity[page]
    BY DEF IdentityUntouched, Identity
  <2> QED BY DEF LInv, Layout, Ground, Fixed
<1> QED BY <1>1, LayoutHolds, PTL

\* Under the same conditions a process sees something else at an address only
\* after mmap, by a process with the same directory, of a range with it.
THEOREM MappingsKept == PlainRanges => (Spec => MappingsStable)
<1> SUFFICES ASSUME PlainRanges PROVE Spec => MappingsStable
  OBVIOUS
<1> DEFINE Maps(dir, v) == \E p \in Procs, a \in MmapArgs :
                              sys_mmap(p, a) /\ memory[p] = dir /\ v \in Covered(a)
           Stable == ~overlap' =>
                       \A dir \in Spaces, v \in VirtualPages :
                          (get_phys_address(dir, v))' # get_phys_address(dir, v) => Maps(dir, v)
<1>1. IInv /\ IInv' /\ LInv /\ [Next]_vars => [Stable]_vars
  <2> SUFFICES ASSUME IInv, IInv', LInv, Next, ~UNCHANGED vars, ~overlap',
                      NEW dir \in Spaces, NEW v \in VirtualPages,
                      (get_phys_address(dir, v))' # get_phys_address(dir, v)
               PROVE  Maps(dir, v)
    OBVIOUS
  <2>1. PICK kind, home : Layout(kind, home) /\ LaidOut(kind)
    BY LayoutKept
  <2>2. dir \in Pages /\ kind[dir] = "dir"
    BY <2>1 DEF Spaces, Alive, Layout, RootsIn, IsRoot
  <2>3. PICK e \in Entries, f \in Entries : pde_index(v) = e /\ pte_index(v) = f
    BY EntriesOf
  <2>4. Phys(mem', dir, e, f) # Phys(mem, dir, e, f)
    BY <2>3 DEF get_phys_address, Phys
  <2>5. ASSUME NEW X, SameView(mem, mem', kind, X) PROVE <<dir, e, f>> \in X
    BY <2>2, <2>3, <2>4, <2>5 DEF SameView
  <2>6. PICK p \in Procs, a \in MmapArgs :
            sys_mmap(p, a) /\ SameView(mem, mem', kind, Reach(memory[p], a))
    BY <2>1, <2>5 DEF LaidOut, Sees
  <2>7. <<dir, e, f>> \in Reach(memory[p], a)
    BY <2>5, <2>6
  <2>8. PICK w \in Covered(a) : memory[p] = dir /\ pde_index(w) = e /\ pte_index(w) = f
    BY <2>7 DEF Reach
  <2>9. w = v
    BY <2>3, <2>8, EntriesDiffer DEF Covered
  <2> QED BY <2>6, <2>8, <2>9
<1> QED BY <1>1, LayoutHolds, PTL DEF Spec, MappingsStable
=============================================================================
