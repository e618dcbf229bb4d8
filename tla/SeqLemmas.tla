------------------------------ MODULE SeqLemmas ------------------------------
(***************************************************************************)
(* What the sequence operations behind the kernel's queues do to the set   *)
(* of entries.  A queue without duplicates is an injective sequence.       *)
(***************************************************************************)
EXTENDS SequencesExt, FiniteSetTheorems, SequenceTheorems, WellFoundedInduction,
        TLAPS

(***************************************************************************)
(* A non-empty set of naturals has a least element.                        *)
(***************************************************************************)
LEMMA LeastNat ==
  ASSUME NEW S, S \subseteq Nat, S # {}
  PROVE  \E x \in S : \A y \in S : x <= y
<1> DEFINE R == {ss \in Nat \X Nat : ss[1] < ss[2]}
<1>1. IsWellFoundedOn(R, Nat)
  BY NatLessThanWellFounded DEF OpToRel
<1>2. PICK x \in S : \A y \in S : ~ (<<y, x>> \in R)
  <2> HIDE DEF R
  <2> QED BY <1>1, WFMin
<1>3. ASSUME NEW y \in S PROVE x <= y
  <2>1. x \in Nat /\ y \in Nat
    OBVIOUS
  <2>2. y < x => <<y, x>> \in R
    BY <2>1
  <2> QED
    BY <1>2, <2>1, <2>2
<1> QED
  BY <1>3

(***************************************************************************)
(* A function on 1 .. n is a sequence.                                     *)
(***************************************************************************)
LEMMA FcnIsSeq ==
  ASSUME NEW T, NEW n \in Nat, NEW f \in [1 .. n -> T]
  PROVE  f \in Seq(T) /\ Len(f) = n
  OBVIOUS

(***************************************************************************)
(* A piece of a sequence.                                                  *)
(***************************************************************************)
LEMMA Piece ==
  ASSUME NEW T, NEW s \in Seq(T), NEW m \in 1 .. Len(s) + 1,
         NEW n \in m - 1 .. Len(s)
  PROVE  /\ SubSeq(s, m, n) \in Seq(T)
         /\ Len(SubSeq(s, m, n)) = n - m + 1
         /\ \A i \in 1 .. n - m + 1 : SubSeq(s, m, n)[i] = s[m + i - 1]
<1>1. m \in Int /\ n \in Int /\ n >= m - 1 /\ m .. n \subseteq 1 .. Len(s)
  OBVIOUS
<1>2. \A i \in m .. n : s[i] \in T
  BY <1>1, ElementOfSeq
<1>3. /\ SubSeq(s, m, n) \in Seq(T)
      /\ Len(SubSeq(s, m, n)) = IF m <= n THEN n - m + 1 ELSE 0
      /\ \A i \in 1 .. n - m + 1 : SubSeq(s, m, n)[i] = s[m + i - 1]
  BY <1>1, <1>2, SubSeqProperties
<1>4. (IF m <= n THEN n - m + 1 ELSE 0) = n - m + 1
  BY <1>1
<1> QED
  BY <1>3, <1>4, Zenon

(***************************************************************************)
(* Append puts one entry in.                                               *)
(***************************************************************************)
LEMMA AppendRange ==
  ASSUME NEW T, NEW q \in Seq(T), NEW x \in T, x \notin Range(q), IsInjective(q)
  PROVE  /\ Append(q, x) \in Seq(T)
         /\ Len(Append(q, x)) = Len(q) + 1
         /\ IsInjective(Append(q, x))
         /\ Range(Append(q, x)) = Range(q) \cup {x}
<1> DEFINE a == Append(q, x)
<1>1. /\ a \in Seq(T) /\ Len(a) = Len(q) + 1 /\ DOMAIN a = 1 .. Len(q) + 1
      /\ DOMAIN q = 1 .. Len(q) /\ Len(q) \in Nat
      /\ \A i \in 1 .. Len(q) : a[i] = q[i]
      /\ a[Len(q) + 1] = x
  BY AppendProperties
<1> HIDE DEF a
<1>2. IsInjective(a)
  <2>1. SUFFICES ASSUME NEW i \in 1 .. Len(q) + 1, NEW j \in 1 .. Len(q) + 1,
                        a[i] = a[j]
                 PROVE  i = j
    BY <1>1 DEF IsInjective
  <2>2. \A k \in 1 .. Len(q) : q[k] # x
    BY <1>1 DEF Range
  <2> QED
    BY <1>1, <2>1, <2>2 DEF IsInjective
<1>3. Range(a) = Range(q) \cup {x}
  <2>1. Range(a) \subseteq Range(q) \cup {x}
    BY <1>1 DEF Range
  <2>2. Range(q) \subseteq Range(a)
    BY <1>1 DEF Range
  <2>3. x \in Range(a)
    BY <1>1 DEF Range
  <2> QED
    BY <2>1, <2>2, <2>3
<1> QED
  BY <1>1, <1>2, <1>3 DEF a

(***************************************************************************)
(* RemoveAt closes the gap at that place ...                               *)
(***************************************************************************)
LEMMA RemoveAtEntries ==
  ASSUME NEW T, NEW q \in Seq(T), NEW k \in 1 .. Len(q)
  PROVE  /\ RemoveAt(q, k) \in Seq(T) /\ Len(RemoveAt(q, k)) = Len(q) - 1
         /\ \A i \in 1 .. Len(q) - 1 :
              RemoveAt(q, k)[i] = IF i < k THEN q[i] ELSE q[i + 1]
<1> DEFINE a == RemoveAt(q, k)
<1>1. /\ SubSeq(q, 1, k - 1) \in Seq(T) /\ Len(SubSeq(q, 1, k - 1)) = k - 1
      /\ \A i \in 1 .. k - 1 : SubSeq(q, 1, k - 1)[i] = q[i]
  BY SubSeqProperties
<1>2. /\ SubSeq(q, k + 1, Len(q)) \in Seq(T)
      /\ Len(SubSeq(q, k + 1, Len(q))) = Len(q) - k
      /\ \A i \in 1 .. Len(q) - k : SubSeq(q, k + 1, Len(q))[i] = q[k + i]
  BY SubSeqProperties
<1> DEFINE b == SubSeq(q, 1, k - 1)
           c == SubSeq(q, k + 1, Len(q))
<1> HIDE DEF b, c
<1>3. a = b \o c
  BY DEF a, b, c, RemoveAt
<1> HIDE DEF a
<1>4. /\ a \in Seq(T) /\ Len(a) = Len(b) + Len(c)
      /\ \A i \in 1 .. Len(b) + Len(c) :
           a[i] = IF i <= Len(b) THEN b[i] ELSE c[i - Len(b)]
  <2>1. b \in Seq(T) /\ c \in Seq(T)
    BY <1>1, <1>2 DEF b, c
  <2> QED BY <2>1, <1>3, ConcatProperties, Zenon
<1>5. Len(q) \in Nat /\ k \in Int /\ 1 <= k /\ k <= Len(q)
  OBVIOUS
<1>6. Len(b) = k - 1 /\ Len(c) = Len(q) - k
  BY <1>1, <1>2 DEF b, c
<1>7. /\ a \in Seq(T) /\ Len(a) = Len(q) - 1
      /\ \A i \in 1 .. Len(q) - 1 :
           a[i] = IF i <= k - 1 THEN b[i] ELSE c[i - (k - 1)]
  <2>1. a \in Seq(T) /\ Len(a) = Len(q) - 1
    BY <1>4, <1>5, <1>6
  <2>2. ASSUME NEW i \in 1 .. Len(q) - 1
        PROVE  a[i] = IF i <= k - 1 THEN b[i] ELSE c[i - (k - 1)]
    <3>1. i \in 1 .. Len(b) + Len(c)
      BY <1>5, <1>6
    <3> QED BY <3>1, <1>4, <1>6
  <2> QED BY <2>1, <2>2
<1>8. \A i \in 1 .. k - 1 : b[i] = q[i]
  BY <1>1 DEF b
<1>9. \A i \in 1 .. Len(q) - k : c[i] = q[k + i]
  BY <1>2 DEF c
<1>10. ASSUME NEW i \in 1 .. Len(q) - 1
       PROVE  a[i] = IF i < k THEN q[i] ELSE q[i + 1]
  <2>1. CASE i < k
    BY <2>1, <1>5, <1>7, <1>8
  <2>2. CASE ~(i < k)
    <3>1. i - (k - 1) \in 1 .. Len(q) - k /\ k + (i - (k - 1)) = i + 1
      BY <2>2, <1>5
    <3>2. a[i] = c[i - (k - 1)]
      BY <2>2, <1>5, <1>7
    <3> QED BY <3>1, <3>2, <1>9, <2>2
  <2> QED BY <2>1, <2>2
<1> QED
  BY <1>7, <1>10 DEF a

\* ... and takes exactly that entry out.
LEMMA RemoveAtRange ==
  ASSUME NEW T, NEW q \in Seq(T), NEW k \in 1 .. Len(q), IsInjective(q)
  PROVE  /\ RemoveAt(q, k) \in Seq(T)
         /\ IsInjective(RemoveAt(q, k))
         /\ Range(RemoveAt(q, k)) = Range(q) \ {q[k]}
<1> DEFINE a == RemoveAt(q, k)
<1>1. /\ a \in Seq(T) /\ Len(a) = Len(q) - 1
      /\ \A i \in 1 .. Len(q) - 1 : a[i] = IF i < k THEN q[i] ELSE q[i + 1]
  BY RemoveAtEntries
<1> HIDE DEF a
<1>2. DOMAIN a = 1 .. Len(q) - 1 /\ DOMAIN q = 1 .. Len(q) /\ Len(q) \in Nat
  BY <1>1
<1>3. IsInjective(a)
  <2> SUFFICES ASSUME NEW i \in 1 .. Len(q) - 1, NEW j \in 1 .. Len(q) - 1,
                      a[i] = a[j]
               PROVE  i = j
    BY <1>2 DEF IsInjective
  <2> DEFINE at(n) == IF n < k THEN n ELSE n + 1
  <2>1. at(i) \in 1 .. Len(q) /\ at(j) \in 1 .. Len(q)
    BY <1>2
  <2>2. a[i] = q[at(i)] /\ a[j] = q[at(j)]
    BY <1>1
  <2>3. at(i) = at(j)
    BY <2>1, <2>2, <1>2 DEF IsInjective
  <2> QED
    BY <2>3, <1>2
<1>4. Range(a) = Range(q) \ {q[k]}
  <2>1. ASSUME NEW i \in 1 .. Len(q) - 1
        PROVE  a[i] \in Range(q) /\ a[i] # q[k]
    BY <1>1, <1>2, SMTT(60) DEF Range, IsInjective
  <2>2. ASSUME NEW i \in 1 .. Len(q), i # k
        PROVE  q[i] \in Range(a)
    <3>1. CASE i < k
      BY <3>1, <1>1, <1>2 DEF Range
    <3>2. CASE i > k
      <4>1. i - 1 \in 1 .. Len(q) - 1 /\ a[i - 1] = q[i]
        BY <3>2, <1>1, <1>2
      <4> QED BY <4>1, <1>2 DEF Range
    <3> QED BY <2>2, <3>1, <3>2
  <2> QED
    BY <2>1, <2>2, <1>2 DEF Range
<1> QED
  BY <1>1, <1>3, <1>4 DEF a

(***************************************************************************)
(* Tail takes exactly the head out.                                        *)
(***************************************************************************)
LEMMA TailRange ==
  ASSUME NEW T, NEW q \in Seq(T), q # <<>>, IsInjective(q)
  PROVE  /\ Tail(q) \in Seq(T)
         /\ Len(Tail(q)) = Len(q) - 1
         /\ Head(q) \in Range(q) /\ Head(q) \in T
         /\ IsInjective(Tail(q))
         /\ Range(Tail(q)) = Range(q) \ {Head(q)}
<1> DEFINE a == Tail(q)
<1>1. /\ a \in Seq(T) /\ Len(a) = Len(q) - 1 /\ Head(q) = q[1]
      /\ \A i \in 1 .. Len(a) : a[i] = q[i + 1]
  BY HeadTailProperties
<1>2. Len(q) \in Nat /\ 1 <= Len(q) /\ DOMAIN q = 1 .. Len(q)
  BY EmptySeq
<1> HIDE DEF a
<1>3. DOMAIN a = 1 .. Len(q) - 1
  BY <1>1, <1>2
<1>4. IsInjective(a)
  BY <1>1, <1>2, <1>3, SMTT(60) DEF IsInjective
<1>5. Range(a) = Range(q) \ {q[1]}
  <2>1. ASSUME NEW i \in 1 .. Len(q) - 1
        PROVE  a[i] \in Range(q) /\ a[i] # q[1]
    BY <1>1, <1>2 DEF Range, IsInjective
  <2>2. ASSUME NEW i \in 1 .. Len(q), i # 1
        PROVE  q[i] \in Range(a)
    <3>1. i - 1 \in 1 .. Len(q) - 1 /\ a[i - 1] = q[i]
      BY <2>2, <1>1, <1>2
    <3> QED BY <3>1, <1>3 DEF Range
  <2> QED
    BY <2>1, <2>2, <1>2, <1>3 DEF Range
<1>6. q[1] \in Range(q) /\ q[1] \in T
  BY <1>2 DEF Range
<1> QED
  BY <1>1, <1>4, <1>5, <1>6 DEF a

(***************************************************************************)
(* InsertAt moves the later entries up ...                                 *)
(***************************************************************************)
LEMMA InsertAtParts ==
  ASSUME NEW T, NEW q \in Seq(T), NEW x \in T, NEW k \in 1 .. Len(q) + 1
  PROVE  /\ InsertAt(q, k, x) \in Seq(T) /\ Len(InsertAt(q, k, x)) = Len(q) + 1
         /\ InsertAt(q, k, x)[k] = x
         /\ \A i \in 1 .. Len(q) + 1 : i < k => InsertAt(q, k, x)[i] = q[i]
         /\ \A i \in 1 .. Len(q) + 1 : i > k => InsertAt(q, k, x)[i] = q[i - 1]
<1> DEFINE b == SubSeq(q, 1, k - 1)
           c == SubSeq(q, k, Len(q))
           d == Append(b, x)
           a == InsertAt(q, k, x)
<1>1. Len(q) \in Nat /\ k \in Int /\ 1 <= k /\ k <= Len(q) + 1
      /\ DOMAIN q = 1 .. Len(q)
  OBVIOUS
<1>2. /\ b \in Seq(T) /\ Len(b) = k - 1
      /\ \A i \in 1 .. k - 1 : b[i] = q[i]
  BY <1>1, SubSeqProperties
<1>3. /\ c \in Seq(T) /\ Len(c) = Len(q) - k + 1
      /\ \A i \in 1 .. Len(q) - k + 1 : c[i] = q[k + i - 1]
  BY <1>1, SubSeqProperties
<1> HIDE DEF b, c
<1>4. d = b \o <<x>>
  BY <1>2, AppendIsConcat
<1>5. a = d \o c
  BY <1>4 DEF a, b, c, InsertAt
<1>6. /\ d \in Seq(T) /\ Len(d) = k
      /\ \A i \in 1 .. k - 1 : d[i] = b[i]
      /\ d[k] = x
  BY <1>1, <1>2, AppendProperties
<1> HIDE DEF d, a
<1>7. /\ a \in Seq(T) /\ Len(a) = Len(q) + 1
      /\ \A i \in 1 .. Len(q) + 1 :
           a[i] = IF i <= k THEN d[i] ELSE c[i - k]
  <2>1. /\ d \o c \in Seq(T) /\ Len(d \o c) = Len(d) + Len(c)
        /\ \A i \in 1 .. Len(d) + Len(c) :
             (d \o c)[i] = IF i <= Len(d) THEN d[i] ELSE c[i - Len(d)]
    BY <1>3, <1>6, ConcatProperties
  <2> QED BY <2>1, <1>1, <1>3, <1>5, <1>6
<1>8. a[k] = x /\ DOMAIN a = 1 .. Len(q) + 1
  BY <1>1, <1>6, <1>7
<1>9. ASSUME NEW i \in 1 .. Len(q) + 1, i < k PROVE a[i] = q[i]
  <2>1. i \in 1 .. k - 1 /\ i <= k
    BY <1>1, <1>9
  <2> QED BY <2>1, <1>2, <1>6, <1>7
<1>10. ASSUME NEW i \in 1 .. Len(q) + 1, i > k PROVE a[i] = q[i - 1]
  <2>1. i - k \in 1 .. Len(q) - k + 1 /\ k + (i - k) - 1 = i - 1 /\ ~(i <= k)
    BY <1>1, <1>10
  <2>2. a[i] = c[i - k] /\ c[i - k] = q[k + (i - k) - 1]
    BY <2>1, <1>3, <1>7
  <2> QED BY <2>1, <2>2
<1> QED
  BY <1>7, <1>8, <1>9, <1>10 DEF a

\* The same, as one relation: a is q with x at place k.
Inserted(a, q, k, x) ==
  /\ Len(a) = Len(q) + 1
  /\ a[k] = x
  /\ \A i \in 1 .. Len(q) + 1 : i < k => a[i] = q[i]
  /\ \A i \in 1 .. Len(q) + 1 : i > k => a[i] = q[i - 1]

LEMMA InsertAtIs ==
  ASSUME NEW T, NEW q \in Seq(T), NEW x \in T, NEW k \in 1 .. Len(q) + 1
  PROVE  InsertAt(q, k, x) \in Seq(T) /\ Inserted(InsertAt(q, k, x), q, k, x)
<1>1. InsertAt(q, k, x) \in Seq(T) /\ Len(InsertAt(q, k, x)) = Len(q) + 1
      /\ InsertAt(q, k, x)[k] = x
  BY InsertAtParts
<1>2. \A i \in 1 .. Len(q) + 1 : i < k => InsertAt(q, k, x)[i] = q[i]
  BY InsertAtParts
<1>3. \A i \in 1 .. Len(q) + 1 : i > k => InsertAt(q, k, x)[i] = q[i - 1]
  BY InsertAtParts
<1> QED
  BY <1>1, <1>2, <1>3, Zenon DEF Inserted

\* The same, by the place an entry had.
LEMMA InsertAtEntries ==
  ASSUME NEW T, NEW q \in Seq(T), NEW x \in T, NEW k \in 1 .. Len(q) + 1
  PROVE  /\ InsertAt(q, k, x) \in Seq(T) /\ Len(InsertAt(q, k, x)) = Len(q) + 1
         /\ InsertAt(q, k, x)[k] = x
         /\ \A i \in 1 .. Len(q) + 1 : i # k =>
              LET at == IF i < k THEN i ELSE i - 1
              IN  at \in 1 .. Len(q) /\ InsertAt(q, k, x)[i] = q[at]
<1> DEFINE a == InsertAt(q, k, x)
<1>1. a \in Seq(T) /\ Len(a) = Len(q) + 1 /\ a[k] = x
  BY InsertAtParts
<1>2. \A i \in 1 .. Len(q) + 1 : i < k => a[i] = q[i]
  BY InsertAtParts
<1>3. \A i \in 1 .. Len(q) + 1 : i > k => a[i] = q[i - 1]
  BY InsertAtParts
<1> HIDE DEF a
<1>4. Len(q) \in Nat
  BY LenProperties
<1> DEFINE at(n) == IF n < k THEN n ELSE n - 1
<1>5. ASSUME NEW i \in 1 .. Len(q) + 1, i # k
      PROVE  at(i) \in 1 .. Len(q) /\ a[i] = q[at(i)]
  <2>1. CASE i < k
    BY <2>1, <1>2, <1>4
  <2>2. CASE ~(i < k)
    <3>1. i > k /\ i - 1 \in 1 .. Len(q)
      BY <2>2, <1>4, <1>5
    <3> QED BY <2>2, <3>1, <1>3
  <2> QED BY <2>1, <2>2
<1> QED
  BY <1>1, <1>5 DEF a

\* ... and puts one entry in.
LEMMA InsertAtRange ==
  ASSUME NEW T, NEW q \in Seq(T), NEW x \in T, NEW k \in 1 .. Len(q) + 1,
         x \notin Range(q), IsInjective(q)
  PROVE  /\ InsertAt(q, k, x) \in Seq(T)
         /\ IsInjective(InsertAt(q, k, x))
         /\ Range(InsertAt(q, k, x)) = Range(q) \cup {x}
<1> DEFINE a == InsertAt(q, k, x)
           at(n) == IF n < k THEN n ELSE n - 1
<1>1. Len(q) \in Nat /\ k \in Int /\ 1 <= k /\ k <= Len(q) + 1
      /\ DOMAIN q = 1 .. Len(q)
  OBVIOUS
<1>2. a \in Seq(T) /\ Len(a) = Len(q) + 1
  BY InsertAtEntries
<1>3. a[k] = x /\ DOMAIN a = 1 .. Len(q) + 1
  BY <1>2, InsertAtEntries
<1>4. ASSUME NEW i \in 1 .. Len(q) + 1, i # k
      PROVE  at(i) \in 1 .. Len(q) /\ a[i] = q[at(i)]
  BY <1>4, InsertAtEntries, SMTT(60)
<1> HIDE DEF a
<1>5. ASSUME NEW i \in 1 .. Len(q) + 1, i # k
       PROVE  a[i] \in Range(q)
  BY <1>1, <1>4, <1>5 DEF Range
<1>6. ASSUME NEW i \in 1 .. Len(q)
       PROVE  q[i] \in Range(a)
  <2>1. CASE i < k
    <3>1. i \in 1 .. Len(q) + 1 /\ i # k /\ at(i) = i
      BY <2>1, <1>1
    <3>2. a[i] = q[i]
      BY <3>1, <1>4
    <3> QED BY <3>1, <3>2, <1>3 DEF Range
  <2>2. CASE i >= k
    <3>1. i + 1 \in 1 .. Len(q) + 1 /\ i + 1 # k /\ at(i + 1) = i
      BY <2>2, <1>1
    <3>2. a[i + 1] = q[i]
      BY <3>1, <1>4
    <3> QED BY <3>1, <3>2, <1>3 DEF Range
  <2> QED BY <1>1, <2>1, <2>2
<1>7. Range(a) = Range(q) \cup {x}
  <2>1. Range(a) \subseteq Range(q) \cup {x}
    BY <1>3, <1>5 DEF Range
  <2>2. Range(q) \subseteq Range(a)
    BY <1>1, <1>6 DEF Range
  <2>3. x \in Range(a)
    BY <1>1, <1>3 DEF Range
  <2> QED BY <2>1, <2>2, <2>3
<1>8. IsInjective(a)
  <2> SUFFICES ASSUME NEW i \in 1 .. Len(q) + 1, NEW j \in 1 .. Len(q) + 1,
                      a[i] = a[j]
               PROVE  i = j
    BY <1>3 DEF IsInjective
  <2>1. i = k <=> j = k
    BY <1>3, <1>5
  <2>2. CASE i # k
    <3>1. at(i) = at(j)
      BY <2>1, <2>2, <1>1, <1>4 DEF IsInjective
    <3> QED BY <3>1, <2>1, <2>2, <1>1
  <2> QED BY <2>1, <2>2
<1> QED
  BY <1>2, <1>7, <1>8 DEF a

(***************************************************************************)
(* RemoveFirst takes out the entry at the first place that holds e.        *)
(***************************************************************************)
LEMMA RemoveFirstIsRemoveAt ==
  ASSUME NEW T, NEW q \in Seq(T), NEW e, NEW k \in 1 .. Len(q), q[k] = e,
         \A j \in 1 .. k - 1 : q[j] # e
  PROVE  RemoveFirst(q, e) = RemoveAt(q, k)
<1> DEFINE I == {i \in 1 .. Len(q) : q[i] = e}
<1>1. k \in I /\ \A i \in I : k <= i
  OBVIOUS
<1>2. Min(I) = k
  <2>1. \A x : x \in I /\ (\A y \in I : x <= y) => x = k
    BY <1>1
  <2> HIDE DEF I
  <2> QED BY <1>1, <2>1, Zenon DEF Min
<1>3. SelectInSeq(q, LAMBDA v : v = e) = Min(I)
  BY <1>1 DEF SelectInSeq
<1> QED
  BY <1>1, <1>2, <1>3, Zenon DEF RemoveFirst

(***************************************************************************)
(* A sequence that contains e has a first place that holds it.             *)
(***************************************************************************)
LEMMA FirstPlace ==
  ASSUME NEW T, NEW q \in Seq(T), NEW e, Contains(q, e)
  PROVE  \E k \in 1 .. Len(q) : q[k] = e /\ \A j \in 1 .. k - 1 : q[j] # e
<1> DEFINE I == {i \in 1 .. Len(q) : q[i] = e}
<1>1. I \subseteq Nat /\ I # {}
  BY DEF Contains
<1>2. PICK k \in I : \A i \in I : k <= i
  BY <1>1, LeastNat
<1>3. \A j \in 1 .. k - 1 : q[j] # e
  BY <1>2
<1> QED
  BY <1>3

(***************************************************************************)
(* A queue without duplicates is no longer than the set it draws from.     *)
(***************************************************************************)
LEMMA InjectiveLen ==
  ASSUME NEW N \in Nat, NEW q \in Seq(0 .. N - 1), IsInjective(q)
  PROVE  /\ Len(q) <= N
         /\ \A x \in 0 .. N - 1 : x \notin Range(q) => Len(q) < N
<1>1. IsFiniteSet(0 .. N - 1) /\ Cardinality(0 .. N - 1) = N
  BY FS_Interval
<1>2. IsFiniteSet(1 .. Len(q)) /\ Cardinality(1 .. Len(q)) = Len(q)
  <2> DEFINE n == Len(q)
  <2>1. n \in Nat
    OBVIOUS
  <2> HIDE DEF n
  <2>2. IsFiniteSet(1 .. n) /\ Cardinality(1 .. n) = n
    BY <2>1, FS_Interval
  <2> QED BY <2>2 DEF n
<1>3. q \in Injection(1 .. Len(q), 0 .. N - 1)
  BY DEF Injection, IsInjective
<1>4. /\ Len(q) <= N
      /\ Len(q) = N => q \in Surjection(1 .. Len(q), 0 .. N - 1)
  BY <1>1, <1>2, <1>3, FS_Injection
<1>5. ASSUME NEW x \in 0 .. N - 1, x \notin Range(q)
      PROVE  q \notin Surjection(1 .. Len(q), 0 .. N - 1)
  BY <1>5 DEF Surjection, Range
<1> QED
  BY <1>4, <1>5
=============================================================================
