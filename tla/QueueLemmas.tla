----------------------------- MODULE QueueLemmas -----------------------------
(***************************************************************************)
(* What taking an entry out of a queue does, for the deques of the native  *)
(* scheduler and of the admission schedulers; and why numbers that are     *)
(* used again after a counter wrapped around are still different.          *)
(***************************************************************************)
EXTENDS Integers, SequencesExt, SequenceTheorems, FiniteSetTheorems,
        WellFoundedInduction, TLAPS

\* A nonempty set of numbers has a smallest member (std::find and
\* std::find_if return the first match).
LEMMA SmallestNumber ==
    ASSUME NEW T \in SUBSET Nat, T # {}
    PROVE  \E x \in T : \A y \in T : x <= y
<1> DEFINE R == OpToRel(<, Nat)
<1>1. \A x, y \in T : y < x => <<y, x>> \in R
  BY DEF OpToRel
<1>2. IsWellFoundedOn(R, Nat)
  BY NatLessThanWellFounded
<1> HIDE DEF R
<1>3. PICK x \in T : \A y \in T : <<y, x>> \notin R
  BY <1>2, WFMin
<1>4. ASSUME NEW y \in T
      PROVE  x <= y
  <2>1. ~(y < x)
    BY <1>1, <1>3
  <2>2. x \in Nat /\ y \in Nat
    OBVIOUS
  <2>3. QED
    BY <2>1, <2>2
<1>5. QED
  BY <1>4

\* Erasing position k of a queue removes that entry and keeps the order of the
\* others (queue.erase(iterator)).
LEMMA RemoveAtProperties ==
    ASSUME NEW S, NEW q \in Seq(S), NEW k \in 1 .. Len(q)
    PROVE  /\ RemoveAt(q, k) \in Seq(S)
           /\ Len(RemoveAt(q, k)) = Len(q) - 1
           /\ \A j \in 1 .. Len(q) - 1 :
                 RemoveAt(q, k)[j] = IF j < k THEN q[j] ELSE q[j + 1]
<1> DEFINE s == SubSeq(q, 1, k - 1)
           t == SubSeq(q, k + 1, Len(q))
<1>1. Len(q) \in Nat
  BY LenProperties
<1>2. /\ s \in Seq(S)
      /\ Len(s) = k - 1
      /\ \A j \in 1 .. k - 1 : s[j] = q[j]
  <2>1. \A j \in 1 .. k - 1 : q[j] \in S
    BY <1>1, ElementOfSeq
  <2>2. /\ SubSeq(q, 1, k - 1) \in Seq(S)
        /\ Len(SubSeq(q, 1, k - 1)) = IF 1 <= k - 1 THEN k - 1 - 1 + 1 ELSE 0
        /\ \A j \in 1 .. k - 1 - 1 + 1 : SubSeq(q, 1, k - 1)[j] = q[1 + j - 1]
    BY <1>1, <2>1, SubSeqProperties
  <2>3. QED
    BY <1>1, <2>2
<1>3. /\ t \in Seq(S)
      /\ Len(t) = Len(q) - k
      /\ \A j \in 1 .. Len(q) - k : t[j] = q[k + j]
  <2>1. \A j \in k + 1 .. Len(q) : q[j] \in S
    BY <1>1, ElementOfSeq
  <2>2. QED
    BY <1>1, <2>1, SubSeqProperties
<1>4. /\ s \o t \in Seq(S)
      /\ Len(s \o t) = Len(s) + Len(t)
      /\ \A j \in 1 .. Len(s) + Len(t) :
            (s \o t)[j] = IF j <= Len(s) THEN s[j] ELSE t[j - Len(s)]
  BY <1>2, <1>3, ConcatProperties
<1>5. RemoveAt(q, k) = s \o t
  BY DEF RemoveAt
<1> HIDE DEF s, t
<1>6. Len(s \o t) = Len(q) - 1
  BY <1>1, <1>2, <1>3, <1>4
<1>7. ASSUME NEW j \in 1 .. Len(q) - 1
      PROVE  (s \o t)[j] = IF j < k THEN q[j] ELSE q[j + 1]
  <2>1. CASE j < k
    BY <1>1, <1>2, <1>3, <1>4, <2>1
  <2>2. CASE j >= k
    <3>1. (s \o t)[j] = t[j - (k - 1)]
      BY <1>1, <1>2, <1>3, <1>4, <2>2
    <3>2. t[j - (k - 1)] = q[k + (j - (k - 1))]
      BY <1>1, <1>3, <2>2
    <3>3. k + (j - (k - 1)) = j + 1
      BY <1>1
    <3>4. ~(j < k)
      BY <1>1, <2>2
    <3>5. QED
      BY <3>1, <3>2, <3>3, <3>4
  <2>3. j < k \/ j >= k
    BY <1>1
  <2>4. QED
    BY <2>1, <2>2, <2>3
<1>8. QED
  BY <1>4, <1>5, <1>6, <1>7

\* No entry appears in a queue because another one was taken out of it
\* (queue.erase(std::remove(...))).
LEMMA RemoveFirstProperties ==
    ASSUME NEW S, NEW q \in Seq(S), NEW e
    PROVE  /\ RemoveFirst(q, e) \in Seq(S)
           /\ \A j \in 1 .. Len(RemoveFirst(q, e)) :
                 \E m \in 1 .. Len(q) : RemoveFirst(q, e)[j] = q[m]
<1>1. Len(q) \in Nat
  BY LenProperties
<1>2. CASE \A m \in 1 .. Len(q) : q[m] # e
  <2>1. RemoveFirst(q, e) = q
    BY <1>2 DEF RemoveFirst
  <2>2. QED
    BY <2>1
<1>3. CASE \E m \in 1 .. Len(q) : q[m] = e
  <2> DEFINE I == {m \in 1 .. Len(q) : q[m] = e}
  <2>1. PICK k \in I : \A m \in I : k <= m
    <3>1. I \in SUBSET Nat /\ I # {}
      BY <1>1, <1>3
    <3>2. QED
      BY <3>1, SmallestNumber
  <2>2. Min(I) \in I
    BY <2>1 DEF Min
  <2>3. RemoveFirst(q, e) = RemoveAt(q, Min(I))
    BY <1>3, <2>2 DEF RemoveFirst, SelectInSeq
  <2>4. Min(I) \in 1 .. Len(q)
    BY <2>2
  <2>5. /\ RemoveAt(q, Min(I)) \in Seq(S)
        /\ Len(RemoveAt(q, Min(I))) = Len(q) - 1
        /\ \A j \in 1 .. Len(q) - 1 :
              RemoveAt(q, Min(I))[j] = IF j < Min(I) THEN q[j] ELSE q[j + 1]
    BY <2>4, RemoveAtProperties
  <2> HIDE DEF I
  <2>6. QED
    BY <1>1, <2>3, <2>5
<1>4. QED
  BY <1>2, <1>3

-----------------------------------------------------------------------------
(* Queues without repetitions: the rotation of a priority and the deque of  *)
(* a request.                                                               *)

InQueue(q, x) == \E k \in DOMAIN q : q[k] = x

Distinct(q) == \A k, m \in DOMAIN q : q[k] = q[m] => k = m

LEMMA EmptyQueue ==
    ASSUME NEW S, NEW q \in Seq(S)
    PROVE  /\ q = <<>> <=> \A x : ~InQueue(q, x)
           /\ \A x : InQueue(q, x) => x \in S
           /\ q = <<>> => Distinct(q)
<1>1. DOMAIN q = 1 .. Len(q) /\ Len(q) \in Nat /\ \A k \in DOMAIN q : q[k] \in S
  BY LenProperties, ElementOfSeq
<1>2. q = <<>> <=> Len(q) = 0
  BY EmptySeq
<1>3. ASSUME q # <<>>
      PROVE  InQueue(q, q[1])
  BY <1>1, <1>2, <1>3 DEF InQueue
<1>4. ASSUME q = <<>>
      PROVE  DOMAIN q = {}
  BY <1>1, <1>2, <1>4
<1>5. QED
  BY <1>1, <1>3, <1>4 DEF InQueue, Distinct

\* push_back
LEMMA AppendQueue ==
    ASSUME NEW S, NEW q \in Seq(S), NEW e \in S
    PROVE  /\ Append(q, e) \in Seq(S) /\ Append(q, e) # <<>>
           /\ \A x : InQueue(Append(q, e), x) <=> InQueue(q, x) \/ x = e
           /\ Distinct(q) /\ ~InQueue(q, e) => Distinct(Append(q, e))
<1> DEFINE r == Append(q, e)
<1>1. Len(q) \in Nat /\ DOMAIN q = 1 .. Len(q)
  BY LenProperties
<1>2. /\ r \in Seq(S) /\ Len(r) = Len(q) + 1 /\ r[Len(q) + 1] = e
      /\ \A k \in 1 .. Len(q) : r[k] = q[k]
  BY AppendProperties
<1> HIDE DEF r
<1>3. DOMAIN r = 1 .. Len(q) + 1
  BY <1>2, LenProperties
<1>4. r # <<>>
  BY <1>1, <1>2
<1>5. ASSUME NEW x
      PROVE  InQueue(r, x) <=> InQueue(q, x) \/ x = e
  BY <1>1, <1>2, <1>3 DEF InQueue
<1>6. ASSUME Distinct(q), ~InQueue(q, e), NEW k \in DOMAIN r, NEW m \in DOMAIN r,
             r[k] = r[m]
      PROVE  k = m
  BY <1>1, <1>2, <1>3, <1>6 DEF InQueue, Distinct
<1>7. QED
  BY <1>2, <1>4, <1>5, <1>6 DEF r, Distinct

\* pop_front
LEMMA TailQueue ==
    ASSUME NEW S, NEW q \in Seq(S), q # <<>>
    PROVE  /\ Head(q) \in S /\ InQueue(q, Head(q)) /\ Tail(q) \in Seq(S)
           /\ Len(q) = 1 <=> Tail(q) = <<>>
           /\ Distinct(q) =>
                /\ Distinct(Tail(q))
                /\ \A x : InQueue(Tail(q), x) <=> InQueue(q, x) /\ x # Head(q)
<1> DEFINE r == Tail(q)
<1>1. Len(q) \in Nat \ {0} /\ DOMAIN q = 1 .. Len(q)
  BY LenProperties, EmptySeq
<1>2. Head(q) = q[1] /\ q[1] \in S
  BY <1>1, HeadTailProperties, ElementOfSeq
<1>3. /\ r \in Seq(S) /\ Len(r) = Len(q) - 1
      /\ \A k \in 1 .. Len(q) - 1 : r[k] = q[k + 1]
  BY HeadTailProperties
<1> HIDE DEF r
<1>4. DOMAIN r = 1 .. Len(q) - 1
  BY <1>3, LenProperties
<1>5. Len(q) = 1 <=> r = <<>>
  BY <1>1, <1>3, EmptySeq
<1>6. ASSUME Distinct(q)
      PROVE  /\ Distinct(r)
             /\ \A x : InQueue(r, x) <=> InQueue(q, x) /\ x # Head(q)
  <2>1. ASSUME NEW k \in DOMAIN r
        PROVE  k + 1 \in DOMAIN q /\ r[k] = q[k + 1] /\ k + 1 # 1
    BY <1>1, <1>3, <1>4, <2>1
  <2>2. ASSUME NEW k \in DOMAIN q, k # 1
        PROVE  k - 1 \in DOMAIN r /\ r[k - 1] = q[k]
    <3>1. k - 1 \in 1 .. Len(q) - 1 /\ (k - 1) + 1 = k
      BY <1>1, <2>2
    <3>2. QED
      BY <1>3, <1>4, <3>1
  <2>3. Distinct(r)
    <3>1. SUFFICES ASSUME NEW k \in DOMAIN r, NEW m \in DOMAIN r, r[k] = r[m]
                   PROVE  k = m
      BY DEF Distinct
    <3>2. k + 1 = m + 1 /\ k \in Int /\ m \in Int
      BY <1>1, <1>4, <1>6, <2>1, <3>1 DEF Distinct
    <3>3. QED
      BY <3>2
  <2>4. ASSUME NEW x
        PROVE  InQueue(r, x) <=> InQueue(q, x) /\ x # Head(q)
    <3>1. ASSUME NEW k \in DOMAIN r, r[k] = x
          PROVE  InQueue(q, x) /\ x # q[1]
      <4>1. k + 1 \in DOMAIN q /\ q[k + 1] = x /\ k + 1 # 1 /\ 1 \in DOMAIN q
        BY <1>1, <2>1, <3>1
      <4>2. QED
        BY <1>6, <4>1 DEF InQueue, Distinct
    <3>2. ASSUME NEW k \in DOMAIN q, q[k] = x, x # q[1]
          PROVE  InQueue(r, x)
      <4>1. k - 1 \in DOMAIN r /\ r[k - 1] = x
        BY <2>2, <3>2
      <4>2. QED
        BY <4>1 DEF InQueue
    <3>3. QED
      BY <1>2, <3>1, <3>2 DEF InQueue
  <2>5. QED
    BY <2>3, <2>4
<1>7. InQueue(q, Head(q))
  BY <1>1, <1>2 DEF InQueue
<1>8. QED
  BY <1>2, <1>3, <1>5, <1>6, <1>7 DEF r

\* erase, by position
LEMMA RemoveAtQueue ==
    ASSUME NEW S, NEW q \in Seq(S), NEW k \in DOMAIN q, NEW e, q[k] = e, Distinct(q)
    PROVE  /\ RemoveAt(q, k) \in Seq(S) /\ Distinct(RemoveAt(q, k))
           /\ \A x : InQueue(RemoveAt(q, k), x) <=> InQueue(q, x) /\ x # e
           /\ \A j \in DOMAIN RemoveAt(q, k) :
                 \E m \in DOMAIN q : m >= j /\ q[m] = RemoveAt(q, k)[j]
<1> DEFINE r == RemoveAt(q, k)
<1>1. Len(q) \in Nat /\ DOMAIN q = 1 .. Len(q) /\ k \in 1 .. Len(q)
  BY LenProperties
<1>2. /\ r \in Seq(S) /\ Len(r) = Len(q) - 1
      /\ \A j \in 1 .. Len(q) - 1 : r[j] = IF j < k THEN q[j] ELSE q[j + 1]
  BY <1>1, RemoveAtProperties
<1> HIDE DEF r
<1>3. DOMAIN r = 1 .. Len(q) - 1
  BY <1>2, LenProperties
<1> DEFINE from(j) == IF j < k THEN j ELSE j + 1
<1>4. ASSUME NEW j \in DOMAIN r
      PROVE  j \in Nat /\ from(j) \in DOMAIN q /\ r[j] = q[from(j)] /\ from(j) # k
  BY <1>1, <1>2, <1>3, <1>4
<1>5. ASSUME NEW m \in DOMAIN q, m # k
      PROVE  \E j \in DOMAIN r : r[j] = q[m]
  <2>1. CASE m < k
    <3>1. m \in 1 .. Len(q) - 1
      BY <1>1, <1>5, <2>1
    <3>2. QED
      BY <1>2, <1>3, <2>1, <3>1
  <2>2. CASE m > k
    <3>1. m - 1 \in 1 .. Len(q) - 1 /\ ~(m - 1 < k) /\ (m - 1) + 1 = m
      BY <1>1, <1>5, <2>2
    <3>2. r[m - 1] = q[m]
      BY <1>2, <3>1
    <3>3. QED
      BY <1>3, <3>1, <3>2
  <2>3. QED
    BY <1>1, <1>5, <2>1, <2>2
<1>6. Distinct(r)
  <2>1. SUFFICES ASSUME NEW j \in DOMAIN r, NEW m \in DOMAIN r, r[j] = r[m]
                 PROVE  j = m
    BY DEF Distinct
  <2>2. from(j) = from(m) /\ j \in Nat /\ m \in Nat
    BY <1>4, <2>1 DEF Distinct
  <2>3. QED
    BY <1>1, <2>2
<1>7. ASSUME NEW x
      PROVE  InQueue(r, x) <=> InQueue(q, x) /\ x # e
  <2>1. ASSUME NEW j \in DOMAIN r, r[j] = x
        PROVE  InQueue(q, x) /\ x # e
    <3>1. from(j) \in DOMAIN q /\ q[from(j)] = x /\ from(j) # k /\ k \in DOMAIN q
      BY <1>1, <1>4, <2>1
    <3> HIDE DEF from
    <3>2. QED
      BY <3>1 DEF InQueue, Distinct
  <2>2. ASSUME NEW m \in DOMAIN q, q[m] = x, x # e
        PROVE  InQueue(r, x)
    BY <1>5, <2>2 DEF InQueue
  <2>3. QED
    BY <2>1, <2>2 DEF InQueue
<1>8. ASSUME NEW j \in DOMAIN r
       PROVE  \E m \in DOMAIN q : m >= j /\ q[m] = r[j]
  <2>1. from(j) >= j
    BY <1>1, <1>4
  <2>2. QED
    BY <1>4, <2>1
<1>9. QED
  BY <1>2, <1>6, <1>7, <1>8 DEF r

\* erase
LEMMA RemoveFirstIsRemoveAt ==
    ASSUME NEW S, NEW q \in Seq(S), NEW e, Distinct(q)
    PROVE  IF InQueue(q, e)
           THEN \E k \in DOMAIN q : q[k] = e /\ RemoveFirst(q, e) = RemoveAt(q, k)
           ELSE RemoveFirst(q, e) = q
<1>1. Len(q) \in Nat /\ DOMAIN q = 1 .. Len(q)
  BY LenProperties
<1>2. CASE ~InQueue(q, e)
  BY <1>1, <1>2 DEF InQueue, RemoveFirst
<1>3. CASE InQueue(q, e)
  <2>1. PICK k \in 1 .. Len(q) : q[k] = e
    BY <1>1, <1>3 DEF InQueue
  <2> DEFINE I == {m \in 1 .. Len(q) : q[m] = e}
  <2>2. I = {k}
    BY <1>1, <2>1 DEF Distinct
  <2>3. RemoveFirst(q, e) = RemoveAt(q, k)
    <3>1. \A y \in {k} : k <= y
      BY <1>1
    <3>2. Min({k}) = k
      BY <3>1 DEF Min
    <3> HIDE DEF I
    <3>3. QED
      BY <2>1, <2>2, <3>2 DEF RemoveFirst, SelectInSeq, I
  <2>4. QED
    BY <1>1, <1>3, <2>1, <2>3
<1>4. QED
  BY <1>2, <1>3

LEMMA RemoveFirstQueue ==
    ASSUME NEW S, NEW q \in Seq(S), NEW e, Distinct(q)
    PROVE  /\ RemoveFirst(q, e) \in Seq(S) /\ Distinct(RemoveFirst(q, e))
           /\ \A x : InQueue(RemoveFirst(q, e), x) <=> InQueue(q, x) /\ x # e
           /\ \A j \in DOMAIN RemoveFirst(q, e) :
                 \E m \in DOMAIN q : m >= j /\ q[m] = RemoveFirst(q, e)[j]
<1>1. CASE ~InQueue(q, e)
  <2>1. RemoveFirst(q, e) = q /\ \A x : InQueue(q, x) => x # e
    BY <1>1, RemoveFirstIsRemoveAt
  <2>2. \A j \in DOMAIN q : j >= j
    BY LenProperties
  <2>3. QED
    BY <2>1, <2>2
<1>2. CASE InQueue(q, e)
  <2>1. PICK k \in DOMAIN q : q[k] = e /\ RemoveFirst(q, e) = RemoveAt(q, k)
    BY <1>2, RemoveFirstIsRemoveAt
  <2>2. QED
    BY <2>1, RemoveAtQueue
<1>3. QED
  BY <1>1, <1>2

\* pop_front takes nothing but the entry at the front.
LEMMA TailOthers ==
    ASSUME NEW S, NEW q \in Seq(S), q # <<>>, NEW x, x # Head(q)
    PROVE  InQueue(Tail(q), x) <=> InQueue(q, x)
<1> DEFINE r == Tail(q)
<1>1. Len(q) \in Nat \ {0} /\ DOMAIN q = 1 .. Len(q) /\ Head(q) = q[1]
  BY LenProperties, EmptySeq, HeadTailProperties
<1>2. /\ r \in Seq(S) /\ Len(r) = Len(q) - 1
      /\ \A k \in 1 .. Len(q) - 1 : r[k] = q[k + 1]
  BY HeadTailProperties
<1> HIDE DEF r
<1>3. DOMAIN r = 1 .. Len(q) - 1
  BY <1>2, LenProperties
<1>4. ASSUME NEW k \in DOMAIN r, r[k] = x
      PROVE  InQueue(q, x)
  <2>1. k + 1 \in DOMAIN q /\ q[k + 1] = x
    BY <1>1, <1>2, <1>3, <1>4
  <2>2. QED
    BY <2>1 DEF InQueue
<1>5. ASSUME NEW k \in DOMAIN q, q[k] = x
      PROVE  InQueue(r, x)
  <2>1. k # 1 /\ k \in 1 .. Len(q)
    BY <1>1, <1>5
  <2>2. k - 1 \in 1 .. Len(q) - 1 /\ (k - 1) + 1 = k
    BY <1>1, <2>1
  <2>3. k - 1 \in DOMAIN r /\ r[k - 1] = x
    BY <1>2, <1>3, <1>5, <2>2
  <2>4. QED
    BY <2>3 DEF InQueue
<1>6. QED
  BY <1>4, <1>5 DEF r, InQueue

-----------------------------------------------------------------------------
(* Keeping the entries of some places (std::remove).                        *)

\* f lists the numbers in K, in order.
Lists(f, K) ==
    /\ f \in Bijection(1 .. Cardinality(K), K)
    /\ \A i, k \in DOMAIN f : i < k => f[i] < f[k]

LEMMA EmptyList ==
    \E f : Lists(f, {})
<1> DEFINE f == [i \in {} |-> 0]
<1>1. Cardinality({}) = 0 /\ 1 .. 0 = {}
  BY FS_EmptySet
<1>2. f \in [{} -> {}] /\ DOMAIN f = {}
  OBVIOUS
<1> HIDE DEF f
<1>3. f \in Bijection({}, {})
  BY <1>2 DEF Bijection, Injection, Surjection, IsInjective
<1>4. Lists(f, {})
  BY <1>1, <1>2, <1>3 DEF Lists
<1>5. QED
  BY <1>4

\* A larger number comes last.
LEMMA LongerList ==
    ASSUME NEW K \in SUBSET Nat, IsFiniteSet(K), NEW g, Lists(g, K),
           NEW n \in Nat, \A k \in K : k < n
    PROVE  \E f : Lists(f, K \cup {n})
<1> DEFINE c == Cardinality(K)
           f == [i \in 1 .. c + 1 |-> IF i = c + 1 THEN n ELSE g[i]]
           L == K \cup {n}
<1>1. c \in Nat /\ n \notin K /\ Cardinality(L) = c + 1
  BY FS_CardinalityType, FS_AddElement
<1>2. /\ g \in [1 .. c -> K] /\ DOMAIN g = 1 .. c
      /\ \A i, k \in 1 .. c : g[i] = g[k] => i = k
      /\ \A k \in K : \E i \in 1 .. c : g[i] = k
      /\ \A i, k \in 1 .. c : i < k => g[i] < g[k]
  BY DEF Lists, Bijection, Injection, Surjection, IsInjective
<1> HIDE DEF c
<1>3. /\ DOMAIN f = 1 .. c + 1 /\ f[c + 1] = n
      /\ \A i \in 1 .. c : f[i] = g[i] /\ f[i] \in K /\ f[i] < n
  <2>1. c + 1 \in 1 .. c + 1
    BY <1>1
  <2>2. ASSUME NEW i \in 1 .. c PROVE i \in 1 .. c + 1 /\ i # c + 1
    BY <1>1, <2>2
  <2>3. \A i \in 1 .. c : g[i] \in K
    BY <1>2
  <2>4. QED
    BY <2>1, <2>2, <2>3
<1>4. \A i \in 1 .. c + 1 : i = c + 1 \/ i \in 1 .. c
  BY <1>1
<1>5. f \in [1 .. c + 1 -> L]
  BY <1>1, <1>2
<1> HIDE DEF f
<1>6. \A i, k \in 1 .. c + 1 : i < k => f[i] < f[k]
  BY <1>1, <1>2, <1>3, <1>4
<1>7. \A i, k \in 1 .. c + 1 : f[i] = f[k] => i = k
  BY <1>1, <1>2, <1>3, <1>4
<1>8. \A k \in L : \E i \in 1 .. c + 1 : f[i] = k
  <2>1. c + 1 \in 1 .. c + 1 /\ \A i \in 1 .. c : i \in 1 .. c + 1
    BY <1>1
  <2>2. QED
    BY <1>2, <1>3, <2>1
<1>9. f \in Bijection(1 .. c + 1, L)
  BY <1>3, <1>5, <1>7, <1>8 DEF Bijection, Injection, Surjection, IsInjective
<1>10. Lists(f, L)
  BY <1>1, <1>3, <1>6, <1>9 DEF Lists
<1>11. QED
  BY <1>10

\* Every set of places can be listed: the shortest queue with one that cannot
\* would have its last place in that set.
LEMMA ListExists ==
    ASSUME NEW n \in Nat, NEW K \in SUBSET (1 .. n)
    PROVE  \E f : Lists(f, K)
<1> DEFINE Listed(m) == \A J \in SUBSET (1 .. m) : \E f : Lists(f, J)
           bad == {m \in Nat : ~Listed(m)}
<1>1. SUFFICES ASSUME bad # {} PROVE FALSE
  <2>1. ASSUME bad = {} PROVE Listed(n)
    BY <2>1
  <2>2. QED
    BY <1>1, <2>1
<1>2. PICK m \in bad : \A k \in bad : m <= k
  <2>1. bad \in SUBSET Nat
    OBVIOUS
  <2> HIDE DEF bad
  <2>2. QED
    BY <1>1, <2>1, SmallestNumber
<1>3. PICK J \in SUBSET (1 .. m) : ~\E f : Lists(f, J)
  BY <1>2
<1>4. m \in Nat /\ (m # 0 => Listed(m - 1))
  <2>1. m \in Nat
    BY <1>2
  <2>2. ASSUME m # 0 PROVE m - 1 \in Nat /\ ~(m <= m - 1)
    BY <2>1, <2>2
  <2>3. QED
    BY <1>2, <2>1, <2>2
<1> HIDE DEF bad
<1>5. CASE m = 0
  <2>1. J = {}
    BY <1>5
  <2>2. QED
    BY <1>3, <2>1, EmptyList
<1>6. CASE m # 0
  <2>1. \A H \in SUBSET (1 .. m - 1) : \E f : Lists(f, H)
    BY <1>4, <1>6
  <2>2. J \ {m} \in SUBSET (1 .. m - 1)
    BY <1>4, <1>6
  <2>3. PICK g : Lists(g, J \ {m})
    BY <2>1, <2>2
  <2>4. m \in J
    <3>1. m \notin J => J \ {m} = J
      OBVIOUS
    <3>2. QED
      BY <1>3, <2>3, <3>1
  <2>5. IsFiniteSet(J \ {m}) /\ J \ {m} \in SUBSET Nat /\ \A k \in J \ {m} : k < m
    <3>1. IsFiniteSet(1 .. m)
      BY <1>4, FS_Interval
    <3>2. IsFiniteSet(J \ {m})
      BY <3>1, FS_Subset
    <3>3. \A k \in J \ {m} : k \in 1 .. m /\ k # m
      OBVIOUS
    <3>4. \A k \in J \ {m} : k \in Nat /\ k < m
      BY <1>4, <3>3
    <3>5. QED
      BY <3>2, <3>4
  <2>6. \E f : Lists(f, (J \ {m}) \cup {m})
    BY <1>4, <2>3, <2>5, LongerList
  <2>7. (J \ {m}) \cup {m} = J
    BY <2>4
  <2>8. QED
    BY <1>3, <2>6, <2>7
<1>7. QED
  BY <1>5, <1>6

\* In a list of numbers from 1 on, none is smaller than its place.
LEMMA ListAhead ==
    ASSUME NEW K \in SUBSET (Nat \ {0}), IsFiniteSet(K), NEW f, Lists(f, K),
           NEW i \in DOMAIN f
    PROVE  f[i] >= i
<1> DEFINE c == Cardinality(K)
           bad == {k \in 1 .. c : f[k] < k}
<1>1. c \in Nat /\ DOMAIN f = 1 .. c /\ \A k \in 1 .. c : f[k] \in Nat \ {0}
  BY FS_CardinalityType DEF Lists, Bijection, Injection
<1>2. \A k, m \in 1 .. c : k < m => f[k] < f[m]
  BY <1>1 DEF Lists
<1> HIDE DEF c
<1>3. ASSUME bad # {} PROVE FALSE
  <2>1. bad \in SUBSET Nat
    BY <1>1
  <2>2. PICK k \in bad : \A m \in bad : k <= m
    <3> HIDE DEF bad
    <3>1. QED
      BY <1>3, <2>1, SmallestNumber
  <2>3. k \in 1 .. c /\ f[k] < k /\ f[k] \in Nat \ {0}
    BY <1>1, <2>2
  <2>4. k - 1 \in 1 .. c /\ k - 1 < k
    BY <1>1, <2>3
  <2>5. f[k - 1] < f[k] /\ f[k - 1] \in Nat
    BY <1>1, <1>2, <2>3, <2>4
  <2>6. f[k - 1] < k - 1
    BY <1>1, <2>3, <2>5
  <2>7. k - 1 \in bad
    BY <2>4, <2>6
  <2>8. ~(k <= k - 1)
    BY <1>1, <2>3
  <2>9. QED
    BY <2>2, <2>7, <2>8
<1>4. i \in 1 .. c /\ i \notin bad /\ f[i] \in Nat /\ i \in Nat
  BY <1>1, <1>3
<1>5. QED
  BY <1>4

\* The entries that leave a queue before x does, if it were first-in first-out.
AheadIn(q, x) == {q[k] : k \in {n \in DOMAIN q : \E m \in DOMAIN q : n < m /\ q[m] = x}}

LEMMA AheadMembers ==
    ASSUME NEW S, NEW q \in Seq(S), NEW x, NEW y
    PROVE  /\ y \in AheadIn(q, x) <=> \E n, m \in DOMAIN q : n < m /\ q[n] = y /\ q[m] = x
           /\ y \in AheadIn(q, x) => InQueue(q, y) /\ y \in S
           /\ Distinct(q) => x \notin AheadIn(q, x)
<1>1. Len(q) \in Nat /\ DOMAIN q = 1 .. Len(q) /\ \A k \in 1 .. Len(q) : q[k] \in S
  BY LenProperties, ElementOfSeq
<1>2. y \in AheadIn(q, x) <=> \E n, m \in DOMAIN q : n < m /\ q[n] = y /\ q[m] = x
  BY DEF AheadIn
<1>3. y \in AheadIn(q, x) => InQueue(q, y) /\ y \in S
  BY <1>1, <1>2 DEF InQueue
<1>4. ASSUME Distinct(q), x \in AheadIn(q, x)
      PROVE  FALSE
  <2>1. PICK n, m \in DOMAIN q : n < m /\ q[n] = x /\ q[m] = x
    BY <1>4 DEF AheadIn
  <2>2. n = m
    BY <1>4, <2>1 DEF Distinct
  <2>3. QED
    BY <1>1, <2>1, <2>2
<1>5. QED
  BY <1>2, <1>3, <1>4

\* Nobody overtakes by joining at the back.
LEMMA AppendAhead ==
    ASSUME NEW S, NEW q \in Seq(S), NEW e \in S, NEW x, x # e
    PROVE  AheadIn(Append(q, e), x) \subseteq AheadIn(q, x)
<1> DEFINE r == Append(q, e)
<1>1. Len(q) \in Nat /\ DOMAIN q = 1 .. Len(q)
  BY LenProperties
<1>2. /\ r \in Seq(S) /\ Len(r) = Len(q) + 1 /\ r[Len(q) + 1] = e
      /\ \A k \in 1 .. Len(q) : r[k] = q[k]
  BY AppendProperties
<1> HIDE DEF r
<1>3. DOMAIN r = 1 .. Len(q) + 1
  BY <1>2, LenProperties
<1>4. ASSUME NEW y \in AheadIn(r, x)
      PROVE  y \in AheadIn(q, x)
  <2>1. PICK n, m \in DOMAIN r : n < m /\ r[n] = y /\ r[m] = x
    BY <1>2, AheadMembers
  <2>2. m # Len(q) + 1
    BY <1>2, <2>1
  <2>3. n \in DOMAIN q /\ m \in DOMAIN q
    BY <1>1, <1>3, <2>1, <2>2
  <2>4. q[n] = y /\ q[m] = x
    BY <1>1, <1>2, <2>1, <2>3
  <2>5. QED
    BY <2>1, <2>3, <2>4, AheadMembers
<1>5. QED
  BY <1>4 DEF r

\* Nobody overtakes when an entry is taken out, and that entry is no longer ahead.
LEMMA RemoveAtAhead ==
    ASSUME NEW S, NEW q \in Seq(S), NEW k \in DOMAIN q, NEW e, q[k] = e, Distinct(q), NEW x
    PROVE  AheadIn(RemoveAt(q, k), x) \subseteq AheadIn(q, x) \ {e}
<1> DEFINE r == RemoveAt(q, k)
<1>1. Len(q) \in Nat /\ DOMAIN q = 1 .. Len(q) /\ k \in 1 .. Len(q)
  BY LenProperties
<1>2. /\ r \in Seq(S) /\ Len(r) = Len(q) - 1
      /\ \A j \in 1 .. Len(q) - 1 : r[j] = IF j < k THEN q[j] ELSE q[j + 1]
  BY <1>1, RemoveAtProperties
<1> HIDE DEF r
<1>3. DOMAIN r = 1 .. Len(q) - 1
  BY <1>2, LenProperties
<1>4. ASSUME NEW n \in DOMAIN r
      PROVE  \E i \in DOMAIN q : i = (IF n < k THEN n ELSE n + 1) /\ q[i] = r[n] /\ i # k
  BY <1>1, <1>2, <1>3, <1>4
<1>5. ASSUME NEW y \in AheadIn(r, x)
      PROVE  y \in AheadIn(q, x) \ {e}
  <2>1. PICK n, m \in DOMAIN r : n < m /\ r[n] = y /\ r[m] = x
    BY <1>2, AheadMembers
  <2>2. PICK i \in DOMAIN q : i = (IF n < k THEN n ELSE n + 1) /\ q[i] = y /\ i # k
    BY <1>4, <2>1
  <2>3. PICK j \in DOMAIN q : j = (IF m < k THEN m ELSE m + 1) /\ q[j] = x
    BY <1>4, <2>1
  <2>4. i < j
    BY <1>1, <1>3, <2>1, <2>2, <2>3
  <2>5. y # e
    BY <2>2 DEF Distinct
  <2>6. QED
    BY <2>2, <2>3, <2>4, <2>5, AheadMembers
<1>6. QED
  BY <1>5 DEF r

LEMMA RemoveFirstAhead ==
    ASSUME NEW S, NEW q \in Seq(S), NEW e, Distinct(q), NEW x
    PROVE  AheadIn(RemoveFirst(q, e), x) \subseteq AheadIn(q, x)
<1>1. CASE ~InQueue(q, e)
  BY <1>1, RemoveFirstIsRemoveAt
<1>2. CASE InQueue(q, e)
  <2>1. PICK k \in DOMAIN q : q[k] = e /\ RemoveFirst(q, e) = RemoveAt(q, k)
    BY <1>2, RemoveFirstIsRemoveAt
  <2>2. QED
    BY <2>1, RemoveAtAhead
<1>3. QED
  BY <1>1, <1>2

\* A rotation is no longer than there are requests.
LEMMA QueueLength ==
    ASSUME NEW S, IsFiniteSet(S), NEW q \in Seq(S), Distinct(q)
    PROVE  Len(q) \in Nat /\ Len(q) <= Cardinality(S)
<1>1. Len(q) \in Nat /\ DOMAIN q = 1 .. Len(q) /\ q \in [1 .. Len(q) -> S]
  BY LenProperties
<1>2. Cardinality(S) \in Nat
  BY FS_CardinalityType
<1>3. IsFiniteSet(1 .. Len(q)) /\ Cardinality(1 .. Len(q)) = Len(q)
  BY <1>1, FS_Interval
<1>4. ASSUME Cardinality(S) < Len(q)
      PROVE  \E x, y \in 1 .. Len(q) : x # y /\ q[x] = q[y]
  BY <1>1, <1>3, <1>4, FS_PigeonHole
<1>5. QED
  BY <1>1, <1>2, <1>4 DEF Distinct

-----------------------------------------------------------------------------
(* Numbers from a counter that goes from 1 to limit and again to 1; 0 stands *)
(* for no number.                                                           *)

Following(next, limit) == IF next = limit THEN 1 ELSE next + 1

NumberedIn(S, f) == {x \in S : f[x] # 0}

\* How many numbers were given since n was, n included.
Age(n, next, limit) == IF next > n THEN next - n ELSE next - n + limit

\* The numbers in use are different and among the last that were given.
RecentNumbers(S, f, next, limit) ==
    /\ \A x, y \in NumberedIn(S, f) : f[x] = f[y] => x = y
    /\ \A x \in NumberedIn(S, f) :
          Age(f[x], next, limit) <= Cardinality(NumberedIn(S, f))

LEMMA AgeGrows ==
    ASSUME NEW limit \in Nat, NEW next \in 1 .. limit, NEW n \in 1 .. limit
    PROVE  Age(n, Following(next, limit), limit)
              = IF n = next THEN 1 ELSE Age(n, next, limit) + 1
<1>1. PICK y : y = Following(next, limit)
  OBVIOUS
<1>2. y = IF next = limit THEN 1 ELSE next + 1
  BY <1>1 DEF Following
<1>3. Age(n, y, limit) = IF n = next THEN 1 ELSE Age(n, next, limit) + 1
  BY <1>2 DEF Age
<1>4. QED
  BY <1>1, <1>3

\* A number is given again only after all others have been: while fewer are in
\* use than there are, it is a new one.
LEMMA NumberIsFresh ==
    ASSUME NEW S, IsFiniteSet(S), NEW limit \in Nat, Cardinality(S) < limit,
           NEW f \in [S -> 0 .. limit], NEW next \in 1 .. limit,
           RecentNumbers(S, f, next, limit), NEW e \in S, f[e] = 0,
           NEW g, g = [f EXCEPT ![e] = next]
    PROVE  RecentNumbers(S, g, Following(next, limit), limit)
<1> DEFINE N == NumberedIn(S, f)
           M == NumberedIn(S, g)
<1>1. M = N \cup {e} /\ e \notin N
  BY DEF NumberedIn
<1>2. IsFiniteSet(N) /\ Cardinality(N) <= Cardinality(S)
  BY FS_Subset DEF NumberedIn
<1>3. Cardinality(N) \in Nat /\ Cardinality(S) \in Nat
  BY <1>2, FS_CardinalityType
<1>4. Cardinality(M) = Cardinality(N) + 1
  BY <1>1, <1>2, FS_AddElement
<1>5. ASSUME NEW x \in N
      PROVE  /\ x \in S /\ g[x] = f[x] /\ f[x] \in 1 .. limit /\ f[x] # next
             /\ Age(f[x], next, limit) <= Cardinality(N)
  <2>1. x \in S /\ g[x] = f[x] /\ f[x] \in 1 .. limit
    BY <1>1 DEF NumberedIn
  <2>2. Age(f[x], next, limit) <= Cardinality(N)
    BY DEF RecentNumbers
  <2>3. Age(next, next, limit) = limit
    BY DEF Age
  <2>4. f[x] # next
    BY <1>2, <1>3, <2>2, <2>3
  <2>5. QED
    BY <2>1, <2>2, <2>4
<1>6. g[e] = next
  OBVIOUS
<1> HIDE DEF N, M
<1>7. \A x, y \in M : g[x] = g[y] => x = y
  <2>1. \A x, y \in N : f[x] = f[y] => x = y
    BY DEF RecentNumbers, N
  <2>2. QED
    BY <1>1, <1>5, <1>6, <2>1
<1>8. ASSUME NEW x \in M
      PROVE  Age(g[x], Following(next, limit), limit) <= Cardinality(M)
  <2>1. CASE x = e
    BY <1>3, <1>4, <1>6, <2>1, AgeGrows
  <2>2. CASE x \in N
    <3>1. Age(g[x], Following(next, limit), limit) = Age(f[x], next, limit) + 1
      BY <1>5, <2>2, AgeGrows
    <3>2. Age(f[x], next, limit) \in Int
      BY <1>5, <2>2 DEF Age
    <3>3. QED
      BY <1>3, <1>4, <1>5, <2>2, <3>1, <3>2
  <2>3. QED
    BY <1>1, <2>1, <2>2
<1>9. QED
  BY <1>7, <1>8 DEF RecentNumbers, M
=============================================================================
