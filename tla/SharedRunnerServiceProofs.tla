---------------------- MODULE SharedRunnerServiceProofs ----------------------
(***************************************************************************)
(* Proofs about how fairly the shared runner serves its queues, for any    *)
(* pool and any calls: how often a priority can be passed over, the shares *)
(* of the priorities, and how long an invocation waits inside its queue.   *)
(***************************************************************************)
EXTENDS SharedRunnerService, SharedRunnerProofs

\* The entry of kPriorityCycle n places after the current position, and the one
\* m places before it.
EntryAfter(index, n) == PriorityCycle[((index + n - 1) % 7) + 1]

EntryBefore(index, m) == PriorityCycle[((index + 7 - m) % 7) + 1]

\* No entry that the scan went by since p was served is p.
BypassInv ==
    \A p \in Priorities :
        /\ passed[p] \in 0..6
        /\ \A m \in 1..7 : m <= passed[p] => EntryBefore(cycleIndex, m) # p

\* While every queue has work the scan takes one entry after the other.
SharesInv ==
    /\ shares \in Seq(Priorities)
    /\ Len(shares) \in 0..7
    /\ \A j \in 1..7 : j <= Len(shares) =>
          shares[j] = EntryBefore(cycleIndex, Len(shares) + 1 - j)

-----------------------------------------------------------------------------
(* The cycle.                                                               *)

LEMMA CycleEntries ==
    /\ PriorityCycle[1] = 2 /\ PriorityCycle[2] = 2 /\ PriorityCycle[3] = 2
    /\ PriorityCycle[4] = 2 /\ PriorityCycle[5] = 1 /\ PriorityCycle[6] = 1
    /\ PriorityCycle[7] = 0
    /\ \A k \in 1..7 : PriorityCycle[k] \in Priorities
  BY DEF PriorityCycle, Priorities

LEMMA Wraps ==
    ASSUME NEW n \in 0..20
    PROVE  n % 7 = IF n < 7 THEN n ELSE IF n < 14 THEN n - 7 ELSE n - 14
  OBVIOUS

\* What was ahead of the scan is behind it once the scan has moved on.
LEMMA EntriesMove ==
    ASSUME NEW index \in 0..6, NEW n \in 1..7, NEW next, next = (index + n) % 7,
           NEW m \in 1..7
    PROVE  /\ next \in 0..6
           /\ m <= n => EntryBefore(next, m) = EntryAfter(index, n + 1 - m)
           /\ m > n => EntryBefore(next, m) = EntryBefore(index, m - n)
<1>1. next \in 0..6 /\ next = IF index + n < 7 THEN index + n ELSE index + n - 7
  BY Wraps
<1>2. ASSUME m <= n
      PROVE  EntryBefore(next, m) = EntryAfter(index, n + 1 - m)
  <2>1. (next + 7 - m) % 7 = (index + (n + 1 - m) - 1) % 7
    BY <1>1, <1>2, Wraps
  <2>2. QED
    BY <2>1 DEF EntryBefore, EntryAfter
<1>3. ASSUME m > n
      PROVE  EntryBefore(next, m) = EntryBefore(index, m - n)
  <2>1. (next + 7 - m) % 7 = (index + 7 - (m - n)) % 7
    BY <1>1, <1>3, Wraps
  <2>2. QED
    BY <2>1 DEF EntryBefore
<1>4. QED
  BY <1>1, <1>2, <1>3

\* The last seven entries are all entries: each priority is among them, and so
\* it is among the last seven, six and four.
LEMMA EveryPriorityComes ==
    ASSUME NEW index \in 0..6
    PROVE  /\ \E m \in 1..7 : EntryBefore(index, m) = 0
           /\ \E m \in 1..6 : EntryBefore(index, m) = 1
           /\ \E m \in 1..4 : EntryBefore(index, m) = 2
<1>1. \A m \in 1..7 : EntryBefore(index, m) =
         PriorityCycle[(IF m <= index THEN index - m ELSE index - m + 7) + 1]
  <2>1. ASSUME NEW m \in 1..7
        PROVE  (index + 7 - m) % 7 = IF m <= index THEN index - m ELSE index - m + 7
    BY Wraps
  <2>2. QED
    BY <2>1 DEF EntryBefore
<1>2. CASE index = 0
  <2>1. EntryBefore(0, 1) = 0 /\ EntryBefore(0, 2) = 1 /\ EntryBefore(0, 4) = 2
    BY <1>1, <1>2, CycleEntries
  <2>2. QED
    BY <1>2, <2>1
<1>3. CASE index = 1
  <2>1. EntryBefore(1, 2) = 0 /\ EntryBefore(1, 3) = 1 /\ EntryBefore(1, 1) = 2
    BY <1>1, <1>3, CycleEntries
  <2>2. QED
    BY <1>3, <2>1
<1>4. CASE index = 2
  <2>1. EntryBefore(2, 3) = 0 /\ EntryBefore(2, 4) = 1 /\ EntryBefore(2, 1) = 2
    BY <1>1, <1>4, CycleEntries
  <2>2. QED
    BY <1>4, <2>1
<1>5. CASE index = 3
  <2>1. EntryBefore(3, 4) = 0 /\ EntryBefore(3, 5) = 1 /\ EntryBefore(3, 1) = 2
    BY <1>1, <1>5, CycleEntries
  <2>2. QED
    BY <1>5, <2>1
<1>6. CASE index = 4
  <2>1. EntryBefore(4, 5) = 0 /\ EntryBefore(4, 6) = 1 /\ EntryBefore(4, 1) = 2
    BY <1>1, <1>6, CycleEntries
  <2>2. QED
    BY <1>6, <2>1
<1>7. CASE index = 5
  <2>1. EntryBefore(5, 6) = 0 /\ EntryBefore(5, 1) = 1 /\ EntryBefore(5, 2) = 2
    BY <1>1, <1>7, CycleEntries
  <2>2. QED
    BY <1>7, <2>1
<1>8. CASE index = 6
  <2>1. EntryBefore(6, 7) = 0 /\ EntryBefore(6, 1) = 1 /\ EntryBefore(6, 3) = 2
    BY <1>1, <1>8, CycleEntries
  <2>2. QED
    BY <1>8, <2>1
<1>9. QED
  BY <1>2, <1>3, <1>4, <1>5, <1>6, <1>7, <1>8

LEMMA OneMore ==
    ASSUME NEW X, IsFiniteSet(X), NEW a, a \notin X,
           NEW Y, \A z : z \in Y <=> (z \in X \/ z = a)
    PROVE  IsFiniteSet(Y) /\ Cardinality(Y) = Cardinality(X) + 1
<1>1. Y = X \cup {a}
  OBVIOUS
<1>2. QED
  BY <1>1, FS_AddElement

\* One turn of the cycle, from any position: four high, two normal, one low.
LEMMA TurnOfCycle ==
    ASSUME NEW index \in 0..6, NEW s, \A j \in 1..7 : s[j] = EntryBefore(index, 8 - j)
    PROVE  /\ Cardinality({j \in 1..7 : s[j] = 0}) = 1
           /\ Cardinality({j \in 1..7 : s[j] = 1}) = 2
           /\ Cardinality({j \in 1..7 : s[j] = 2}) = 4
<1> DEFINE at(e) == IF e > index THEN e - index ELSE e - index + 7
<1>1. ASSUME NEW j \in 1..7
      PROVE  \E e \in 1..7 : s[j] = PriorityCycle[e] /\ j = at(e)
  <2>1. PICK e : e = ((index + j - 1) % 7) + 1
    OBVIOUS
  <2>2. index + 7 - (8 - j) = index + j - 1
    OBVIOUS
  <2>3. e \in 1..7 /\ j = at(e)
    BY <2>1, Wraps
  <2>4. s[j] = PriorityCycle[e]
    BY <2>1, <2>2 DEF EntryBefore
  <2>5. QED
    BY <2>3, <2>4
<1>2. \A e \in 1..7 : at(e) \in 1..7
  OBVIOUS
<1>3. \A d, e \in 1..7 : at(d) = at(e) => d = e
  OBVIOUS
<1>4. \A e \in 1..7 : s[at(e)] = PriorityCycle[e]
  BY <1>1, <1>2, <1>3
<1> HIDE DEF at
<1>5. \A e \in 1..7 : /\ PriorityCycle[e] = 0 <=> e = 7
                      /\ PriorityCycle[e] = 1 <=> e \in {5, 6}
                      /\ PriorityCycle[e] = 2 <=> e \in {1, 2, 3, 4}
  BY CycleEntries
<1>6. {j \in 1..7 : s[j] = 0} = {at(7)}
  BY <1>1, <1>2, <1>4, <1>5
<1>7. {j \in 1..7 : s[j] = 1} = {at(5), at(6)}
  BY <1>1, <1>2, <1>4, <1>5
<1>8. {j \in 1..7 : s[j] = 2} = {at(1), at(2), at(3), at(4)}
  BY <1>1, <1>2, <1>4, <1>5
<1>9. PICK a, b, c, d, e, f, g :
         /\ a = at(1) /\ b = at(2) /\ c = at(3) /\ d = at(4)
         /\ e = at(5) /\ f = at(6) /\ g = at(7)
  OBVIOUS
<1>10. a # b /\ a # c /\ a # d /\ b # c /\ b # d /\ c # d /\ e # f
  BY <1>3, <1>9
<1>11. Cardinality({g}) = 1
  BY FS_Singleton
<1>12. Cardinality({e, f}) = 2
  <2>1. {e, f} = {e} \cup {f} /\ f \notin {e}
    BY <1>10
  <2>2. IsFiniteSet({e}) /\ Cardinality({e}) = 1
    BY FS_Singleton
  <2>3. QED
    BY <2>1, <2>2, FS_AddElement
<1>13. Cardinality({a, b, c, d}) = 4
  <2>1. PICK X, Y, Z, U : X = {a} /\ Y = {a, b} /\ Z = {a, b, c} /\ U = {a, b, c, d}
    OBVIOUS
  <2>2. IsFiniteSet(X) /\ Cardinality(X) = 1
    BY <2>1, FS_Singleton
  <2>3. b \notin X /\ \A z : z \in Y <=> (z \in X \/ z = b)
    BY <1>10, <2>1
  <2>4. c \notin Y /\ \A z : z \in Z <=> (z \in Y \/ z = c)
    BY <1>10, <2>1
  <2>5. d \notin Z /\ \A z : z \in U <=> (z \in Z \/ z = d)
    BY <1>10, <2>1
  <2>6. IsFiniteSet(Y) /\ Cardinality(Y) = 1 + 1
    BY <2>2, <2>3, OneMore
  <2>7. IsFiniteSet(Z) /\ Cardinality(Z) = (1 + 1) + 1
    BY <2>4, <2>6, OneMore
  <2>8. Cardinality(U) = ((1 + 1) + 1) + 1
    BY <2>5, <2>7, OneMore
  <2>9. QED
    BY <2>1, <2>8
<1>14. QED
  BY <1>6, <1>7, <1>8, <1>9, <1>11, <1>12, <1>13


\* r is the last l elements of s, and p.
Continues(r, s, p, l) ==
    /\ Len(r) = l + 1 /\ r[l + 1] = p /\ l <= Len(s)
    /\ \A j \in 1 .. l : r[j] = s[j + Len(s) - l]

\* The last seven selections.
LEMMA Window ==
    ASSUME NEW S, NEW s \in Seq(S), Len(s) \in 0..7, NEW p \in S,
           NEW t, t = IF Len(s) = 7 THEN Tail(s) ELSE s, NEW r, r = Append(t, p)
    PROVE  /\ r \in Seq(S)
           /\ \E l \in 0..6 : Continues(r, s, p, l)
<1> DEFINE Rest(l) == /\ t \in Seq(S) /\ Len(t) = l /\ l <= Len(s)
                       /\ \A j \in 1 .. l : t[j] = s[j + Len(s) - l]
<1>2. PICK l \in 0..6 : Rest(l)
  <2>1. CASE Len(s) = 7
    <3>1. s # <<>>
      BY <2>1, EmptySeq
    <3>2. /\ t \in Seq(S) /\ Len(t) = Len(s) - 1
          /\ \A j \in 1 .. Len(s) - 1 : t[j] = s[j + 1]
      BY <2>1, <3>1, HeadTailProperties
    <3>3. ASSUME NEW j \in 1 .. 6
          PROVE  t[j] = s[j + Len(s) - 6]
      <4>1. j \in 1 .. Len(s) - 1 /\ j + Len(s) - 6 = j + 1
        BY <2>1
      <4>2. QED
        BY <3>2, <4>1
    <3>4. 6 \in 0..6 /\ t \in Seq(S) /\ Len(t) = 6 /\ 6 <= Len(s)
      BY <2>1, <3>2
    <3>5. Rest(6)
      BY <3>3, <3>4
    <3> HIDE DEF Rest
    <3>6. QED
      BY <3>4, <3>5
  <2>2. CASE Len(s) # 7
    <3>1. t = s /\ Len(s) \in 0..6
      BY <2>2
    <3>2. PICK l \in 0..6 : l = Len(s)
      BY <3>1
    <3>3. \A j \in 1 .. l : t[j] = s[j + Len(s) - l]
      <4>1. \A j \in 1 .. l : j + l - l = j
        OBVIOUS
      <4>2. QED
        BY <3>1, <3>2, <4>1
    <3>4. Rest(l)
      BY <3>1, <3>2, <3>3
    <3> HIDE DEF Rest
    <3>5. QED
      BY <3>4
  <2>3. QED
    BY <2>1, <2>2
<1>3. /\ r \in Seq(S) /\ Len(r) = l + 1 /\ r[l + 1] = p
      /\ \A j \in 1 .. l : r[j] = t[j]
  BY <1>2, AppendProperties
<1>4. \A j \in 1 .. l : r[j] = s[j + Len(s) - l]
  BY <1>2, <1>3
<1>5. l <= Len(s)
  BY <1>2
<1>6. Continues(r, s, p, l)
  BY <1>3, <1>4, <1>5 DEF Continues
<1> HIDE DEF Rest
<1>7. QED
  BY <1>3, <1>6

-----------------------------------------------------------------------------
(* A selection: SelectPriorityLocked.                                       *)

LEMMA ScanEffect ==
    ASSUME TypeOK, NEW w \in Workers, NEW n \in 1..7, NEW p \in Priorities, NEW k, NEW v,
           Selects(w, n, p, k, v)
    PROVE  /\ cycleIndex \in 0..6 /\ cycleIndex' = (cycleIndex + n) % 7
           /\ EntryAfter(cycleIndex, n) = p /\ ready[p] # <<>>
           /\ \A m \in 1..7 : m < n => ready[EntryAfter(cycleIndex, m)] = <<>>
<1>1. cycleIndex \in 0..6 /\ cycleIndex' = (cycleIndex + n) % 7
  BY DEF TypeOK, Selects, NextCycleIndex
<1>2. /\ EntryAfter(cycleIndex, n) = p /\ ready[p] # <<>>
      /\ \A m \in 1 .. n - 1 : ready[EntryAfter(cycleIndex, m)] = <<>>
  BY DEF Selects, SelectsPriority, EntryAfter
<1>3. \A m \in 1..7 : m < n => m \in 1 .. n - 1
  OBVIOUS
<1>4. QED
  BY <1>1, <1>2, <1>3

LEMMA ServedBypass ==
    ASSUME TypeOK, BypassInv, NEW w \in Workers, NEW n \in 1..7, NEW p \in Priorities,
           NEW k, NEW v, Selects(w, n, p, k, v), NEW i, Served(p, i)
    PROVE  BypassInv'
<1>1. /\ cycleIndex \in 0..6 /\ cycleIndex' = (cycleIndex + n) % 7
      /\ EntryAfter(cycleIndex, n) = p /\ ready[p] # <<>>
      /\ \A m \in 1..7 : m < n => ready[EntryAfter(cycleIndex, m)] = <<>>
  BY ScanEffect
<1>2. PICK next \in 0..6 : next = cycleIndex'
  BY <1>1, EntriesMove
<1>3. ASSUME NEW q \in Priorities
      PROVE  /\ passed'[q] \in 0..6
             /\ \A m \in 1..7 : m <= passed'[q] => EntryBefore(next, m) # q
  <2>1. passed'[q] = IF q = p \/ ready[q] = <<>> THEN 0 ELSE passed[q] + 1
    BY DEF Served
  <2>2. CASE q = p \/ ready[q] = <<>>
    BY <2>1, <2>2
  <2>3. CASE q # p /\ ready[q] # <<>>
    <3>1. passed'[q] = passed[q] + 1 /\ passed[q] \in 0..6
      BY <2>1, <2>3 DEF BypassInv
    <3>2. ASSUME NEW m \in 1..7, m <= passed[q] + 1
          PROVE  EntryBefore(next, m) # q
      <4>1. CASE m <= n
        <5>1. EntryBefore(next, m) = EntryAfter(cycleIndex, n + 1 - m)
          BY <1>1, <1>2, <4>1, EntriesMove
        <5>2. CASE m = 1
          BY <1>1, <2>3, <5>1, <5>2
        <5>3. CASE m # 1
          <6>1. n + 1 - m \in 1..7 /\ n + 1 - m < n
            BY <4>1, <5>3
          <6>2. QED
            BY <1>1, <2>3, <5>1, <6>1
        <5>4. QED
          BY <5>2, <5>3
      <4>2. CASE m > n
        <5>1. EntryBefore(next, m) = EntryBefore(cycleIndex, m - n)
          BY <1>1, <1>2, <4>2, EntriesMove
        <5>2. m - n \in 1..7 /\ m - n <= passed[q]
          BY <3>1, <3>2, <4>2
        <5>3. QED
          BY <5>1, <5>2 DEF BypassInv
      <4>3. QED
        BY <4>1, <4>2
    <3>3. passed[q] # 6
      <4>1. q \in {0, 1, 2}
        BY DEF Priorities
      <4>2. \E m \in 1..7 : EntryBefore(next, m) = q
        <5>1. /\ \E m \in 1..7 : EntryBefore(next, m) = 0
              /\ \E m \in 1..6 : EntryBefore(next, m) = 1
              /\ \E m \in 1..4 : EntryBefore(next, m) = 2
          BY EveryPriorityComes
        <5>2. QED
          BY <4>1, <5>1
      <4>3. QED
        BY <3>2, <4>2
    <3>4. QED
      BY <3>1, <3>2, <3>3
  <2>4. QED
    BY <2>2, <2>3
<1>4. QED
  BY <1>2, <1>3 DEF BypassInv

LEMMA ServedShares ==
    ASSUME TypeOK, SharesInv, NEW w \in Workers, NEW n \in 1..7, NEW p \in Priorities,
           NEW k, NEW v, Selects(w, n, p, k, v), NEW i, Served(p, i)
    PROVE  SharesInv'
<1>1. /\ cycleIndex \in 0..6 /\ cycleIndex' = (cycleIndex + n) % 7
      /\ EntryAfter(cycleIndex, n) = p
      /\ \A m \in 1..7 : m < n => ready[EntryAfter(cycleIndex, m)] = <<>>
  BY ScanEffect
<1>2. PICK next \in 0..6 : next = cycleIndex'
  BY <1>1, EntriesMove
<1>3. CASE ~AllReady
  <2>1. shares' = <<>>
    BY <1>3 DEF Served
  <2>2. shares' \in Seq(Priorities) /\ Len(shares') = 0
    BY <2>1
  <2>3. QED
    BY <2>2 DEF SharesInv
<1>4. CASE AllReady
  <2>1. n = 1
    <3>1. EntryAfter(cycleIndex, 1) \in Priorities
      <4>1. ((cycleIndex + 1 - 1) % 7) + 1 \in 1..7
        BY <1>1
      <4>2. QED
        BY <4>1, CycleEntries DEF EntryAfter
    <3>2. ready[EntryAfter(cycleIndex, 1)] # <<>>
      BY <1>4, <3>1 DEF AllReady
    <3>3. QED
      BY <1>1, <3>2
  <2>2. PICK s, c : s = shares /\ c = Len(s)
    OBVIOUS
  <2>3. /\ s \in Seq(Priorities) /\ c \in 0..7
        /\ \A j \in 1..7 : j <= c => s[j] = EntryBefore(cycleIndex, c + 1 - j)
    BY <2>2 DEF SharesInv
  <2>4. PICK r : r = shares'
    OBVIOUS
  <2>5. PICK t : t = (IF Len(s) = 7 THEN Tail(s) ELSE s) /\ r = Append(t, p)
    BY <1>4, <2>2, <2>4 DEF Served
  <2>6. s \in Seq(Priorities) /\ Len(s) \in 0..7
    BY <2>2, <2>3
  <2>7. t = (IF Len(s) = 7 THEN Tail(s) ELSE s) /\ r = Append(t, p)
    BY <2>5
  <2>8. r \in Seq(Priorities)
    BY <2>6, <2>7, Window
  <2>9. \E l \in 0..6 : Continues(r, s, p, l)
    BY <2>6, <2>7, Window
  <2>10. PICK l \in 0..6 : Continues(r, s, p, l)
    BY <2>9
  <2>11. /\ Len(r) = l + 1 /\ r[l + 1] = p /\ l <= Len(s)
         /\ \A j \in 1 .. l : r[j] = s[j + Len(s) - l]
    BY <2>10 DEF Continues
  <2>12. l <= c
    BY <2>2, <2>11
  <2>13. ASSUME NEW j \in 1..7, j <= l + 1
        PROVE  r[j] = EntryBefore(next, l + 1 + 1 - j)
    <3>1. CASE j = l + 1
      <4>1. EntryBefore(next, 1) = EntryAfter(cycleIndex, 1)
        BY <1>1, <1>2, <2>1, EntriesMove
      <4>2. l + 1 + 1 - j = 1
        BY <3>1
      <4>3. QED
        BY <1>1, <2>1, <2>11, <3>1, <4>1, <4>2
    <3>2. CASE j # l + 1
      <4>1. PICK m : m = l + 1 + 1 - j
        OBVIOUS
      <4>2. m \in 1..7 /\ m > 1 /\ j \in 1 .. l
        BY <2>13, <3>2, <4>1
      <4>3. EntryBefore(next, m) = EntryBefore(cycleIndex, m - 1)
        BY <1>1, <1>2, <2>1, <4>2, EntriesMove
      <4>4. PICK o : o = j + c - l
        OBVIOUS
      <4>5. o \in 1..7 /\ o <= c /\ c + 1 - o = m - 1
        BY <2>3, <2>12, <4>1, <4>2, <4>4
      <4>6. r[j] = s[o] /\ s[o] = EntryBefore(cycleIndex, c + 1 - o)
        BY <2>2, <2>3, <2>11, <4>2, <4>4, <4>5
      <4>7. QED
        BY <4>1, <4>3, <4>5, <4>6
    <3>3. QED
      BY <3>1, <3>2
  <2>14. Len(r) \in 0..7 /\ \A j \in 1..7 : j <= Len(r) => r[j] = EntryBefore(next, Len(r) + 1 - j)
    <3>1. l + 1 \in 0..7 /\ Len(r) = l + 1
      BY <2>11
    <3>2. QED
      BY <2>13, <3>1
  <2>15. QED
    BY <1>2, <2>4, <2>8, <2>14 DEF SharesInv
<1>5. QED
  BY <1>3, <1>4

-----------------------------------------------------------------------------
(* The other steps select nothing.                                          *)

LEMMA OtherStepEffect ==
    ASSUME OtherStep
    PROVE  UNCHANGED <<lastGroup, cycleIndex>>
<1>1. ASSUME NEW i \in Invocations, Enter(i) \/ CallerStep(i) \/ Expire(i)
      PROVE  UNCHANGED <<lastGroup, cycleIndex>>
  BY <1>1 DEF Enter, CallerStep, Submit, Notify, Poll, Expire, poolVars
<1>2. ASSUME NEW w \in Workers,
             \/ CheckWork(w) \/ TakeNothing(w) \/ CallFunction(w) \/ EndChunk(w)
             \/ CompleteChunk(w) \/ WakeSpuriously(w)
      PROVE  UNCHANGED <<lastGroup, cycleIndex>>
  BY <1>2 DEF CheckWork, TakeNothing, CallFunction, EndChunk, CompleteChunk, WakeSpuriously,
              poolVars
<1>3. CASE BeginStop \/ StopStep
  BY <1>3 DEF BeginStop, StopStep, NotifyStop, Join
<1>4. QED
  BY <1>1, <1>2, <1>3 DEF OtherStep

LEMMA NothingServedKeeps ==
    ASSUME BypassInv, SharesInv, UNCHANGED cycleIndex, NothingServed
    PROVE  BypassInv' /\ SharesInv'
<1>1. ASSUME NEW q \in Priorities
      PROVE  /\ passed'[q] \in 0..6
             /\ \A m \in 1..7 : m <= passed'[q] => EntryBefore(cycleIndex, m) # q
  <2>1. passed'[q] = 0 \/ passed'[q] = passed[q]
    BY DEF NothingServed
  <2>2. CASE passed'[q] = 0
    BY <2>2
  <2>3. CASE passed'[q] = passed[q]
    BY <2>3 DEF BypassInv
  <2>4. QED
    BY <2>1, <2>2, <2>3
<1>2. BypassInv'
  BY <1>1 DEF BypassInv
<1>3. SharesInv'
  BY DEF SharesInv, NothingServed
<1>4. QED
  BY <1>2, <1>3

\* A selection serves an entry of the queue, and leaves it queued only if there
\* is work for it.
LEMMA SelectionStep ==
    ASSUME RunnerInv, QueueInv, NEW w \in Workers, NEW n \in 1..7, NEW p \in Priorities,
           NEW k, Dispatch(w, n, p, k) \/ Discard(w, n, p, k)
    PROVE  /\ k \in DOMAIN ready[p]
           /\ \E v \in InvocationType : Selects(w, n, p, k, v)
  BY DispatchSelects, DiscardSelects

LEMMA ServiceStepKeeps ==
    ASSUME RunnerInv, QueueInv, BypassInv, SharesInv, [ServiceNext]_serviceVars
    PROVE  BypassInv' /\ SharesInv'
<1>1. ASSUME NEW w \in Workers, NEW n \in 1..7, NEW p \in Priorities, NEW k,
             Dispatch(w, n, p, k) \/ Discard(w, n, p, k), Served(p, ready[p][k])
      PROVE  BypassInv' /\ SharesInv'
  <2>1. PICK v \in InvocationType : Selects(w, n, p, k, v)
    BY <1>1, SelectionStep
  <2>2. TypeOK
    BY DEF RunnerInv
  <2>3. BypassInv'
    BY <1>1, <2>1, <2>2, ServedBypass
  <2>4. SharesInv'
    BY <1>1, <2>1, <2>2, ServedShares
  <2>5. QED
    BY <2>3, <2>4
<1>2. CASE OtherStep /\ NothingServed
  BY <1>2, OtherStepEffect, NothingServedKeeps
<1>3. CASE UNCHANGED serviceVars
  BY <1>3 DEF serviceVars, vars, BypassInv, SharesInv
<1>4. QED
  BY <1>1, <1>2, <1>3 DEF ServiceNext

\* The history variables record the scheduler and do not restrict it.
LEMMA ServiceIsScheduler == ServiceSpec => Spec
<1>1. ServiceInit => Init
  BY DEF ServiceInit
<1>2. [ServiceNext]_serviceVars => [Next]_vars
  <2>1. SUFFICES ASSUME ServiceNext
                 PROVE  Next
    BY DEF serviceVars
  <2>2. ASSUME NEW w \in Workers, NEW n \in 1..7, NEW p \in Priorities, NEW k \in Positions,
               Dispatch(w, n, p, k) \/ Discard(w, n, p, k)
        PROVE  Next
    BY <2>2 DEF Next, WorkerStep, Take
  <2>3. CASE OtherStep
    BY <2>3 DEF OtherStep, Next, WorkerStep, Take
  <2>4. QED
    BY <2>1, <2>2, <2>3 DEF ServiceNext
<1>3. QED
  BY <1>1, <1>2, PTL DEF ServiceSpec, Spec

LEMMA SchedulerInvariant == ServiceSpec => [](RunnerInv /\ QueueInv)
  BY ServiceIsScheduler, QueuesInvariant, PTL

LEMMA CycleInvariant == ServiceSpec => [](BypassInv /\ SharesInv)
<1>1. ServiceInit => BypassInv /\ SharesInv
  <2>1. SUFFICES ASSUME ServiceInit
                 PROVE  BypassInv /\ SharesInv
    OBVIOUS
  <2>2. BypassInv
    BY <2>1 DEF ServiceInit, BypassInv
  <2>3. shares \in Seq(Priorities) /\ Len(shares) = 0
    BY <2>1 DEF ServiceInit
  <2>4. SharesInv
    BY <2>3 DEF SharesInv
  <2>5. QED
    BY <2>2, <2>4
<1>2. /\ RunnerInv /\ QueueInv
      /\ BypassInv /\ SharesInv
      /\ [ServiceNext]_serviceVars
      => BypassInv' /\ SharesInv'
  BY ServiceStepKeeps
<1>3. QED
  BY <1>1, <1>2, SchedulerInvariant, PTL DEF ServiceSpec

-----------------------------------------------------------------------------
(* The theorems about the cycle.                                            *)

\* SelectPriorityLocked passes over high work at most three times, normal work
\* five times and low work six times before it serves it, whatever the other
\* queues hold.
THEOREM BypassIsBounded == ServiceSpec => []PriorityBypassBounded
<1>1. RunnerInv /\ BypassInv => PriorityBypassBounded
  <2>1. SUFFICES ASSUME RunnerInv, BypassInv
                 PROVE  PriorityBypassBounded
    OBVIOUS
  <2>2. cycleIndex \in 0..6
    BY <2>1 DEF RunnerInv, TypeOK
  <2>3. /\ \E m \in 1..7 : EntryBefore(cycleIndex, m) = 0
        /\ \E m \in 1..6 : EntryBefore(cycleIndex, m) = 1
        /\ \E m \in 1..4 : EntryBefore(cycleIndex, m) = 2
    BY <2>2, EveryPriorityComes
  <2>4. 0 \in Priorities /\ 1 \in Priorities /\ 2 \in Priorities
    BY DEF Priorities
  <2>5. passed[0] <= 6
    BY <2>1, <2>4 DEF BypassInv
  <2>6. passed[1] <= 5
    <3>1. PICK m \in 1..6 : EntryBefore(cycleIndex, m) = 1
      BY <2>3
    <3>2. ~(m <= passed[1]) /\ passed[1] \in 0..6
      BY <2>1, <2>4, <3>1 DEF BypassInv
    <3>3. QED
      BY <3>2
  <2>7. passed[2] <= 3
    <3>1. PICK m \in 1..4 : EntryBefore(cycleIndex, m) = 2
      BY <2>3
    <3>2. ~(m <= passed[2]) /\ passed[2] \in 0..6
      BY <2>1, <2>4, <3>1 DEF BypassInv
    <3>3. QED
      BY <3>2
  <2>8. ASSUME NEW p \in Priorities
        PROVE  passed[p] <= <<6, 5, 3>>[p + 1]
    <3>1. p = 0 \/ p = 1 \/ p = 2
      BY DEF Priorities
    <3>2. /\ <<6, 5, 3>>[0 + 1] = 6 /\ <<6, 5, 3>>[1 + 1] = 5
          /\ <<6, 5, 3>>[2 + 1] = 3
      OBVIOUS
    <3>3. QED
      BY <2>5, <2>6, <2>7, <3>1, <3>2
  <2>9. QED
    BY <2>8 DEF PriorityBypassBounded
<1>2. QED
  BY <1>1, SchedulerInvariant, CycleInvariant, PTL

\* While no queue is empty every seven selections share the pool 4:2:1.
THEOREM SharesAreWeighted == ServiceSpec => []WeightedShares
<1>1. RunnerInv /\ SharesInv => WeightedShares
  <2>1. SUFFICES ASSUME RunnerInv, SharesInv, Len(shares) = 7, NEW p \in Priorities
                 PROVE  Cardinality({j \in 1..7 : shares[j] = p}) = <<1, 2, 4>>[p + 1]
    BY DEF WeightedShares
  <2>2. cycleIndex \in 0..6
    BY <2>1 DEF RunnerInv, TypeOK
  <2>3. \A j \in 1..7 : shares[j] = EntryBefore(cycleIndex, 8 - j)
    <3>1. ASSUME NEW j \in 1..7
          PROVE  shares[j] = EntryBefore(cycleIndex, 8 - j)
      <4>1. j <= Len(shares) /\ Len(shares) + 1 - j = 8 - j
        BY <2>1
      <4>2. QED
        BY <2>1, <4>1 DEF SharesInv
    <3>2. QED
      BY <3>1
  <2>4. /\ Cardinality({j \in 1..7 : shares[j] = 0}) = 1
        /\ Cardinality({j \in 1..7 : shares[j] = 1}) = 2
        /\ Cardinality({j \in 1..7 : shares[j] = 2}) = 4
    BY <2>2, <2>3, TurnOfCycle
  <2>5. p = 0 \/ p = 1 \/ p = 2
    BY DEF Priorities
  <2>6. /\ <<1, 2, 4>>[0 + 1] = 1 /\ <<1, 2, 4>>[1 + 1] = 2
        /\ <<1, 2, 4>>[2 + 1] = 4
    OBVIOUS
  <2>7. QED
    BY <2>4, <2>5, <2>6
<1>2. QED
  BY <1>1, SchedulerInvariant, CycleInvariant, PTL

-----------------------------------------------------------------------------
(* Inside a queue.                                                          *)

Peers(i) == {j \in Invocations : Priority[j] = Priority[i]}

OtherGroups(i) == {j \in Peers(i) : Group[j] # Group[i]}

\* Those ahead of i in the queue q that belong to i's group, and the others.
SameAhead(q, i) == {x \in AheadIn(q, i) : Group[x] = Group[i]}

OtherAhead(q, i) == {x \in AheadIn(q, i) : Group[x] # Group[i]}

\* How many selections in the queue q, which served group g last, can still
\* come before i's.  Each of i's group may be followed by one of another group,
\* and one of another group that joins behind i passes it once if i's group was
\* served last.
Delay(q, g, i) ==
    LET same == Cardinality(SameAhead(q, i))
        other == Cardinality(OtherAhead(q, i))
    IN  IF OtherGroups(i) = {} THEN same
        ELSE 2 * same + (IF other = 0 /\ g = Group[i] THEN 1 ELSE other)

WaitLimit(i) ==
    LET m == Cardinality(Peers(i))
    IN  IF m = 1 THEN 0 ELSE 2 * m - 3

DelayOf(i) == Delay(ready[Priority[i]], lastGroup[Priority[i]], i)

\* What i has waited and may still wait is within the limit.
WaitInv ==
    \A i \in Invocations :
        /\ waited[i] \in Nat
        /\ IF inv[i].queued THEN waited[i] + DelayOf(i) <= WaitLimit(i)
           ELSE waited[i] = 0

\* A queue of priority p.
IsQueueOf(q, p) ==
    /\ q \in Seq(Invocations)
    /\ Distinct(q)
    /\ \A x : InQueue(q, x) => Priority[x] = p

LEMMA AheadAreFinite ==
    ASSUME NEW q \in Seq(Invocations), NEW i
    PROVE  /\ AheadIn(q, i) \subseteq Invocations
           /\ IsFiniteSet(SameAhead(q, i)) /\ Cardinality(SameAhead(q, i)) \in Nat
           /\ IsFiniteSet(OtherAhead(q, i)) /\ Cardinality(OtherAhead(q, i)) \in Nat
           /\ Cardinality(OtherAhead(q, i)) = 0 <=> OtherAhead(q, i) = {}
<1>1. AheadIn(q, i) \subseteq Invocations
  BY AheadMembers
<1>2. IsFiniteSet(SameAhead(q, i)) /\ IsFiniteSet(OtherAhead(q, i))
  <2>1. SameAhead(q, i) \subseteq Invocations /\ OtherAhead(q, i) \subseteq Invocations
    BY <1>1 DEF SameAhead, OtherAhead
  <2>2. QED
    BY <2>1, ServiceAssumption, FS_Subset
<1>3. QED
  BY <1>1, <1>2, FS_CardinalityType, FS_EmptySet

\* Two queues; every one ahead of i in r is ahead of i in q.
LEMMA FewerAhead ==
    ASSUME NEW q \in Seq(Invocations), NEW r \in Seq(Invocations), NEW i,
           AheadIn(r, i) \subseteq AheadIn(q, i)
    PROVE  /\ Cardinality(SameAhead(r, i)) <= Cardinality(SameAhead(q, i))
           /\ Cardinality(OtherAhead(r, i)) <= Cardinality(OtherAhead(q, i))
<1>1. SameAhead(r, i) \subseteq SameAhead(q, i) /\ OtherAhead(r, i) \subseteq OtherAhead(q, i)
  BY DEF SameAhead, OtherAhead
<1>2. QED
  BY <1>1, AheadAreFinite, FS_Subset

\* The same, and e, which is ahead of i in q, is not in r.
LEMMA OneFewerAhead ==
    ASSUME NEW q \in Seq(Invocations), NEW r \in Seq(Invocations), NEW i, NEW e,
           e \in AheadIn(q, i), AheadIn(r, i) \subseteq AheadIn(q, i) \ {e}
    PROVE  IF Group[e] = Group[i]
           THEN Cardinality(SameAhead(r, i)) + 1 <= Cardinality(SameAhead(q, i))
           ELSE Cardinality(OtherAhead(r, i)) + 1 <= Cardinality(OtherAhead(q, i))
<1>1. CASE Group[e] = Group[i]
  <2>1. /\ e \in SameAhead(q, i)
        /\ SameAhead(r, i) \subseteq SameAhead(q, i) \ {e}
    BY <1>1 DEF SameAhead
  <2>2. PICK T : T = SameAhead(q, i) \ {e}
    OBVIOUS
  <2>3. IsFiniteSet(T) /\ Cardinality(T) = Cardinality(SameAhead(q, i)) - 1
    BY <2>1, <2>2, AheadAreFinite, FS_RemoveElement
  <2>4. Cardinality(SameAhead(r, i)) <= Cardinality(T)
    BY <2>1, <2>2, <2>3, FS_Subset
  <2>5. QED
    BY <1>1, <2>3, <2>4, AheadAreFinite
<1>2. CASE Group[e] # Group[i]
  <2>1. /\ e \in OtherAhead(q, i)
        /\ OtherAhead(r, i) \subseteq OtherAhead(q, i) \ {e}
    BY <1>2 DEF OtherAhead
  <2>2. PICK T : T = OtherAhead(q, i) \ {e}
    OBVIOUS
  <2>3. IsFiniteSet(T) /\ Cardinality(T) = Cardinality(OtherAhead(q, i)) - 1
    BY <2>1, <2>2, AheadAreFinite, FS_RemoveElement
  <2>4. Cardinality(OtherAhead(r, i)) <= Cardinality(T)
    BY <2>1, <2>2, <2>3, FS_Subset
  <2>5. QED
    BY <1>2, <2>3, <2>4, AheadAreFinite
<1>3. QED
  BY <1>1, <1>2

\* The delay never exceeds the limit, whichever group was served last.
LEMMA DelayBound ==
    ASSUME NEW i \in Invocations, NEW q, IsQueueOf(q, Priority[i]), NEW g
    PROVE  Delay(q, g, i) \in Nat /\ Delay(q, g, i) <= WaitLimit(i)
<1>1. q \in Seq(Invocations) /\ Distinct(q) /\ \A x : InQueue(q, x) => Priority[x] = Priority[i]
  BY DEF IsQueueOf
<1>2. PICK A, B, P, O :
         /\ A = SameAhead(q, i) /\ B = OtherAhead(q, i)
         /\ P = Peers(i) /\ O = OtherGroups(i)
  OBVIOUS
<1>3. /\ IsFiniteSet(A) /\ Cardinality(A) \in Nat
      /\ IsFiniteSet(B) /\ Cardinality(B) \in Nat
      /\ (Cardinality(B) = 0 <=> B = {})
  BY <1>1, <1>2, AheadAreFinite
<1>4. AheadIn(q, i) \subseteq Peers(i) \ {i}
  BY <1>1, AheadMembers DEF Peers
<1>5. IsFiniteSet(P) /\ i \in P /\ O \subseteq P
  <2>1. P \subseteq Invocations /\ i \in P /\ O \subseteq P
    BY <1>2 DEF Peers, OtherGroups
  <2>2. QED
    BY <2>1, ServiceAssumption, FS_Subset
<1>6. /\ A \subseteq P \ {i} /\ A \cap O = {}
      /\ B \subseteq P \ {i} /\ B \subseteq O /\ A \cap B = {}
  BY <1>2, <1>4 DEF SameAhead, OtherAhead, OtherGroups
<1>7. PICK R, m : R = P \ {i} /\ m = Cardinality(P)
  OBVIOUS
<1>8. m \in Nat /\ IsFiniteSet(R) /\ Cardinality(R) = m - 1
  BY <1>5, <1>7, FS_CardinalityType, FS_RemoveElement
<1>9. Cardinality(A) <= m - 1
  BY <1>6, <1>7, <1>8, FS_Subset
<1>10. Cardinality(A) + Cardinality(B) <= m - 1
  <2>1. PICK U : U = A \cup B
    OBVIOUS
  <2>2. PICK E : E = A \cap B
    OBVIOUS
  <2>3. Cardinality(U) = Cardinality(A) + Cardinality(B)
    <3>1. E = {}
      BY <1>6, <2>2
    <3>2. Cardinality(E) = 0
      BY <3>1, FS_EmptySet
    <3>3. Cardinality(U) = Cardinality(A) + Cardinality(B) - Cardinality(E)
      BY <1>3, <2>1, <2>2, FS_Union
    <3>4. QED
      BY <1>3, <3>2, <3>3
  <2>4. U \subseteq R
    BY <1>6, <1>7, <2>1
  <2>5. Cardinality(U) <= Cardinality(R)
    BY <1>8, <2>4, FS_Subset
  <2>6. QED
    BY <1>8, <2>3, <2>5
<1>11. O # {} => Cardinality(A) <= m - 2
  <2>1. SUFFICES ASSUME O # {}
                 PROVE  Cardinality(A) <= m - 2
    OBVIOUS
  <2>2. PICK o : o \in O
    BY <2>1
  <2>3. o \in R
    BY <1>2, <1>5, <1>7, <2>2 DEF OtherGroups
  <2>4. PICK T : T = R \ {o}
    OBVIOUS
  <2>5. IsFiniteSet(T) /\ Cardinality(T) = (m - 1) - 1
    BY <1>8, <2>3, <2>4, FS_RemoveElement
  <2>6. A \subseteq T
    BY <1>6, <1>7, <2>2, <2>4
  <2>7. Cardinality(A) <= Cardinality(T)
    BY <2>5, <2>6, FS_Subset
  <2>8. QED
    BY <1>3, <1>8, <2>5, <2>7
<1>12. WaitLimit(i) = IF m = 1 THEN 0 ELSE 2 * m - 3
  BY <1>2, <1>7 DEF WaitLimit
<1>13. PICK s \in Nat, d \in Nat : s = Cardinality(A) /\ d = Cardinality(B)
  BY <1>3
<1>14. CASE O = {}
  <2>1. Delay(q, g, i) = s
    BY <1>2, <1>13, <1>14 DEF Delay
  <2>2. QED
    BY <1>8, <1>9, <1>12, <1>13, <2>1
<1>15. CASE O # {}
  <2>1. Delay(q, g, i) = 2 * s + (IF d = 0 /\ g = Group[i] THEN 1 ELSE d)
    BY <1>2, <1>13, <1>15 DEF Delay
  <2>2. s <= m - 2 /\ s + d <= m - 1
    BY <1>10, <1>11, <1>13, <1>15
  <2>3. CASE d = 0
    <3>1. Delay(q, g, i) = 2 * s \/ Delay(q, g, i) = 2 * s + 1
      BY <2>1, <2>3
    <3>2. QED
      BY <1>8, <1>12, <2>2, <2>3, <3>1
  <2>4. CASE d # 0
    <3>1. Delay(q, g, i) = 2 * s + d
      BY <2>1, <2>4
    <3>2. QED
      BY <1>8, <1>12, <2>2, <2>4, <3>1
  <2>5. QED
    BY <2>3, <2>4
<1>16. QED
  BY <1>14, <1>15

\* The delay does not grow when others leave the queue or join it behind i.
LEMMA DelayShrinks ==
    ASSUME NEW q \in Seq(Invocations), NEW r \in Seq(Invocations), NEW i \in Invocations,
           AheadIn(r, i) \subseteq AheadIn(q, i), NEW g
    PROVE  Delay(r, g, i) <= Delay(q, g, i)
<1>1. PICK s \in Nat, d \in Nat :
         s = Cardinality(SameAhead(q, i)) /\ d = Cardinality(OtherAhead(q, i))
  BY AheadAreFinite
<1>2. PICK t \in Nat, e \in Nat :
         t = Cardinality(SameAhead(r, i)) /\ e = Cardinality(OtherAhead(r, i))
  BY AheadAreFinite
<1>3. t <= s /\ e <= d
  BY <1>1, <1>2, FewerAhead
<1>4. CASE OtherGroups(i) = {}
  <2>1. Delay(q, g, i) = s /\ Delay(r, g, i) = t
    BY <1>1, <1>2, <1>4 DEF Delay
  <2>2. QED
    BY <1>3, <2>1
<1>5. CASE OtherGroups(i) # {}
  <2>1. /\ Delay(q, g, i) = 2 * s + (IF d = 0 /\ g = Group[i] THEN 1 ELSE d)
        /\ Delay(r, g, i) = 2 * t + (IF e = 0 /\ g = Group[i] THEN 1 ELSE e)
    BY <1>1, <1>2, <1>5 DEF Delay
  <2>2. CASE g = Group[i]
    <3>1. /\ Delay(q, g, i) = 2 * s + (IF d = 0 THEN 1 ELSE d)
          /\ Delay(r, g, i) = 2 * t + (IF e = 0 THEN 1 ELSE e)
      BY <2>1, <2>2
    <3>2. QED
      BY <1>3, <3>1
  <2>3. CASE g # Group[i]
    <3>1. Delay(q, g, i) = 2 * s + d /\ Delay(r, g, i) = 2 * t + e
      BY <2>1, <2>3
    <3>2. QED
      BY <1>3, <3>1
  <2>4. QED
    BY <2>2, <2>3
<1>6. QED
  BY <1>4, <1>5

\* A selection that serves e brings the turn of everybody else in the queue
\* nearer.  SelectsPosition's choice is what the sixth hypothesis says.
LEMMA DelayDrops ==
    ASSUME NEW i \in Invocations, NEW q, IsQueueOf(q, Priority[i]), InQueue(q, i), NEW g,
           NEW k \in DOMAIN q, NEW e, e = q[k], e # i,
           IF \A j \in DOMAIN q : Group[q[j]] = g THEN k = 1
           ELSE Group[e] # g /\ \A j \in DOMAIN q : Group[q[j]] # g => k <= j,
           NEW r \in Seq(Invocations), AheadIn(r, i) \subseteq AheadIn(q, i) \ {e}
    PROVE  Delay(r, Group[e], i) + 1 <= Delay(q, g, i)
<1>1. q \in Seq(Invocations) /\ Distinct(q) /\ \A x : InQueue(q, x) => Priority[x] = Priority[i]
  BY DEF IsQueueOf
<1>2. DOMAIN q = 1 .. Len(q) /\ Len(q) \in Nat /\ \A j \in DOMAIN q : q[j] \in Invocations
  BY <1>1, LenProperties, ElementOfSeq
<1>3. PICK m \in DOMAIN q : q[m] = i
  BY DEF InQueue
<1>4. k # m /\ k \in Nat /\ m \in Nat /\ k >= 1 /\ m >= 1
  BY <1>2, <1>3
<1>5. PICK s \in Nat, d \in Nat :
         s = Cardinality(SameAhead(q, i)) /\ d = Cardinality(OtherAhead(q, i))
  BY <1>1, AheadAreFinite
<1>6. PICK t \in Nat, f \in Nat :
         t = Cardinality(SameAhead(r, i)) /\ f = Cardinality(OtherAhead(r, i))
  BY AheadAreFinite
<1>7. t <= s /\ f <= d
  <2>1. AheadIn(r, i) \subseteq AheadIn(q, i)
    OBVIOUS
  <2>2. QED
    BY <1>1, <1>5, <1>6, <2>1, FewerAhead
<1>8. k < m => IF Group[e] = Group[i] THEN t + 1 <= s ELSE f + 1 <= d
  <2>1. SUFFICES ASSUME k < m
                 PROVE  IF Group[e] = Group[i] THEN t + 1 <= s ELSE f + 1 <= d
    OBVIOUS
  <2>2. e \in AheadIn(q, i)
    BY <1>1, <1>3, <2>1, AheadMembers
  <2>3. QED
    BY <1>1, <1>5, <1>6, <2>2, OneFewerAhead
<1>9. Group[i] # g => k < m
  <2>1. SUFFICES ASSUME Group[i] # g
                 PROVE  k < m
    OBVIOUS
  <2>2. Group[q[m]] # g
    BY <1>3, <2>1
  <2>3. k <= m
    BY <2>2
  <2>4. QED
    BY <1>4, <2>3
<1>10. Group[i] = g /\ d # 0 => k < m
  <2>1. SUFFICES ASSUME Group[i] = g, d # 0
                 PROVE  k < m
    OBVIOUS
  <2>2. PICK x : x \in OtherAhead(q, i)
    BY <1>1, <1>5, <2>1, AheadAreFinite
  <2>3. x \in AheadIn(q, i) /\ Group[x] # g
    BY <2>1, <2>2 DEF OtherAhead
  <2>4. PICK j, o \in DOMAIN q : j < o /\ q[j] = x /\ q[o] = i
    BY <1>1, <2>3, AheadMembers
  <2>5. o = m
    BY <1>1, <1>3, <2>4 DEF Distinct
  <2>6. k <= j
    BY <2>3, <2>4
  <2>7. QED
    BY <1>2, <2>4, <2>5, <2>6
<1>11. e \in Peers(i) /\ (Group[e] # Group[i] => OtherGroups(i) # {})
  <2>1. e \in Invocations /\ Priority[e] = Priority[i]
    BY <1>1, <1>2 DEF InQueue
  <2>2. QED
    BY <2>1 DEF Peers, OtherGroups
<1>12. CASE OtherGroups(i) = {}
  <2>1. Group[e] = Group[i]
    BY <1>11, <1>12
  <2>2. k < m
    <3>1. CASE Group[i] = g
      <4>1. k = 1
        BY <2>1, <3>1
      <4>2. QED
        BY <1>4, <4>1
    <3>2. QED
      BY <1>9, <3>1
  <2>3. Delay(q, g, i) = s /\ Delay(r, Group[e], i) = t
    BY <1>5, <1>6, <1>12 DEF Delay
  <2>4. t + 1 <= s
    BY <1>8, <2>1, <2>2
  <2>5. QED
    BY <2>3, <2>4
<1>13. CASE OtherGroups(i) # {}
  <2>1. /\ Delay(q, g, i) = 2 * s + (IF d = 0 /\ g = Group[i] THEN 1 ELSE d)
        /\ Delay(r, Group[e], i) = 2 * t + (IF f = 0 /\ Group[e] = Group[i] THEN 1 ELSE f)
    BY <1>5, <1>6, <1>13 DEF Delay
  <2>2. PICK D, E : D = Delay(q, g, i) /\ E = Delay(r, Group[e], i)
    OBVIOUS
  <2>3. D = 2 * s + d \/ (D = 2 * s + 1 /\ d = 0)
    BY <2>1, <2>2
  <2>4. CASE k < m
    <3>1. CASE Group[e] = Group[i]
      <4>1. t + 1 <= s
        BY <1>8, <2>4, <3>1
      <4>2. E = 2 * t + f \/ (E = 2 * t + 1 /\ f = 0)
        BY <2>1, <2>2
      <4>3. E + 1 <= D
        BY <1>7, <2>3, <4>1, <4>2
      <4>4. QED
        BY <2>2, <4>3
    <3>2. CASE Group[e] # Group[i]
      <4>1. f + 1 <= d
        BY <1>8, <2>4, <3>2
      <4>2. E = 2 * t + f
        BY <2>1, <2>2, <3>2
      <4>3. E + 1 <= D
        BY <1>7, <2>3, <4>1, <4>2
      <4>4. QED
        BY <2>2, <4>3
    <3>3. QED
      BY <3>1, <3>2
  <2>5. CASE ~(k < m)
    <3>1. Group[i] = g /\ d = 0
      BY <1>9, <1>10, <2>5
    <3>2. k # 1
      BY <1>4, <2>5
    <3>3. Group[e] # Group[i]
      BY <3>1, <3>2
    <3>4. D = 2 * s + 1
      BY <2>1, <2>2, <3>1
    <3>5. E = 2 * t + f
      BY <2>1, <2>2, <3>3
    <3>6. E + 1 <= D
      BY <1>7, <3>1, <3>4, <3>5
    <3>7. QED
      BY <2>2, <3>6
  <2>6. QED
    BY <2>4, <2>5
<1>14. QED
  BY <1>12, <1>13

LEMMA QueuesOf ==
    ASSUME TypeOK, QueuesMatch, NEW p \in Priorities
    PROVE  IsQueueOf(ready[p], p) /\ lastGroup[p] \in Nat
  BY DEF TypeOK, QueuesMatch, IsQueueOf

\* Whoever has just joined a queue is within its limit.
LEMMA BoundOf ==
    ASSUME TypeOK, QueuesMatch, NEW i \in Invocations
    PROVE  DelayOf(i) \in Nat /\ DelayOf(i) <= WaitLimit(i)
<1>1. Priority[i] \in Priorities
  BY InvocationConstants
<1>2. IsQueueOf(ready[Priority[i]], Priority[i])
  BY <1>1, QueuesOf
<1>3. QED
  BY <1>2, DelayBound DEF DelayOf

\* A selection lowers the delay of those it passes over in their queue by at
\* least the one they wait for it, and leaves the other queues alone.
LEMMA SelectionDelay ==
    ASSUME TypeOK, QueuesMatch, NEW w \in Workers, NEW n \in 1..7, NEW p \in Priorities,
           NEW k \in DOMAIN ready[p], NEW v, Selects(w, n, p, k, v),
           NEW i \in Invocations, i # ready[p][k], inv[i].queued
    PROVE  /\ Priority[i] = p => DelayOf(i)' + 1 <= DelayOf(i)
           /\ Priority[i] # p => DelayOf(i)' = DelayOf(i)
<1>1. PICK q, e, g, r :
         q = ready[p] /\ e = ready[p][k] /\ g = lastGroup[p] /\ r = ready'[p]
  OBVIOUS
<1>2. IsQueueOf(q, p)
  BY <1>1, QueuesOf
<1>3. q \in Seq(Invocations) /\ Distinct(q) /\ k \in DOMAIN q /\ e = q[k] /\ k \in 1 .. Len(q)
  BY <1>1, <1>2, LenProperties DEF IsQueueOf
<1>4. e \in Invocations
  BY <1>3, ElementOfSeq
<1>5. ready' = [ready EXCEPT ![p] = r] /\ lastGroup' = [lastGroup EXCEPT ![p] = Group[e]]
  BY <1>1 DEF Selects, TypeOK
<1>6. PICK s : s = RemoveAt(q, k)
  OBVIOUS
<1>7. r = IF v.queued THEN Append(s, e) ELSE s
  BY <1>1, <1>6 DEF Selects, TypeOK
<1>8. /\ s \in Seq(Invocations)
      /\ AheadIn(s, i) \subseteq AheadIn(q, i) \ {e}
  BY <1>3, <1>6, RemoveAtQueue, RemoveAtAhead
<1>9. /\ r \in Seq(Invocations)
      /\ AheadIn(r, i) \subseteq AheadIn(q, i) \ {e}
  <2>1. CASE v.queued
    <3>1. r = Append(s, e)
      BY <1>7, <2>1
    <3>2. r \in Seq(Invocations)
      BY <1>4, <1>8, <3>1, AppendProperties
    <3>3. AheadIn(r, i) \subseteq AheadIn(s, i)
      BY <1>1, <1>4, <1>8, <3>1, AppendAhead
    <3>4. QED
      BY <1>8, <3>2, <3>3
  <2>2. CASE ~v.queued
    BY <1>7, <1>8, <2>2
  <2>3. QED
    BY <2>1, <2>2
<1>10. IF \A j \in DOMAIN q : Group[q[j]] = g THEN k = 1
       ELSE Group[e] # g /\ \A j \in DOMAIN q : Group[q[j]] # g => k <= j
  BY <1>1, <1>3 DEF Selects, SelectsPosition
<1>11. Priority[i] \in Priorities /\ InQueue(ready[Priority[i]], i)
  BY InvocationConstants DEF QueuesMatch
<1>12. ASSUME Priority[i] = p
       PROVE  DelayOf(i)' + 1 <= DelayOf(i)
  <2>1. InQueue(q, i) /\ IsQueueOf(q, Priority[i])
    BY <1>1, <1>2, <1>11, <1>12
  <2>2. Delay(r, Group[e], i) + 1 <= Delay(q, g, i)
    BY <1>1, <1>3, <1>9, <1>10, <2>1, DelayDrops
  <2>3. DelayOf(i) = Delay(q, g, i)
    BY <1>1, <1>12 DEF DelayOf
  <2>4. ready'[Priority[i]] = r /\ lastGroup'[Priority[i]] = Group[e]
    BY <1>1, <1>5, <1>12 DEF TypeOK
  <2>5. DelayOf(i)' = Delay(r, Group[e], i)
    BY <2>4 DEF DelayOf
  <2>6. QED
    BY <2>2, <2>3, <2>5
<1>13. ASSUME Priority[i] # p
       PROVE  DelayOf(i)' = DelayOf(i)
  <2>1. /\ ready'[Priority[i]] = ready[Priority[i]]
        /\ lastGroup'[Priority[i]] = lastGroup[Priority[i]]
    BY <1>5, <1>11, <1>13 DEF TypeOK
  <2>2. QED
    BY <2>1 DEF DelayOf
<1>14. QED
  BY <1>12, <1>13

LEMMA LimitType ==
    ASSUME NEW i \in Invocations
    PROVE  WaitLimit(i) \in Int
<1>1. Peers(i) \subseteq Invocations
  BY DEF Peers
<1>2. IsFiniteSet(Peers(i))
  BY <1>1, ServiceAssumption, FS_Subset
<1>3. Cardinality(Peers(i)) \in Nat
  BY <1>2, FS_CardinalityType
<1>4. QED
  BY <1>3 DEF WaitLimit

LEMMA SelectionWait ==
    ASSUME TypeOK, QueuesMatch, TypeOK', QueuesMatch', WaitInv,
           NEW w \in Workers, NEW n \in 1..7, NEW p \in Priorities, NEW k \in DOMAIN ready[p],
           NEW v, Selects(w, n, p, k, v), Served(p, ready[p][k])
    PROVE  WaitInv'
<1>1. PICK e : e = ready[p][k]
  OBVIOUS
<1>2. SUFFICES ASSUME NEW i \in Invocations
               PROVE  /\ waited'[i] \in Nat
                      /\ IF inv'[i].queued THEN waited'[i] + DelayOf(i)' <= WaitLimit(i)
                         ELSE waited'[i] = 0
  BY DEF WaitInv
<1>3. waited'[i] = IF i = e \/ ~inv'[i].queued THEN 0
                   ELSE IF Priority[i] = p THEN waited[i] + 1 ELSE waited[i]
  BY <1>1 DEF Served
<1>4. DelayOf(i)' \in Nat /\ DelayOf(i)' <= WaitLimit(i)
  <2>1. Priority[i] \in Priorities
    BY InvocationConstants
  <2>2. IsQueueOf(ready'[Priority[i]], Priority[i])
    BY <2>1 DEF TypeOK, QueuesMatch, IsQueueOf
  <2>3. QED
    BY <2>2, DelayBound DEF DelayOf
<1>5. CASE i = e \/ ~inv'[i].queued
  BY <1>3, <1>4, <1>5
<1>6. CASE i # e /\ inv'[i].queued
  <2>1. inv'[i] = inv[i]
    BY <1>1, <1>6 DEF Selects, TypeOK
  <2>2. waited[i] \in Nat /\ waited[i] + DelayOf(i) <= WaitLimit(i)
    BY <1>6, <2>1 DEF WaitInv
  <2>3. DelayOf(i) \in Nat /\ WaitLimit(i) \in Int
    BY BoundOf, LimitType
  <2>4. CASE Priority[i] = p
    <3>1. DelayOf(i)' + 1 <= DelayOf(i)
      BY <1>1, <1>6, <2>1, <2>4, SelectionDelay
    <3>2. waited'[i] = waited[i] + 1
      BY <1>3, <1>6, <2>4
    <3>3. QED
      BY <1>4, <1>6, <2>2, <2>3, <3>1, <3>2
  <2>5. CASE Priority[i] # p
    <3>1. DelayOf(i)' = DelayOf(i)
      BY <1>1, <1>6, <2>1, <2>5, SelectionDelay
    <3>2. waited'[i] = waited[i]
      BY <1>3, <1>6, <2>5
    <3>3. QED
      BY <1>6, <2>2, <3>1, <3>2
  <2>6. QED
    BY <2>4, <2>5
<1>7. QED
  BY <1>5, <1>6

\* Storing an invocation brings nobody who was queued, and still is, further
\* from the head of its queue.
LEMMA StoreAhead ==
    ASSUME TypeOK, QueuesMatch, NEW e \in Invocations, NEW v, Store(e, v),
           NEW i \in Invocations, inv[i].queued, inv'[i].queued
    PROVE  AheadIn(ready'[Priority[i]], i) \subseteq AheadIn(ready[Priority[i]], i)
<1>1. Priority[i] \in Priorities /\ Priority[e] \in Priorities
  BY InvocationConstants
<1>2. PICK q, r : q = ready[Priority[e]] /\ r = ready'[Priority[e]]
  OBVIOUS
<1>3. q \in Seq(Invocations) /\ Distinct(q)
  BY <1>1, <1>2, QueuesOf DEF IsQueueOf
<1>4. r = IF v.queued /\ ~inv[e].queued THEN Append(q, e)
          ELSE IF ~v.queued THEN RemoveFirst(q, e)
          ELSE q
  BY <1>1, <1>2 DEF Store, TypeOK
<1>5. inv'[e] = v
  BY DEF Store, TypeOK
<1>6. CASE Priority[i] # Priority[e]
  BY <1>1, <1>6 DEF Store, TypeOK
<1>7. CASE Priority[i] = Priority[e]
  <2>1. CASE v.queued /\ ~inv[e].queued
    <3>1. i # e
      BY <2>1
    <3>2. r = Append(q, e)
      BY <1>4, <2>1
    <3>3. AheadIn(r, i) \subseteq AheadIn(q, i)
      BY <1>3, <3>1, <3>2, AppendAhead
    <3>4. QED
      BY <1>2, <1>7, <3>3
  <2>2. CASE ~v.queued
    <3>1. r = RemoveFirst(q, e)
      BY <1>4, <2>2
    <3>2. AheadIn(r, i) \subseteq AheadIn(q, i)
      BY <1>3, <3>1, RemoveFirstAhead
    <3>3. QED
      BY <1>2, <1>7, <3>2
  <2>3. CASE v.queued /\ inv[e].queued
    BY <1>2, <1>4, <1>7, <2>3
  <2>4. QED
    BY <2>1, <2>2, <2>3
<1>8. QED
  BY <1>6, <1>7

LEMMA OtherStepAhead ==
    ASSUME RunnerInv, QueueInv, OtherStep, NEW i \in Invocations, inv[i].queued, inv'[i].queued
    PROVE  AheadIn(ready'[Priority[i]], i) \subseteq AheadIn(ready[Priority[i]], i)
<1>1. TypeOK /\ QueuesMatch
  BY DEF RunnerInv, QueueInv
<1>2. ASSUME NEW e \in Invocations, Submit(e)
      PROVE  AheadIn(ready'[Priority[i]], i) \subseteq AheadIn(ready[Priority[i]], i)
  <2>1. CASE Stopping
    BY <1>2, <2>1 DEF Submit
  <2>2. CASE ~Stopping
    <3>1. Store(e, QueueLocked(e, Fresh))
      BY <1>2, <2>2 DEF Submit
    <3>2. QED
      BY <1>1, <3>1, StoreAhead
  <2>3. QED
    BY <2>1, <2>2
<1>3. ASSUME NEW e \in Invocations, Poll(e)
      PROVE  AheadIn(ready'[Priority[i]], i) \subseteq AheadIn(ready[Priority[i]], i)
  <2>1. PICK v : v = IF expired[e] /\ ~inv[e].completed THEN CancelLocked(e, inv[e]) ELSE inv[e]
    OBVIOUS
  <2>2. Store(e, v)
    BY <1>3, <2>1 DEF Poll
  <2>3. QED
    BY <1>1, <2>2, StoreAhead
<1>4. ASSUME NEW w \in Workers, CompleteChunk(w)
      PROVE  AheadIn(ready'[Priority[i]], i) \subseteq AheadIn(ready[Priority[i]], i)
  <2>1. PICK e : e = chunk[w].inv
    OBVIOUS
  <2>2. e \in Invocations
    BY <1>4, <2>1 DEF CompleteChunk, RunnerInv, ChunksBelowNext, InFlight
  <2>3. Store(e, AfterChunk(w))
    BY <1>4, <2>1 DEF CompleteChunk
  <2>4. QED
    BY <1>1, <2>2, <2>3, StoreAhead
<1>5. ASSUME UNCHANGED ready
      PROVE  AheadIn(ready'[Priority[i]], i) \subseteq AheadIn(ready[Priority[i]], i)
  BY <1>5
<1>6. ASSUME NEW e \in Invocations, Enter(e) \/ Notify(e) \/ Expire(e)
      PROVE  UNCHANGED ready
  BY <1>6 DEF Enter, Notify, Expire, poolVars
<1>7. ASSUME NEW w \in Workers,
             \/ CheckWork(w) \/ TakeNothing(w) \/ CallFunction(w) \/ EndChunk(w)
             \/ WakeSpuriously(w)
      PROVE  UNCHANGED ready
  BY <1>7 DEF CheckWork, TakeNothing, CallFunction, EndChunk, WakeSpuriously, poolVars
<1>8. CASE BeginStop \/ StopStep
  BY <1>5, <1>8 DEF BeginStop, StopStep, NotifyStop, Join
<1>9. QED
  BY <1>2, <1>3, <1>4, <1>5, <1>6, <1>7, <1>8 DEF OtherStep, CallerStep

LEMMA OtherWait ==
    ASSUME RunnerInv, QueueInv, TypeOK', QueuesMatch', WaitInv, OtherStep, NothingServed
    PROVE  WaitInv'
<1>1. SUFFICES ASSUME NEW i \in Invocations
               PROVE  /\ waited'[i] \in Nat
                      /\ IF inv'[i].queued THEN waited'[i] + DelayOf(i)' <= WaitLimit(i)
                         ELSE waited'[i] = 0
  BY DEF WaitInv
<1>2. waited'[i] = IF inv'[i].queued THEN waited[i] ELSE 0
  BY DEF NothingServed
<1>3. Priority[i] \in Priorities
  BY InvocationConstants
<1>4. PICK q, r, g :
         q = ready[Priority[i]] /\ r = ready'[Priority[i]] /\ g = lastGroup[Priority[i]]
  OBVIOUS
<1>5. IsQueueOf(q, Priority[i]) /\ IsQueueOf(r, Priority[i])
  BY <1>3, <1>4 DEF RunnerInv, QueueInv, TypeOK, QueuesMatch, IsQueueOf
<1>6. DelayOf(i) = Delay(q, g, i)
  BY <1>4 DEF DelayOf
<1>7. DelayOf(i)' = Delay(r, g, i)
  BY <1>4, OtherStepEffect DEF DelayOf
<1>8. CASE ~inv'[i].queued
  BY <1>2, <1>8
<1>9. CASE inv'[i].queued /\ ~inv[i].queued
  <2>1. waited[i] = 0
    BY <1>9 DEF WaitInv
  <2>2. waited'[i] = 0
    BY <1>2, <1>9, <2>1
  <2>3. Delay(r, g, i) \in Nat /\ Delay(r, g, i) <= WaitLimit(i)
    BY <1>5, DelayBound
  <2>4. QED
    BY <1>7, <1>9, <2>2, <2>3
<1>10. CASE inv'[i].queued /\ inv[i].queued
  <2>1. AheadIn(r, i) \subseteq AheadIn(q, i)
    BY <1>4, <1>10, OtherStepAhead
  <2>2. Delay(r, g, i) <= Delay(q, g, i)
    BY <1>5, <2>1, DelayShrinks DEF IsQueueOf
  <2>3. Delay(r, g, i) \in Nat /\ Delay(q, g, i) \in Nat
    BY <1>5, DelayBound
  <2>4. waited[i] \in Nat /\ waited[i] + Delay(q, g, i) <= WaitLimit(i)
    BY <1>6, <1>10 DEF WaitInv
  <2>5. waited'[i] = waited[i]
    BY <1>2, <1>10
  <2>6. WaitLimit(i) \in Int
    BY LimitType
  <2>7. waited'[i] + DelayOf(i)' <= WaitLimit(i)
    BY <1>7, <2>2, <2>3, <2>4, <2>5, <2>6
  <2>8. QED
    BY <1>10, <2>4, <2>5, <2>7
<1>11. QED
  BY <1>8, <1>9, <1>10

-----------------------------------------------------------------------------
\* TakeWorkLocked passes over nobody for ever to alternate between groups: an
\* invocation with m of its priority waits for at most 2m - 3 selections in its
\* queue.
THEOREM WaitIsBounded == ServiceSpec => []QueueWaitBounded
<1>1. ServiceInit => WaitInv
  BY DEF ServiceInit, Init, Fresh, WaitInv
<1>2. /\ RunnerInv /\ QueueInv
      /\ RunnerInv' /\ QueueInv'
      /\ WaitInv
      /\ [ServiceNext]_serviceVars
      => WaitInv'
  <2>1. SUFFICES ASSUME RunnerInv, QueueInv, RunnerInv', QueueInv', WaitInv,
                        [ServiceNext]_serviceVars
                 PROVE  WaitInv'
    OBVIOUS
  <2>2. TypeOK /\ QueuesMatch /\ TypeOK' /\ QueuesMatch'
    BY <2>1 DEF RunnerInv, QueueInv
  <2>3. ASSUME NEW w \in Workers, NEW n \in 1..7, NEW p \in Priorities, NEW k,
               Dispatch(w, n, p, k) \/ Discard(w, n, p, k), Served(p, ready[p][k])
        PROVE  WaitInv'
    <3>1. k \in DOMAIN ready[p]
      BY <2>1, <2>3, SelectionStep
    <3>2. PICK v \in InvocationType : Selects(w, n, p, k, v)
      BY <2>1, <2>3, SelectionStep
    <3>3. QED
      BY <2>1, <2>2, <2>3, <3>1, <3>2, SelectionWait
  <2>4. CASE OtherStep /\ NothingServed
    BY <2>1, <2>2, <2>4, OtherWait
  <2>5. CASE UNCHANGED serviceVars
    BY <2>1, <2>5 DEF serviceVars, vars, WaitInv, DelayOf
  <2>6. QED
    BY <2>1, <2>3, <2>4, <2>5 DEF ServiceNext
<1>3. RunnerInv /\ QueueInv /\ WaitInv => QueueWaitBounded
  <2>1. SUFFICES ASSUME RunnerInv, QueueInv, WaitInv, NEW i \in Invocations
                 PROVE  waited[i] <= WaitLimit(i)
    BY DEF QueueWaitBounded, WaitLimit, Peers
  <2>2. DelayOf(i) \in Nat /\ DelayOf(i) <= WaitLimit(i)
    BY <2>1, BoundOf DEF RunnerInv, QueueInv
  <2>3. WaitLimit(i) \in Int
    BY LimitType
  <2>4. waited[i] \in Nat /\ (waited[i] = 0 \/ waited[i] + DelayOf(i) <= WaitLimit(i))
    BY <2>1 DEF WaitInv
  <2>5. QED
    BY <2>2, <2>3, <2>4
<1>4. QED
  BY <1>1, <1>2, <1>3, SchedulerInvariant, PTL DEF ServiceSpec

=============================================================================
