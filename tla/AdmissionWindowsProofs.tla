------------------------ MODULE AdmissionWindowsProofs ------------------------
(***************************************************************************)
(* Proofs about the Windows admission scheduler, for any jobs, requests    *)
(* and numbers of workers: the rotations match the queues and are fair,    *)
(* the threads start all or none, each accepted conversion has one answer, *)
(* and the scheduler implements Admission.                                 *)
(***************************************************************************)
EXTENDS AdmissionWindows, QueueLemmas, FiniteSetTheorems

\* The rotation and the deques of one priority, in the words of QueueLemmas.
RotationOf(p) ==
    \A g \in Groups :
       /\ jobs[p][g] # <<>> => InQueue(groups[p], g)
       /\ Distinct(jobs[p][g])
       /\ \A j : InQueue(jobs[p][g], j) => Priority[j] = p /\ Group[j] = g
       /\ <<p, g>> \in hollow => jobs[p][g] = <<>> /\ InQueue(groups[p], g)

\* No Enqueue into this queue has failed half way.
SoundRotation(p) ==
    /\ Distinct(groups[p])
    /\ \A g \in Groups :
          /\ InQueue(groups[p], g) => jobs[p][g] # <<>>
          /\ <<p, g>> \notin hollow

RotationInv ==
    \A p \in Priorities : RotationOf(p) /\ (p \notin torn => SoundRotation(p))

\* A worker has dequeued from a group without jobs only where one was left.
UndefinedInv == mutex = "undefined" => torn # {}

\* What Run and ExpireQueued rely on: who keeps the mutex, which threads exist,
\* and that each of the two kinds of threads does only its own work.
Starting(j) == caller[j] \in {"starting", "joining"}

ThreadInv ==
    /\ mutex = "submitter" <=> \E j \in Jobs : Starting(j)
    /\ \A j, k \in Jobs : Starting(j) /\ Starting(k) => j = k
    /\ mutex = "timer" <=> pc[Timer] = "erasing"
    /\ gate = "abandoned" <=> \E j \in Jobs : caller[j] = "joining"
    /\ gate = "open" <=> started
    /\ started => mutex # "submitter" /\ \A t \in Threads : pc[t] \notin {"none", "left"}
    /\ ~started => \A t \in Threads : pc[t] \in {"none", "gated", "left"}
    /\ ~started /\ mutex # "submitter" => \A t \in Threads : pc[t] = "none"
    /\ pc[Timer] \notin {"checking", "waiting", "operating", "failing"}
    /\ \A w \in Workers : pc[w] \notin {"sleeping", "erasing", "calling"}
    /\ \A w \in Workers : job[w] # None <=> pc[w] \in {"operating", "failing"}

-----------------------------------------------------------------------------
(* Types.                                                                   *)

LEMMA ThreadSets ==
    /\ Timer \in Threads /\ Timer \notin Workers /\ Timer \in Nat
    /\ Workers \subseteq Threads /\ Threads = Workers \cup {Timer}
    /\ MaximumActive \in Nat \ {0}
  BY AdmissionAssumption DEF Timer, Threads, Workers

LEMMA JobConstants ==
    ASSUME NEW j \in Jobs
    PROVE  Priority[j] \in Priorities /\ Group[j] \in Groups /\ j # None
  BY AdmissionAssumption DEF Priorities

\* What DequeueLocked takes: the oldest job of the group at the front.
Takes(w, p, g, j) ==
    /\ groups[p] # <<>> /\ g = Head(groups[p])
    /\ jobs[p][g] # <<>> /\ j = Head(jobs[p][g])
    /\ Priority[j] = p /\ Group[j] = g
    /\ index' \in 0..6
    /\ groups' = [groups EXCEPT ![p] = Turn(p, g)]
    /\ jobs' = [jobs EXCEPT ![p][g] = Tail(jobs[p][g])]
    /\ job' = [job EXCEPT ![w] = j]
    /\ bypassed' = [bypassed EXCEPT ![p] = [h \in Groups |->
           IF h = g \/ jobs[p][h] = <<>> THEN 0 ELSE bypassed[p][h] + 1]]
    /\ UNCHANGED <<hollow, torn>>

\* The entry of the cycle is a priority.
LEMMA EntryTyped ==
    ASSUME TypeOK, NEW n \in 1..7
    PROVE  Entry(n) \in Priorities /\ NextIndex(n) \in 0..6
<1>1. PICK k : k = ((index + n - 1) % 7) + 1
  OBVIOUS
<1>2. k \in 1..7 /\ NextIndex(n) \in 0..6
  BY <1>1 DEF TypeOK, NextIndex
<1>3. PriorityCycle[k] \in Priorities
  BY <1>2 DEF PriorityCycle, Priorities
<1>4. QED
  BY <1>1, <1>2, <1>3 DEF Entry

LEMMA Dequeued ==
    ASSUME TypeOK, RotationInv, NEW w \in Workers, NEW n \in 1..7, Dequeue(w, n)
    PROVE  \E p \in Priorities, g \in Groups, j \in Jobs : Takes(w, p, g, j)
<1>1. PICK p \in Priorities : p = Entry(n)
  BY EntryTyped
<1>2. index' \in 0..6
  BY EntryTyped DEF Dequeue
<1>3. PICK g : g = Head(groups[p])
  OBVIOUS
<1>4. PICK j : j = Head(jobs[p][g])
  OBVIOUS
<1>5. /\ groups[p] # <<>> /\ jobs[p][g] # <<>>
      /\ groups' = [groups EXCEPT ![p] = Turn(p, g)]
      /\ jobs' = [jobs EXCEPT ![p][g] = Tail(@)]
      /\ job' = [job EXCEPT ![w] = j]
      /\ bypassed' = [bypassed EXCEPT ![p] = [h \in Groups |->
             IF h = g \/ jobs[p][h] = <<>> THEN 0 ELSE @[h] + 1]]
      /\ UNCHANGED <<hollow, torn>>
  BY <1>1, <1>3, <1>4 DEF Dequeue, Selects
<1>6. groups[p] \in Seq(Groups)
  BY DEF TypeOK
<1>7. g \in Groups /\ InQueue(groups[p], g)
  BY <1>3, <1>5, <1>6, TailQueue
<1>8. jobs[p][g] \in Seq(Jobs)
  BY <1>7 DEF TypeOK
<1>9. j \in Jobs /\ InQueue(jobs[p][g], j)
  BY <1>4, <1>5, <1>8, TailQueue
<1>10. Priority[j] = p /\ Group[j] = g
  <2>1. RotationOf(p)
    BY DEF RotationInv
  <2>2. QED
    BY <1>7, <1>9, <2>1 DEF RotationOf
<1>11. jobs' = [jobs EXCEPT ![p][g] = Tail(jobs[p][g])]
  BY <1>5, <1>7 DEF TypeOK
<1>12. bypassed' = [bypassed EXCEPT ![p] = [h \in Groups |->
             IF h = g \/ jobs[p][h] = <<>> THEN 0 ELSE bypassed[p][h] + 1]]
  BY <1>5 DEF TypeOK
<1>13. /\ groups[p] # <<>> /\ g = Head(groups[p])
       /\ jobs[p][g] # <<>> /\ j = Head(jobs[p][g])
       /\ Priority[j] = p /\ Group[j] = g
       /\ index' \in 0..6
       /\ groups' = [groups EXCEPT ![p] = Turn(p, g)]
       /\ job' = [job EXCEPT ![w] = j]
       /\ UNCHANGED <<hollow, torn>>
  BY <1>2, <1>3, <1>4, <1>5, <1>10
<1>14. Takes(w, p, g, j)
  BY <1>11, <1>12, <1>13, Zenon DEF Takes
<1>15. QED
  BY <1>7, <1>9, <1>14

\* Which entries are left, and where, when those of some groups go.
LEMMA PurgedQueue ==
    ASSUME NEW S, NEW q \in Seq(S), NEW G
    PROVE  /\ Purged(q, G) \in Seq(S)
           /\ \A x : InQueue(Purged(q, G), x) <=> InQueue(q, x) /\ x \notin G
           /\ Distinct(q) => Distinct(Purged(q, G))
           /\ \A k \in DOMAIN Purged(q, G) :
                 \E m \in DOMAIN q : m >= k /\ q[m] = Purged(q, G)[k]
<1> DEFINE K == {k \in DOMAIN q : q[k] \notin G}
           Picked(f) == /\ f \in Bijection(1 .. Cardinality(K), K)
                        /\ \A i, k \in DOMAIN f : i < k => f[i] < f[k]
           f == CHOOSE h \in Bijection(1 .. Cardinality(K), K) :
                   \A i, k \in DOMAIN h : i < k => h[i] < h[k]
           r == [i \in DOMAIN f |-> q[f[i]]]
<1>1. Purged(q, G) = r
  BY DEF Purged
<1>2. /\ Len(q) \in Nat /\ DOMAIN q = 1 .. Len(q) /\ \A k \in DOMAIN q : q[k] \in S
      /\ K \in SUBSET (1 .. Len(q))
  BY LenProperties, ElementOfSeq
<1>3. IsFiniteSet(K) /\ K \in SUBSET (Nat \ {0}) /\ Cardinality(K) \in Nat
  <2>1. IsFiniteSet(1 .. Len(q))
    BY <1>2, FS_Interval
  <2>2. IsFiniteSet(K)
    BY <1>2, <2>1, FS_Subset
  <2>3. QED
    BY <1>2, <2>2, FS_CardinalityType
<1>4. \A k : k \in K <=> k \in DOMAIN q /\ q[k] \notin G
  OBVIOUS
<1> HIDE DEF K
<1>5. Lists(f, K)
  <2>1. PICK h : Lists(h, K)
    BY <1>2, ListExists
  <2>2. QED
    BY <2>1 DEF Lists
<1> HIDE DEF f
<1>6. /\ DOMAIN f = 1 .. Cardinality(K) /\ \A i \in DOMAIN f : f[i] \in K
      /\ \A i, k \in DOMAIN f : f[i] = f[k] => i = k
      /\ \A k \in K : \E i \in DOMAIN f : f[i] = k
  BY <1>5 DEF Lists, Bijection, Injection, Surjection, IsInjective
<1>7. DOMAIN r = DOMAIN f /\ \A i \in DOMAIN f : r[i] = q[f[i]]
  OBVIOUS
<1>8. r \in Seq(S)
  <2>1. \A i \in 1 .. Cardinality(K) : q[f[i]] \in S
    BY <1>2, <1>4, <1>6
  <2>2. r = [i \in 1 .. Cardinality(K) |-> q[f[i]]]
    BY <1>6
  <2>3. r \in [1 .. Cardinality(K) -> S]
    BY <2>1, <2>2
  <2>4. QED
    BY <1>3, <2>3, SeqDef
<1> HIDE DEF r
<1>9. ASSUME NEW x
      PROVE  InQueue(r, x) <=> InQueue(q, x) /\ x \notin G
  <2>1. ASSUME NEW i \in DOMAIN r, r[i] = x
        PROVE  InQueue(q, x) /\ x \notin G
    BY <1>4, <1>6, <1>7, <2>1 DEF InQueue
  <2>2. ASSUME NEW k \in DOMAIN q, q[k] = x, x \notin G
        PROVE  InQueue(r, x)
    <3>1. PICK i \in DOMAIN f : f[i] = k
      BY <1>4, <1>6, <2>2
    <3>2. QED
      BY <1>7, <2>2, <3>1 DEF InQueue
  <2>3. QED
    BY <2>1, <2>2 DEF InQueue
<1>10. ASSUME Distinct(q), NEW i \in DOMAIN r, NEW k \in DOMAIN r, r[i] = r[k]
       PROVE  i = k
  BY <1>4, <1>6, <1>7, <1>10 DEF Distinct
<1>11. ASSUME NEW k \in DOMAIN r
       PROVE  \E m \in DOMAIN q : m >= k /\ q[m] = r[k]
  <2>1. f[k] >= k
    BY <1>3, <1>5, <1>7, <1>11, ListAhead
  <2>2. f[k] \in DOMAIN q /\ q[f[k]] = r[k]
    BY <1>4, <1>6, <1>7, <1>11
  <2>3. QED
    BY <2>1, <2>2
<1>12. QED
  BY <1>1, <1>8, <1>9, <1>10, <1>11 DEF Distinct

\* The rotation after a turn still lists groups.
LEMMA TurnTyped ==
    ASSUME TypeOK, NEW p \in Priorities, groups[p] # <<>>, NEW g \in Groups
    PROVE  Turn(p, g) \in Seq(Groups)
<1>1. Tail(groups[p]) \in Seq(Groups)
  BY TailQueue DEF TypeOK
<1>2. Append(Tail(groups[p]), g) \in Seq(Groups)
  BY <1>1, AppendQueue
<1>3. QED
  BY <1>1, <1>2 DEF Turn

LEMMA AcceptTyped ==
    ASSUME TypeOK, NEW j \in Jobs, Accept(j)
    PROVE  /\ groups' \in [Priorities -> Seq(Groups)]
           /\ jobs' \in [Priorities -> [Groups -> Seq(Jobs)]]
           /\ bypassed' \in [Priorities -> [Groups -> Nat]]
           /\ index' = index /\ mutex' = "free"
           /\ caller' = [caller EXCEPT ![j] = "accepted"]
           /\ hollow' \subseteq hollow /\ torn' = torn
<1>1. Priority[j] \in Priorities /\ Group[j] \in Groups
  BY JobConstants
<1>2. Append(groups[Priority[j]], Group[j]) \in Seq(Groups)
  BY <1>1, AppendQueue DEF TypeOK
<1>3. Append(jobs[Priority[j]][Group[j]], j) \in Seq(Jobs)
  BY <1>1, AppendQueue DEF TypeOK
<1>4. groups' \in [Priorities -> Seq(Groups)]
  BY <1>1, <1>2 DEF Accept, TypeOK
<1>5. jobs' \in [Priorities -> [Groups -> Seq(Jobs)]]
  BY <1>1, <1>3 DEF Accept, TypeOK
<1>6. bypassed' \in [Priorities -> [Groups -> Nat]]
  BY <1>1 DEF Accept, TypeOK
<1>7. QED
  BY <1>4, <1>5, <1>6 DEF Accept

LEMMA RefuseTyped ==
    ASSUME TypeOK, NEW j \in Jobs, Refuse(j) \/ RefuseHalfWay(j)
    PROVE  /\ groups' \in [Priorities -> Seq(Groups)]
           /\ hollow' \subseteq Priorities \X Groups /\ torn' \subseteq Priorities
           /\ torn \subseteq torn'
           /\ UNCHANGED <<jobs, index, bypassed>>
           /\ caller' = [caller EXCEPT ![j] = "refused"]
           /\ mutex' = "free"
<1>1. CASE Refuse(j)
  BY <1>1 DEF Refuse, queues, TypeOK
<1>2. CASE RefuseHalfWay(j)
  <2>1. Priority[j] \in Priorities /\ Group[j] \in Groups
    BY JobConstants
  <2>2. Append(groups[Priority[j]], Group[j]) \in Seq(Groups)
    BY <2>1, AppendQueue DEF TypeOK
  <2>3. groups' \in [Priorities -> Seq(Groups)]
    BY <1>2, <2>1, <2>2 DEF RefuseHalfWay, TypeOK
  <2>4. hollow' \subseteq Priorities \X Groups /\ torn' \subseteq Priorities
    BY <1>2, <2>1 DEF RefuseHalfWay, TypeOK
  <2>5. QED
    BY <1>2, <2>3, <2>4 DEF RefuseHalfWay
<1>3. QED
  BY <1>1, <1>2

LEMMA NotifyTyped ==
    ASSUME TypeOK
    PROVE  NotifyAll(pc) \in [Threads -> {"none", "gated", "left", "checking", "waiting",
                           "operating", "failing", "sleeping", "erasing",
                           "calling", "exited"}]
  BY DEF TypeOK, NotifyAll

LEMMA AnswerTyped ==
    ASSUME TypeOK, NEW j \in Jobs, NEW callback \in Callbacks, Answer(j, callback)
    PROVE  answers' \in [Jobs -> Seq(Callbacks)]
<1>1. Append(answers[j], callback) \in Seq(Callbacks)
  BY AppendQueue DEF TypeOK
<1>2. QED
  BY <1>1 DEF Answer, TypeOK

\* Types and rotations are kept together: a turn needs a group at the front.
LEMMA TypeStep ==
    ASSUME TypeOK, RotationInv, ThreadInv, [Next]_vars
    PROVE  TypeOK'
<1> USE ThreadSets DEF queues, startup, expiry
<1>1. ASSUME NEW j \in Jobs, Submit(j)
      PROVE  TypeOK'
  <2>1. CASE Accept(j)
    BY <1>1, <2>1, AcceptTyped, NotifyTyped DEF Submit, TypeOK
  <2>2. CASE Refuse(j) \/ RefuseHalfWay(j)
    BY <1>1, <2>2, RefuseTyped, NotifyTyped DEF Submit, TypeOK
  <2>3. CASE ~started /\ mutex' = "submitter"
    BY <1>1, <2>3 DEF Submit, Accept, Refuse, RefuseHalfWay, TypeOK
  <2>4. QED
    BY <1>1, <2>1, <2>2, <2>3 DEF Submit
<1>2. ASSUME NEW j \in Jobs, Spawn(j)
      PROVE  TypeOK'
  BY <1>2 DEF Spawn, TypeOK
<1>3. ASSUME NEW j \in Jobs, StartupSucceeds(j)
      PROVE  TypeOK'
  <2>1. CASE Accept(j)
    BY <1>3, <2>1, AcceptTyped DEF StartupSucceeds, TypeOK
  <2>2. CASE Refuse(j) \/ RefuseHalfWay(j)
    BY <1>3, <2>2, RefuseTyped DEF StartupSucceeds, TypeOK
  <2>3. QED
    BY <1>3, <2>1, <2>2 DEF StartupSucceeds
<1>4. ASSUME NEW j \in Jobs, StartupFails(j) \/ StartupUndone(j)
      PROVE  TypeOK'
  <2>1. CASE StartupFails(j)
    BY <2>1 DEF StartupFails, TypeOK
  <2>2. CASE StartupUndone(j)
    BY <2>2 DEF StartupUndone, Refuse, TypeOK
  <2>3. QED
    BY <1>4, <2>1, <2>2
<1>5. ASSUME NEW t \in Threads, PassGate(t)
      PROVE  TypeOK'
  BY <1>5 DEF PassGate, TypeOK
<1>6. ASSUME NEW w \in Workers, TakeJob(w)
      PROVE  TypeOK'
  <2>1. PICK n \in 1..7 : Dequeue(w, n)
    BY <1>6 DEF TakeJob
  <2>2. PICK p \in Priorities, g \in Groups, j \in Jobs : Takes(w, p, g, j)
    BY <2>1, Dequeued
  <2>3. Turn(p, g) \in Seq(Groups) /\ Tail(jobs[p][g]) \in Seq(Jobs)
    <3>1. groups[p] # <<>> /\ jobs[p][g] # <<>>
      BY <2>2 DEF Takes
    <3>2. jobs[p][g] \in Seq(Jobs)
      BY DEF TypeOK
    <3>3. Turn(p, g) \in Seq(Groups)
      BY <3>1, TurnTyped
    <3>4. Tail(jobs[p][g]) \in Seq(Jobs)
      BY <3>1, <3>2, TailQueue
    <3>5. QED
      BY <3>3, <3>4
  <2>4. groups' \in [Priorities -> Seq(Groups)]
    BY <2>2, <2>3 DEF TypeOK, Takes
  <2>5. jobs' \in [Priorities -> [Groups -> Seq(Jobs)]]
    <3>1. jobs \in [Priorities -> [Groups -> Seq(Jobs)]]
      BY DEF TypeOK
    <3>2. jobs' = [jobs EXCEPT ![p][g] = Tail(jobs[p][g])]
      BY <2>2 DEF Takes
    <3>3. QED
      BY <2>3, <3>1, <3>2
  <2>6. bypassed' \in [Priorities -> [Groups -> Nat]]
    BY <2>2 DEF TypeOK, Takes
  <2>7. job' \in [Workers -> Jobs \cup {None}]
    BY <2>2 DEF TypeOK, Takes
  <2>8. QED
    BY <1>6, <2>2, <2>4, <2>5, <2>6, <2>7 DEF TakeJob, TypeOK, Takes
<1>7. ASSUME NEW w \in Workers, DequeueNothing(w) \/ FindNoJob(w) \/ WakeSpuriously(w)
      PROVE  TypeOK'
  BY <1>7 DEF DequeueNothing, FindNoJob, WakeSpuriously, TypeOK
<1>8. ASSUME NEW w \in Workers, Operate(w) \/ ReportFailure(w)
      PROVE  TypeOK'
  <2>1. job[w] \in Jobs
    BY <1>8 DEF Operate, ReportFailure, ThreadInv, TypeOK
  <2>2. answers' \in [Jobs -> Seq(Callbacks)]
    BY <1>8, <2>1, AnswerTyped DEF Operate, ReportFailure, Callbacks
  <2>3. QED
    BY <1>8, <2>2 DEF Operate, ReportFailure, TypeOK
<1>9. CASE BeginSweep
  <2>1. \A p \in Priorities : Purged(groups[p], HollowGroups(p)) \in Seq(Groups)
    BY PurgedQueue DEF TypeOK
  <2>2. groups' \in [Priorities -> Seq(Groups)] /\ hollow' \subseteq Priorities \X Groups
    BY <1>9, <2>1 DEF BeginSweep, TypeOK
  <2>3. Due \subseteq Jobs
    BY DEF Due
  <2>4. due' \subseteq Jobs /\ mutex' \in {"free", "submitter", "timer", "undefined"}
    BY <1>9, <2>3 DEF BeginSweep, TypeOK
  <2>5. QED
    BY <1>9, <2>2, <2>4 DEF BeginSweep, TypeOK
<1>10. ASSUME NEW j \in Jobs, EraseExpired(j)
       PROVE  TypeOK'
  <2> DEFINE p == Priority[j]
             g == Group[j]
             rest == Without(jobs[p][g], j)
  <2>1. p \in Priorities /\ g \in Groups
    BY JobConstants
  <2>2. rest \in Seq(Jobs)
    BY <2>1, RemoveFirstProperties DEF Without, TypeOK
  <2>3. Purged(groups[p], {g}) \in Seq(Groups)
    BY <2>1, PurgedQueue DEF TypeOK
  <2>4. groups' \in [Priorities -> Seq(Groups)]
    BY <1>10, <2>1, <2>3 DEF EraseExpired, TypeOK
  <2>5. jobs' \in [Priorities -> [Groups -> Seq(Jobs)]]
    BY <1>10, <2>1, <2>2 DEF EraseExpired, TypeOK
  <2>6. QED
    BY <1>10, <2>4, <2>5 DEF EraseExpired, TypeOK
<1>11. ASSUME NEW j \in Jobs, CallExpired(j)
       PROVE  TypeOK'
  <2>1. answers' \in [Jobs -> Seq(Callbacks)]
    BY <1>11, AnswerTyped DEF CallExpired, Callbacks
  <2>2. QED
    BY <1>11, <2>1 DEF CallExpired, TypeOK
<1>12. ASSUME NEW j \in Jobs, DeadlinePasses(j)
       PROVE  TypeOK'
  BY <1>12 DEF DeadlinePasses, TypeOK
<1>13. CASE BeginStop \/ StopStep
  BY <1>13, NotifyTyped DEF BeginStop, StopStep, NotifyStop, Join, TypeOK
<1>14. CASE UNCHANGED vars
  BY <1>14 DEF vars, TypeOK
<1>15. QED
  BY <1>1, <1>2, <1>3, <1>4, <1>5, <1>6, <1>7, <1>8, <1>9, <1>10, <1>11, <1>12,
     <1>13, <1>14 DEF Next, StartStep, WorkerStep, TimerStep

-----------------------------------------------------------------------------
(* Threads.                                                                 *)

LEMMA ThreadStep ==
    ASSUME TypeOK, RotationInv, ThreadInv, [Next]_vars
    PROVE  ThreadInv'
<1> USE ThreadSets DEF queues, startup, expiry, Starting
<1>1. ASSUME NEW j \in Jobs, Submit(j)
      PROVE  ThreadInv'
  <2>1. CASE started
    <3>1. /\ mutex' = "free" /\ UNCHANGED <<started, gate, job>>
          /\ pc' = pc \/ pc' = NotifyAll(pc)
          /\ \/ caller' = [caller EXCEPT ![j] = "accepted"]
             \/ caller' = [caller EXCEPT ![j] = "refused"]
      BY <1>1, <2>1 DEF Submit, Accept, Refuse, RefuseHalfWay
    <3>2. mutex = "free" /\ caller[j] = "idle"
      BY <1>1 DEF Submit
    <3>3. \A t \in Threads :
             pc'[t] # pc[t] => pc[t] = "waiting" /\ pc'[t] = "checking"
      <4>1. CASE pc' = pc
        BY <4>1
      <4>2. CASE pc' = NotifyAll(pc)
        BY <4>2 DEF NotifyAll
      <4>3. QED
        BY <3>1, <4>1, <4>2
    <3>4. \A k \in Jobs : caller'[k] \notin {"starting", "joining"}
      BY <2>1, <3>1 DEF TypeOK, ThreadInv
    <3>5. /\ pc'[Timer] = pc[Timer] /\ pc[Timer] # "erasing"
          /\ \A t \in Threads : pc'[t] \notin {"none", "left"}
      BY <2>1, <3>2, <3>3 DEF ThreadInv
    <3>6. \A w \in Workers :
             /\ pc'[w] \notin {"sleeping", "erasing", "calling"}
             /\ pc'[w] \in {"operating", "failing"}
                   <=> pc[w] \in {"operating", "failing"}
      BY <3>3 DEF ThreadInv
    <3>7. QED
      BY <2>1, <3>1, <3>4, <3>5, <3>6 DEF ThreadInv
  <2>2. CASE ~started
    BY <1>1, <2>2 DEF Submit, Refuse, TypeOK, ThreadInv
  <2>3. QED
    BY <2>1, <2>2
<1>2. ASSUME NEW j \in Jobs, Spawn(j)
      PROVE  ThreadInv'
  BY <1>2 DEF Spawn, TypeOK, ThreadInv
<1>3. ASSUME NEW j \in Jobs, StartupSucceeds(j)
      PROVE  ThreadInv'
  <2>1. /\ mutex' = "free" /\ started' /\ gate' = "open" /\ UNCHANGED <<pc, job>>
        /\ \/ caller' = [caller EXCEPT ![j] = "accepted"]
           \/ caller' = [caller EXCEPT ![j] = "refused"]
    BY <1>3 DEF StartupSucceeds, Accept, Refuse, RefuseHalfWay
  <2>2. caller[j] = "starting" /\ \A t \in Threads : pc[t] = "gated"
    BY <1>3 DEF StartupSucceeds
  <2>3. \A k \in Jobs : caller'[k] \notin {"starting", "joining"}
    <3>1. \A k \in Jobs : Starting(k) => k = j
      BY <2>2 DEF ThreadInv
    <3>2. caller'[j] \in {"accepted", "refused"}
      BY <2>1 DEF TypeOK
    <3>3. \A k \in Jobs : k # j => caller'[k] = caller[k]
      BY <2>1 DEF TypeOK
    <3>4. QED
      BY <3>1, <3>2, <3>3
  <2>4. \A t \in Threads : pc'[t] = "gated"
    BY <2>1, <2>2
  <2>5. \A w \in Workers : job'[w] # None <=> pc'[w] \in {"operating", "failing"}
    BY <2>1 DEF ThreadInv
  <2>6. QED
    BY <2>1, <2>3, <2>4, <2>5 DEF ThreadInv
<1>4. ASSUME NEW j \in Jobs, StartupFails(j)
      PROVE  ThreadInv'
  BY <1>4 DEF StartupFails, TypeOK, ThreadInv
<1>5. ASSUME NEW j \in Jobs, StartupUndone(j)
      PROVE  ThreadInv'
  <2>1. /\ mutex' = "free" /\ gate' = "closed" /\ UNCHANGED <<started, job>>
        /\ caller' = [caller EXCEPT ![j] = "refused"]
        /\ \A t \in Threads : pc'[t] = "none"
    BY <1>5 DEF StartupUndone, Refuse
  <2>2. mutex = "submitter" /\ ~started /\ \A k \in Jobs : Starting(k) => k = j
    BY <1>5 DEF StartupUndone, ThreadInv
  <2>3. \A k \in Jobs : caller'[k] \notin {"starting", "joining"}
    <3>1. caller'[j] = "refused" /\ \A k \in Jobs : k # j => caller'[k] = caller[k]
      BY <2>1 DEF TypeOK
    <3>2. QED
      BY <2>2, <3>1
  <2>4. \A w \in Workers : job'[w] = None
    <3>1. \A w \in Workers : pc[w] \notin {"operating", "failing"}
      BY <1>5 DEF StartupUndone
    <3>2. QED
      BY <2>1, <3>1 DEF ThreadInv
  <2>5. QED
    BY <2>1, <2>2, <2>3, <2>4 DEF ThreadInv
<1>6. ASSUME NEW t \in Threads, PassGate(t)
      PROVE  ThreadInv'
  BY <1>6 DEF PassGate, TypeOK, ThreadInv
<1>7. ASSUME NEW w \in Workers, TakeJob(w)
      PROVE  ThreadInv'
  <2>1. PICK n \in 1..7 : Dequeue(w, n)
    BY <1>7 DEF TakeJob
  <2>2. PICK j \in Jobs : job' = [job EXCEPT ![w] = j]
    BY <2>1, Dequeued DEF Takes
  <2>3. j # None
    BY JobConstants
  <2>4. QED
    BY <1>7, <2>2, <2>3 DEF TakeJob, TypeOK, ThreadInv
<1>8. ASSUME NEW w \in Workers, DequeueNothing(w) \/ FindNoJob(w) \/ WakeSpuriously(w)
      PROVE  ThreadInv'
  <2>1. CASE DequeueNothing(w)
    <3>1. /\ mutex = "free" /\ mutex' = "undefined"
          /\ UNCHANGED <<started, gate, pc, job, caller>>
      BY <2>1 DEF DequeueNothing
    <3>2. QED
      BY <3>1 DEF ThreadInv
  <2>2. CASE FindNoJob(w) \/ WakeSpuriously(w)
    BY <2>2 DEF FindNoJob, WakeSpuriously, TypeOK, ThreadInv
  <2>3. QED
    BY <1>8, <2>1, <2>2
<1>9. ASSUME NEW w \in Workers, Operate(w)
      PROVE  ThreadInv'
  BY <1>9 DEF Operate, TypeOK, ThreadInv
<1>10. ASSUME NEW w \in Workers, ReportFailure(w)
      PROVE  ThreadInv'
  BY <1>10 DEF ReportFailure, TypeOK, ThreadInv
<1>11. CASE BeginSweep
  BY <1>11 DEF BeginSweep, TypeOK, ThreadInv
<1>12. ASSUME NEW j \in Jobs, EraseExpired(j)
       PROVE  ThreadInv'
  BY <1>12 DEF EraseExpired, TypeOK, ThreadInv
<1>13. ASSUME NEW j \in Jobs, CallExpired(j)
       PROVE  ThreadInv'
  BY <1>13 DEF CallExpired, TypeOK, ThreadInv
<1>14. ASSUME NEW j \in Jobs, DeadlinePasses(j)
       PROVE  ThreadInv'
  BY <1>14 DEF DeadlinePasses, ThreadInv
<1>15. CASE BeginStop \/ Join
  BY <1>15 DEF BeginStop, Join, ThreadInv
<1>16. CASE NotifyStop
  BY <1>16 DEF NotifyStop, NotifyAll, TypeOK, ThreadInv
<1>17. CASE UNCHANGED vars
  BY <1>17 DEF vars, ThreadInv
<1>18. QED
  BY <1>1, <1>2, <1>3, <1>4, <1>5, <1>6, <1>7, <1>8, <1>9, <1>10, <1>11, <1>12,
     <1>13, <1>14, <1>15, <1>16, <1>17
     DEF Next, StartStep, WorkerStep, TimerStep, StopStep

-----------------------------------------------------------------------------
(* Queues.                                                                  *)

\* Where the queued jobs are: accepted, and those that the timer has found are
\* still there while it keeps the mutex.
QueuedInv ==
    /\ \A j \in Jobs : Queued(j) => caller[j] = "accepted"
    /\ due # {} => pc[Timer] = "erasing"
    /\ \A j \in due : Queued(j) /\ passed[j]
    /\ \A j \in sweep : passed[j]

LEMMA QueuedInQueue ==
    ASSUME NEW j \in Jobs
    PROVE  Queued(j) <=> InQueue(jobs[Priority[j]][Group[j]], j)
  BY DEF Queued, InQueue

\* A queue's changes are those of one rotation and one deque.
LEMMA RotationChanged ==
    ASSUME TypeOK, RotationInv, NEW p \in Priorities, NEW g \in Groups,
           NEW q \in Seq(Groups), NEW d \in Seq(Jobs),
           groups' = [groups EXCEPT ![p] = q],
           jobs' = [jobs EXCEPT ![p][g] = d],
           hollow' \subseteq hollow, <<p, g>> \notin hollow', torn' = torn,
           Distinct(d), d # <<>> => InQueue(q, g),
           \A h \in Groups \ {g} : InQueue(q, h) <=> InQueue(groups[p], h),
           \A j : InQueue(d, j) => Priority[j] = p /\ Group[j] = g,
           p \notin torn => Distinct(q) /\ (InQueue(q, g) => d # <<>>)
    PROVE  RotationInv'
<1>1. groups'[p] = q /\ \A r \in Priorities \ {p} : groups'[r] = groups[r]
  BY DEF TypeOK
<1>2. /\ jobs'[p][g] = d
      /\ \A h \in Groups \ {g} : jobs'[p][h] = jobs[p][h]
      /\ \A r \in Priorities \ {p} : jobs'[r] = jobs[r]
  BY DEF TypeOK
<1>3. RotationOf(p)'
  <2>1. RotationOf(p)
    BY DEF RotationInv
  <2>2. ASSUME NEW h \in Groups \ {g}
        PROVE  /\ jobs'[p][h] # <<>> => InQueue(groups'[p], h)
               /\ Distinct(jobs'[p][h])
               /\ \A j : InQueue(jobs'[p][h], j) => Priority[j] = p /\ Group[j] = h
               /\ <<p, h>> \in hollow' => jobs'[p][h] = <<>> /\ InQueue(groups'[p], h)
    BY <1>1, <1>2, <2>1 DEF RotationOf
  <2>3. QED
    BY <1>1, <1>2, <2>2 DEF RotationOf
<1>4. ASSUME p \notin torn PROVE SoundRotation(p)'
  <2>1. SoundRotation(p)
    BY <1>4 DEF RotationInv
  <2>2. ASSUME NEW h \in Groups
        PROVE  (InQueue(groups'[p], h) => jobs'[p][h] # <<>>) /\ <<p, h>> \notin hollow'
    <3>1. CASE h = g
      BY <1>1, <1>2, <1>4, <2>1, <3>1 DEF SoundRotation
    <3>2. CASE h # g
      BY <1>1, <1>2, <2>1, <3>2 DEF SoundRotation
    <3>3. QED
      BY <3>1, <3>2
  <2>3. QED
    BY <1>1, <1>4, <2>2 DEF SoundRotation
<1>5. ASSUME NEW r \in Priorities \ {p}
      PROVE  RotationOf(r)' /\ (r \notin torn => SoundRotation(r)')
  <2>1. RotationOf(r) /\ (r \notin torn => SoundRotation(r))
    BY DEF RotationInv
  <2>2. RotationOf(r)'
    BY <1>1, <1>2, <2>1 DEF RotationOf
  <2>3. SoundRotation(r) => SoundRotation(r)'
    BY <1>1, <1>2 DEF SoundRotation
  <2>4. QED
    BY <2>1, <2>2, <2>3
<1>6. QED
  BY <1>3, <1>4, <1>5 DEF RotationInv

\* Only the rotation of a queue whose Enqueue failed half way changes otherwise.
LEMMA RotationTorn ==
    ASSUME TypeOK, RotationInv, NEW j \in Jobs, RefuseHalfWay(j)
    PROVE  RotationInv'
<1>1. PICK p \in Priorities : p = Priority[j]
  BY JobConstants
<1>2. PICK g \in Groups : g = Group[j]
  BY JobConstants
<1>3. /\ groups' = [groups EXCEPT ![p] = Append(@, g)] /\ jobs' = jobs
      /\ torn' = torn \cup {p} /\ hollow' \subseteq hollow \cup {<<p, g>>}
      /\ jobs[p][g] = <<>>
  BY <1>1, <1>2 DEF RefuseHalfWay, JoinsRotation
<1>4. groups[p] \in Seq(Groups)
  BY DEF TypeOK
<1>5. groups'[p] = Append(groups[p], g) /\ \A r \in Priorities \ {p} : groups'[r] = groups[r]
  BY <1>3 DEF TypeOK
<1>6. \A x : InQueue(groups'[p], x) <=> InQueue(groups[p], x) \/ x = g
  BY <1>4, <1>5, AppendQueue
<1>7. RotationOf(p)'
  <2>1. RotationOf(p)
    BY DEF RotationInv
  <2>2. ASSUME NEW h \in Groups
        PROVE  /\ jobs'[p][h] # <<>> => InQueue(groups'[p], h)
               /\ Distinct(jobs'[p][h])
               /\ \A i : InQueue(jobs'[p][h], i) => Priority[i] = p /\ Group[i] = h
               /\ <<p, h>> \in hollow' => jobs'[p][h] = <<>> /\ InQueue(groups'[p], h)
    <3>1. <<p, h>> \in hollow' => <<p, h>> \in hollow \/ h = g
      BY <1>3
    <3>2. QED
      BY <1>3, <1>6, <2>1, <3>1 DEF RotationOf
  <2>3. QED
    BY <2>2 DEF RotationOf
<1>8. ASSUME NEW r \in Priorities \ {p}
      PROVE  RotationOf(r)' /\ (r \notin torn' => SoundRotation(r)')
  <2>1. RotationOf(r) /\ (r \notin torn => SoundRotation(r))
    BY DEF RotationInv
  <2>2. \A h \in Groups : <<r, h>> \in hollow' => <<r, h>> \in hollow
    BY <1>3
  <2>3. RotationOf(r)'
    BY <1>3, <1>5, <2>1, <2>2 DEF RotationOf
  <2>4. SoundRotation(r) => SoundRotation(r)'
    BY <1>3, <1>5, <2>2 DEF SoundRotation
  <2>5. QED
    BY <1>3, <2>1, <2>3, <2>4
<1>9. QED
  BY <1>3, <1>7, <1>8 DEF RotationInv

\* The timer takes the groups with an empty deque out of the rotations.
LEMMA RotationSwept ==
    ASSUME TypeOK, RotationInv, UNCHANGED <<jobs, torn>>, hollow' = {},
           groups' = [p \in Priorities |-> Purged(groups[p], HollowGroups(p))]
    PROVE  RotationInv'
<1>1. ASSUME NEW p \in Priorities
      PROVE  RotationOf(p)' /\ (p \notin torn' => SoundRotation(p)')
  <2>1. RotationOf(p) /\ (p \notin torn => SoundRotation(p))
    BY DEF RotationInv
  <2>2. groups[p] \in Seq(Groups) /\ groups'[p] = Purged(groups[p], HollowGroups(p))
    BY DEF TypeOK
  <2>3. /\ \A x : InQueue(groups'[p], x) <=> InQueue(groups[p], x) /\ x \notin HollowGroups(p)
        /\ Distinct(groups[p]) => Distinct(groups'[p])
    BY <2>2, PurgedQueue
  <2>4. \A g \in Groups : jobs[p][g] # <<>> => g \notin HollowGroups(p)
    BY <2>1 DEF RotationOf, HollowGroups
  <2>5. RotationOf(p)'
    BY <2>1, <2>3, <2>4 DEF RotationOf
  <2>6. SoundRotation(p) => SoundRotation(p)'
    BY <2>3 DEF SoundRotation
  <2>7. QED
    BY <2>1, <2>5, <2>6
<1>2. QED
  BY <1>1 DEF RotationInv

\* Which jobs are queued after such a change.
LEMMA QueuedChanged ==
    ASSUME TypeOK, NEW p \in Priorities, NEW g \in Groups, NEW d,
           jobs' = [jobs EXCEPT ![p][g] = d], NEW j \in Jobs
    PROVE  Queued(j)' <=> IF Priority[j] = p /\ Group[j] = g THEN InQueue(d, j)
                          ELSE Queued(j)
<1>1. Priority[j] \in Priorities /\ Group[j] \in Groups
  BY JobConstants
<1>2. jobs'[Priority[j]][Group[j]] = IF Priority[j] = p /\ Group[j] = g THEN d
                                      ELSE jobs[Priority[j]][Group[j]]
  BY <1>1 DEF TypeOK
<1>3. QED
  BY <1>2 DEF Queued, InQueue

\* Enqueue.
LEMMA AcceptQueues ==
    ASSUME TypeOK, RotationInv, QueuedInv, NEW j \in Jobs, Accept(j),
           caller[j] # "accepted"
    PROVE  /\ RotationInv'
           /\ \A k \in Jobs : Queued(k)' <=> Queued(k) \/ k = j
<1>1. PICK p \in Priorities : p = Priority[j]
  BY JobConstants
<1>2. PICK g \in Groups : g = Group[j]
  BY JobConstants
<1>3. PICK d : d = Append(jobs[p][g], j)
  OBVIOUS
<1>4. PICK q : q = IF JoinsRotation(p, g) THEN Append(groups[p], g) ELSE groups[p]
  OBVIOUS
<1>5. /\ groups' = [groups EXCEPT ![p] = q] /\ jobs' = [jobs EXCEPT ![p][g] = d]
      /\ hollow' = hollow \ {<<p, g>>} /\ torn' = torn
  BY <1>1, <1>2, <1>3, <1>4 DEF Accept, TypeOK
<1>6. groups[p] \in Seq(Groups) /\ jobs[p][g] \in Seq(Jobs)
  BY DEF TypeOK
<1>7. ~Queued(j) /\ ~InQueue(jobs[p][g], j)
  BY <1>1, <1>2, QueuedInQueue DEF QueuedInv
<1>8. /\ d \in Seq(Jobs) /\ d # <<>>
      /\ \A x : InQueue(d, x) <=> InQueue(jobs[p][g], x) \/ x = j
      /\ Distinct(jobs[p][g]) => Distinct(d)
  BY <1>3, <1>6, <1>7, AppendQueue
<1>9. RotationOf(p) /\ (p \notin torn => SoundRotation(p))
  BY DEF RotationInv
<1>10. /\ q \in Seq(Groups) /\ InQueue(q, g) /\ (p \notin torn => Distinct(q))
       /\ \A h \in Groups \ {g} : InQueue(q, h) <=> InQueue(groups[p], h)
  <2>1. CASE JoinsRotation(p, g)
    <3>1. q = Append(groups[p], g) /\ jobs[p][g] = <<>>
      BY <1>4, <2>1 DEF JoinsRotation
    <3>2. /\ q \in Seq(Groups) /\ \A x : InQueue(q, x) <=> InQueue(groups[p], x) \/ x = g
          /\ Distinct(groups[p]) /\ ~InQueue(groups[p], g) => Distinct(q)
      BY <1>6, <3>1, AppendQueue
    <3>3. p \notin torn => Distinct(groups[p]) /\ ~InQueue(groups[p], g)
      BY <1>9, <3>1 DEF SoundRotation
    <3>4. QED
      BY <3>2, <3>3
  <2>2. CASE ~JoinsRotation(p, g)
    <3>1. q = groups[p]
      BY <1>4, <2>2
    <3>2. InQueue(q, g)
      BY <1>9, <2>2, <3>1 DEF RotationOf, JoinsRotation
    <3>3. p \notin torn => Distinct(q)
      BY <1>9, <3>1 DEF SoundRotation
    <3>4. QED
      BY <1>6, <3>1, <3>2, <3>3
  <2>3. QED
    BY <2>1, <2>2
<1>11. RotationInv'
  <2>1. \A k : InQueue(d, k) => Priority[k] = p /\ Group[k] = g
    BY <1>1, <1>2, <1>8, <1>9 DEF RotationOf
  <2>2. QED
    <3>1. Distinct(d)
      BY <1>8, <1>9 DEF RotationOf
    <3>2. hollow' \subseteq hollow /\ <<p, g>> \notin hollow'
      BY <1>5
    <3>3. QED
      BY <1>5, <1>8, <1>10, <2>1, <3>1, <3>2, RotationChanged
<1>12. ASSUME NEW k \in Jobs
       PROVE  Queued(k)' <=> Queued(k) \/ k = j
  <2>1. Queued(k)' <=> IF Priority[k] = p /\ Group[k] = g THEN InQueue(d, k)
                       ELSE Queued(k)
    BY <1>5, QueuedChanged
  <2>2. QED
    BY <1>1, <1>2, <1>8, <2>1, QueuedInQueue
<1>13. QED
  BY <1>11, <1>12

\* DequeueLocked.
LEMMA TakeQueues ==
    ASSUME TypeOK, RotationInv, NEW w \in Workers, TakeJob(w)
    PROVE  \E j \in Jobs :
             /\ job' = [job EXCEPT ![w] = j] /\ Queued(j)
             /\ RotationInv'
             /\ \A k \in Jobs : Queued(k)' <=> Queued(k) /\ k # j
<1>1. PICK n \in 1..7 : Dequeue(w, n)
  BY DEF TakeJob
<1>2. PICK p \in Priorities, g \in Groups, j \in Jobs : Takes(w, p, g, j)
  BY <1>1, Dequeued
<1>3. /\ groups[p] \in Seq(Groups) /\ jobs[p][g] \in Seq(Jobs)
      /\ RotationOf(p) /\ (p \notin torn => SoundRotation(p))
  BY DEF TypeOK, RotationInv
<1>4. PICK d : d = Tail(jobs[p][g])
  OBVIOUS
<1>5. /\ d \in Seq(Jobs) /\ Distinct(d) /\ (Len(jobs[p][g]) = 1 <=> d = <<>>)
      /\ \A x : InQueue(d, x) <=> InQueue(jobs[p][g], x) /\ x # j
      /\ InQueue(jobs[p][g], j)
  BY <1>2, <1>3, <1>4, TailQueue DEF RotationOf, Takes
<1>6. PICK t : t = Tail(groups[p])
  OBVIOUS
<1>7. /\ t \in Seq(Groups)
      /\ \A x : x # g => (InQueue(t, x) <=> InQueue(groups[p], x))
      /\ Distinct(groups[p]) => Distinct(t) /\ ~InQueue(t, g)
  BY <1>2, <1>3, <1>6, TailQueue, TailOthers DEF Takes
<1>8. PICK q : q = Turn(p, g)
  OBVIOUS
<1>9. q = IF d = <<>> THEN t ELSE Append(t, g)
  BY <1>5, <1>6, <1>8 DEF Turn
<1>10. /\ q \in Seq(Groups) /\ (d # <<>> => InQueue(q, g))
       /\ \A h \in Groups \ {g} : InQueue(q, h) <=> InQueue(groups[p], h)
       /\ Distinct(groups[p]) => Distinct(q) /\ (InQueue(q, g) => d # <<>>)
  <2>1. CASE d = <<>>
    BY <1>7, <1>9, <2>1
  <2>2. CASE d # <<>>
    BY <1>7, <1>9, <2>2, AppendQueue
  <2>3. QED
    BY <2>1, <2>2
<1>11. groups' = [groups EXCEPT ![p] = q] /\ jobs' = [jobs EXCEPT ![p][g] = d]
  BY <1>2, <1>4, <1>8 DEF Takes
<1>12. RotationInv'
  <2>1. \A k : InQueue(d, k) => Priority[k] = p /\ Group[k] = g
    BY <1>3, <1>5 DEF RotationOf
  <2>2. UNCHANGED <<hollow, torn>> /\ <<p, g>> \notin hollow'
    BY <1>2, <1>3 DEF Takes, RotationOf
  <2>3. p \notin torn => Distinct(q) /\ (InQueue(q, g) => d # <<>>)
    BY <1>3, <1>10 DEF SoundRotation
  <2>4. QED
    BY <1>5, <1>10, <1>11, <2>1, <2>2, <2>3, RotationChanged
<1>13. ASSUME NEW k \in Jobs
       PROVE  Queued(k)' <=> Queued(k) /\ k # j
  <2>1. Queued(k)' <=> IF Priority[k] = p /\ Group[k] = g THEN InQueue(d, k)
                       ELSE Queued(k)
    BY <1>11, QueuedChanged
  <2>2. QED
    BY <1>2, <1>5, <2>1, QueuedInQueue DEF Takes
<1>14. Queued(j)
  BY <1>2, <1>5, QueuedInQueue DEF Takes
<1>15. QED
  BY <1>2, <1>12, <1>13, <1>14 DEF Takes

\* RemoveExpired.
LEMMA EraseQueues ==
    ASSUME TypeOK, RotationInv, QueuedInv, NEW j \in Jobs, EraseExpired(j)
    PROVE  /\ RotationInv'
           /\ \A k \in Jobs : Queued(k)' <=> Queued(k) /\ k # j
<1>1. PICK p \in Priorities : p = Priority[j]
  BY JobConstants
<1>2. PICK g \in Groups : g = Group[j]
  BY JobConstants
<1>3. PICK d : d = RemoveFirst(jobs[p][g], j)
  OBVIOUS
<1>4. PICK q : q = IF d = <<>> THEN Purged(groups[p], {g}) ELSE groups[p]
  OBVIOUS
<1>5. groups' = [groups EXCEPT ![p] = q] /\ jobs' = [jobs EXCEPT ![p][g] = d]
  BY <1>1, <1>2, <1>3, <1>4 DEF EraseExpired, Without, TypeOK
<1>6. /\ groups[p] \in Seq(Groups) /\ jobs[p][g] \in Seq(Jobs)
      /\ RotationOf(p) /\ (p \notin torn => SoundRotation(p))
  BY DEF TypeOK, RotationInv
<1>7. /\ d \in Seq(Jobs) /\ Distinct(d)
      /\ \A x : InQueue(d, x) <=> InQueue(jobs[p][g], x) /\ x # j
  BY <1>3, <1>6, RemoveFirstQueue DEF RotationOf
<1>8. d # <<>> => jobs[p][g] # <<>>
  BY <1>6, <1>7, EmptyQueue
<1>9. /\ q \in Seq(Groups) /\ (InQueue(q, g) <=> d # <<>>)
      /\ \A h \in Groups \ {g} : InQueue(q, h) <=> InQueue(groups[p], h)
      /\ p \notin torn => Distinct(q)
  <2>1. CASE d = <<>>
    <3>1. q = Purged(groups[p], {g})
      BY <1>4, <2>1
    <3>2. /\ q \in Seq(Groups) /\ \A x : InQueue(q, x) <=> InQueue(groups[p], x) /\ x \notin {g}
          /\ Distinct(groups[p]) => Distinct(q)
      BY <1>6, <3>1, PurgedQueue
    <3>3. QED
      BY <1>6, <2>1, <3>2 DEF SoundRotation
  <2>2. CASE d # <<>>
    BY <1>4, <1>6, <1>8, <2>2 DEF RotationOf, SoundRotation
  <2>3. QED
    BY <2>1, <2>2
<1>10. RotationInv'
  <2>1. \A k : InQueue(d, k) => Priority[k] = p /\ Group[k] = g
    BY <1>6, <1>7 DEF RotationOf
  <2>2. UNCHANGED <<hollow, torn>>
    BY DEF EraseExpired
  <2>3. InQueue(jobs[p][g], j)
    BY <1>1, <1>2, QueuedInQueue DEF EraseExpired, QueuedInv
  <2>4. <<p, g>> \notin hollow
    BY <1>6, <2>3, EmptyQueue DEF RotationOf
  <2>5. QED
    BY <1>5, <1>7, <1>9, <2>1, <2>2, <2>4, RotationChanged
<1>11. ASSUME NEW k \in Jobs
       PROVE  Queued(k)' <=> Queued(k) /\ k # j
  <2>1. Queued(k)' <=> IF Priority[k] = p /\ Group[k] = g THEN InQueue(d, k)
                       ELSE Queued(k)
    BY <1>5, QueuedChanged
  <2>2. QED
    BY <1>1, <1>2, <1>7, <2>1, QueuedInQueue
<1>12. QED
  BY <1>10, <1>11

LEMMA QueuesStep ==
    ASSUME TypeOK, RotationInv, ThreadInv, QueuedInv, [Next]_vars
    PROVE  RotationInv' /\ QueuedInv'
<1> USE DEF queues, startup, expiry
<1>1. ASSUME UNCHANGED <<groups, jobs, hollow, torn, due, sweep>>,
             due # {} => pc'[Timer] = "erasing",
             \A j \in Jobs : /\ caller[j] = "accepted" => caller'[j] = "accepted"
                             /\ passed[j] => passed'[j]
      PROVE  RotationInv' /\ QueuedInv'
  <2>1. \A j \in Jobs : Queued(j)' <=> Queued(j)
    BY <1>1 DEF Queued
  <2>2. RotationInv'
    BY <1>1 DEF RotationInv, RotationOf, SoundRotation
  <2>3. QED
    BY <1>1, <2>1, <2>2 DEF QueuedInv, TypeOK
<1>16. ASSUME NEW j \in Jobs, RefuseHalfWay(j), caller[j] # "accepted",
             UNCHANGED <<due, sweep, passed>>, due # {} => pc'[Timer] = "erasing"
      PROVE  RotationInv' /\ QueuedInv'
  <2>1. RotationInv'
    BY <1>16, RotationTorn
  <2>2. /\ jobs' = jobs
        /\ \A k \in Jobs : caller[k] = "accepted" => caller'[k] = "accepted"
    BY <1>16, RefuseTyped DEF TypeOK
  <2>3. \A k \in Jobs : Queued(k)' <=> Queued(k)
    BY <2>2 DEF Queued
  <2>4. QED
    BY <1>16, <2>1, <2>2, <2>3 DEF QueuedInv, TypeOK
<1>2. ASSUME NEW j \in Jobs, Accept(j), caller[j] # "accepted",
             UNCHANGED <<due, sweep, passed>>, due # {} => pc'[Timer] = "erasing"
      PROVE  RotationInv' /\ QueuedInv'
  <2>1. RotationInv' /\ \A k \in Jobs : Queued(k)' <=> Queued(k) \/ k = j
    BY <1>2, AcceptQueues
  <2>2. \A k \in Jobs : caller'[k] = IF k = j THEN "accepted" ELSE caller[k]
    BY <1>2 DEF Accept, TypeOK
  <2>3. QED
    BY <1>2, <2>1, <2>2 DEF QueuedInv, TypeOK
<1>3. ASSUME NEW j \in Jobs, Submit(j)
      PROVE  RotationInv' /\ QueuedInv'
  <2>1. caller[j] = "idle" /\ due = {} /\ UNCHANGED <<due, sweep, passed>>
    BY <1>3 DEF Submit, ThreadInv, QueuedInv
  <2>2. CASE Accept(j)
    BY <1>2, <2>1, <2>2
  <2>5. CASE RefuseHalfWay(j)
    BY <1>16, <2>1, <2>5
  <2>3. CASE ~Accept(j) /\ ~RefuseHalfWay(j)
    <3>1. /\ UNCHANGED <<groups, jobs, hollow, torn>>
          /\ \/ caller' = [caller EXCEPT ![j] = "refused"]
             \/ caller' = [caller EXCEPT ![j] = "starting"]
      BY <1>3, <2>3 DEF Submit, Refuse
    <3>2. \A k \in Jobs : caller[k] = "accepted" => caller'[k] = "accepted"
      BY <2>1, <3>1 DEF TypeOK
    <3>3. QED
      BY <1>1, <2>1, <3>1, <3>2
  <2>4. QED
    BY <2>2, <2>3, <2>5
<1>4. ASSUME NEW j \in Jobs, StartupSucceeds(j)
      PROVE  RotationInv' /\ QueuedInv'
  <2>1. caller[j] = "starting" /\ UNCHANGED <<due, sweep, passed, pc>>
    BY <1>4 DEF StartupSucceeds
  <2>2. CASE Accept(j)
    BY <1>2, <2>1, <2>2 DEF QueuedInv
  <2>3. CASE Refuse(j)
    <3>1. \A k \in Jobs : caller[k] = "accepted" => caller'[k] = "accepted"
      BY <2>1, <2>3 DEF TypeOK, Refuse
    <3>2. QED
      BY <1>1, <2>1, <2>3, <3>1 DEF QueuedInv, Refuse
  <2>5. CASE RefuseHalfWay(j)
    BY <1>16, <2>1, <2>5 DEF QueuedInv
  <2>4. QED
    BY <1>4, <2>2, <2>3, <2>5 DEF StartupSucceeds
<1>5. ASSUME NEW j \in Jobs, Spawn(j) \/ StartupFails(j) \/ StartupUndone(j)
      PROVE  RotationInv' /\ QueuedInv'
  <2>1. /\ UNCHANGED <<groups, jobs, hollow, torn, due, sweep, passed>>
        /\ \A k \in Jobs : caller[k] = "accepted" => caller'[k] = "accepted"
    BY <1>5 DEF Spawn, StartupFails, StartupUndone, Refuse, TypeOK
  <2>2. due = {}
    <3>1. mutex = "submitter"
      BY <1>5 DEF Spawn, StartupFails, StartupUndone, ThreadInv, Starting
    <3>2. QED
      BY <3>1 DEF ThreadInv, QueuedInv
  <2>3. QED
    BY <1>1, <2>1, <2>2
<1>6. ASSUME NEW t \in Threads, PassGate(t)
      PROVE  RotationInv' /\ QueuedInv'
  BY <1>1, <1>6 DEF PassGate, QueuedInv, TypeOK
<1>7. ASSUME NEW w \in Workers, TakeJob(w)
      PROVE  RotationInv' /\ QueuedInv'
  <2>1. PICK j \in Jobs : RotationInv' /\ \A k \in Jobs : Queued(k)' <=> Queued(k) /\ k # j
    BY <1>7, TakeQueues
  <2>2. due = {}
    BY <1>7 DEF TakeJob, ThreadInv, QueuedInv
  <2>3. UNCHANGED <<due, sweep, passed, caller>>
    BY <1>7 DEF TakeJob
  <2>4. QED
    BY <2>1, <2>2, <2>3 DEF QueuedInv
<1>8. ASSUME NEW w \in Workers,
             \/ DequeueNothing(w) \/ FindNoJob(w) \/ WakeSpuriously(w)
             \/ Operate(w) \/ ReportFailure(w)
      PROVE  RotationInv' /\ QueuedInv'
  <2>1. w # Timer
    BY ThreadSets
  <2>2. /\ pc'[Timer] = pc[Timer]
        /\ UNCHANGED <<groups, jobs, hollow, torn, due, sweep, passed, caller>>
    BY <1>8, <2>1, ThreadSets DEF DequeueNothing, FindNoJob, WakeSpuriously, Operate, ReportFailure, TypeOK
  <2>3. QED
    BY <1>1, <2>2 DEF QueuedInv
<1>9. CASE BeginSweep
  <2>1. /\ UNCHANGED <<jobs, torn, sweep, passed, caller>>
        /\ \/ UNCHANGED <<groups, hollow>>
           \/ /\ groups' = [p \in Priorities |-> Purged(groups[p], HollowGroups(p))]
              /\ hollow' = {}
    BY <1>9 DEF BeginSweep
  <2>2. RotationInv' /\ \A k \in Jobs : Queued(k)' <=> Queued(k)
    <3>1. ASSUME UNCHANGED <<groups, hollow>>
          PROVE  RotationInv'
      BY <2>1, <3>1 DEF RotationInv, RotationOf, SoundRotation
    <3>2. ASSUME ~UNCHANGED <<groups, hollow>>
          PROVE  RotationInv'
      BY <2>1, <3>2, RotationSwept
    <3>3. QED
      BY <2>1, <3>1, <3>2 DEF Queued
  <2>3. \/ due' = due /\ due = {}
        \/ due' = Due /\ (Due # {} => pc'[Timer] = "erasing")
    BY <1>9, ThreadSets DEF BeginSweep, QueuedInv, TypeOK
  <2>4. QED
    BY <2>1, <2>2, <2>3 DEF QueuedInv, Due
<1>10. ASSUME NEW j \in Jobs, EraseExpired(j)
       PROVE  RotationInv' /\ QueuedInv'
  <2>1. RotationInv' /\ \A k \in Jobs : Queued(k)' <=> Queued(k) /\ k # j
    BY <1>10, EraseQueues
  <2>2. /\ due' = due \ {j} /\ sweep' = sweep \cup {j} /\ UNCHANGED <<passed, caller>>
        /\ j \in due /\ pc[Timer] = "erasing"
        /\ due # {j} => pc' = pc
    BY <1>10 DEF EraseExpired
  <2>3. QED
    BY <2>1, <2>2 DEF QueuedInv, TypeOK
<1>11. ASSUME NEW j \in Jobs, CallExpired(j)
       PROVE  RotationInv' /\ QueuedInv'
  <2>1. UNCHANGED <<groups, jobs, hollow, torn, due, passed, caller>> /\ sweep' \subseteq sweep
        /\ pc[Timer] = "calling"
    BY <1>11 DEF CallExpired
  <2>2. RotationInv' /\ \A k \in Jobs : Queued(k)' <=> Queued(k)
    BY <2>1 DEF RotationInv, RotationOf, SoundRotation, Queued
  <2>3. QED
    BY <2>1, <2>2 DEF QueuedInv
<1>12. ASSUME NEW j \in Jobs, DeadlinePasses(j)
       PROVE  RotationInv' /\ QueuedInv'
  BY <1>1, <1>12 DEF DeadlinePasses, QueuedInv, TypeOK
<1>13. CASE BeginStop \/ Join \/ UNCHANGED vars
  BY <1>1, <1>13 DEF BeginStop, Join, vars, QueuedInv
<1>14. CASE NotifyStop
  BY <1>1, <1>14, ThreadSets DEF NotifyStop, NotifyAll, QueuedInv
<1>15. QED
  BY <1>3, <1>4, <1>5, <1>6, <1>7, <1>8, <1>9, <1>10, <1>11, <1>12, <1>13, <1>14,
     ThreadSets DEF Next, StartStep, WorkerStep, TimerStep, StopStep

-----------------------------------------------------------------------------
(* Jobs: each is in one place at a time.                                    *)

Places == {"outside", "queued", "operating", "failing", "swept", "over"}

Answers(place) ==
    CASE place = "failing" -> {<<"operation">>}
      [] place = "over" -> {<<"operation">>, <<"operation", "failure">>, <<"expired">>}
      [] OTHER -> {<<>>}

At(j, place) ==
    /\ caller[j] = "accepted" <=> place # "outside"
    /\ Queued(j) <=> place = "queued"
    /\ j \in sweep <=> place = "swept"
    /\ Busy(j) <=> place \in {"operating", "failing"}
    /\ \A u, w \in HeldBy(j) : u = w
    /\ \A w \in HeldBy(j) : pc[w] = place
    /\ answers[j] \in Answers(place)

JobInv == \A j \in Jobs : \E place \in Places : At(j, place)

SchedulerInv ==
    TypeOK /\ RotationInv /\ ThreadInv /\ QueuedInv /\ JobInv /\ UndefinedInv

LEMMA AppendedToOne ==
    ASSUME NEW S, NEW a \in S, NEW b \in S
    PROVE  Append(<<a>>, b) = <<a, b>>
<1> DEFINE s == <<a>>
           t == <<a, b>>
           r == Append(s, b)
<1>1. s \in Seq(S) /\ Len(s) = 1 /\ s[1] = a
  OBVIOUS
<1>2. t \in Seq(S) /\ Len(t) = 2 /\ t[1] = a /\ t[2] = b
  OBVIOUS
<1> HIDE DEF s, t
<1>4. /\ r \in Seq(S) /\ Len(r) = Len(s) + 1 /\ r[Len(s) + 1] = b
      /\ \A k \in 1 .. Len(s) : r[k] = s[k]
  <2>1. PICK q \in Seq(S) : q = s
    BY <1>1
  <2>2. /\ Append(q, b) \in Seq(S) /\ Len(Append(q, b)) = Len(q) + 1
        /\ Append(q, b)[Len(q) + 1] = b
        /\ \A k \in 1 .. Len(q) : Append(q, b)[k] = q[k]
    BY AppendProperties
  <2>3. QED
    BY <2>1, <2>2
<1> HIDE DEF r
<1>5. Len(r) = 2 /\ r[1] = a /\ r[2] = b
  BY <1>1, <1>4
<1>6. r = t
  BY <1>2, <1>4, <1>5, SeqEqual
<1>7. QED
  BY <1>6 DEF r, s, t

\* A job that a step does not touch.
Untouched(j) ==
    /\ caller'[j] = "accepted" <=> caller[j] = "accepted"
    /\ Queued(j)' <=> Queued(j)
    /\ j \in sweep' <=> j \in sweep
    /\ \A w \in Workers : job'[w] = j <=> job[w] = j
    /\ \A w \in HeldBy(j) : pc'[w] = pc[w]
    /\ answers'[j] = answers[j]

LEMMA UntouchedStays ==
    ASSUME NEW j \in Jobs, Untouched(j), NEW place, At(j, place)
    PROVE  At(j, place)'
<1>1. HeldBy(j)' = HeldBy(j)
  BY DEF Untouched, HeldBy
<1>2. QED
  BY <1>1 DEF Untouched, At, Busy

\* A step that moves at most one job.
LEMMA OneMoves ==
    ASSUME JobInv, NEW j \in Jobs, \A k \in Jobs \ {j} : Untouched(k),
           NEW place \in Places, At(j, place)'
    PROVE  JobInv'
  BY UntouchedStays DEF JobInv

LEMMA NoneMoves ==
    ASSUME JobInv, \A k \in Jobs : Untouched(k)
    PROVE  JobInv'
  BY UntouchedStays DEF JobInv

\* The step of a thread that has no job in its hands.
LEMMA QuietThread ==
    ASSUME TypeOK, ThreadInv, UNCHANGED <<jobs, job, sweep, answers>>,
           \A j \in Jobs : caller'[j] = "accepted" <=> caller[j] = "accepted",
           \A w \in Workers : pc'[w] # pc[w] => pc[w] \notin {"operating", "failing"}
    PROVE  \A j \in Jobs : Untouched(j)
<1> SUFFICES ASSUME NEW j \in Jobs PROVE Untouched(j)
  OBVIOUS
<1>1. \A w \in HeldBy(j) : w \in Workers /\ pc[w] \in {"operating", "failing"}
  BY JobConstants DEF HeldBy, ThreadInv
<1>2. Queued(j)' <=> Queued(j)
  BY DEF Queued
<1>3. QED
  BY <1>1, <1>2 DEF Untouched

\* A job is accepted.
LEMMA AcceptMoves ==
    ASSUME SchedulerInv, NEW j \in Jobs, Accept(j), caller[j] # "accepted",
           UNCHANGED <<job, sweep, answers>>,
           \A w \in Workers : pc'[w] # pc[w] => pc[w] \notin {"operating", "failing"}
    PROVE  JobInv'
<1> USE DEF SchedulerInv
<1>1. \A k \in Jobs : Queued(k)' <=> Queued(k) \/ k = j
  BY AcceptQueues
<1>2. \A k \in Jobs : caller'[k] = IF k = j THEN "accepted" ELSE caller[k]
  BY DEF Accept, TypeOK
<1>3. ASSUME NEW k \in Jobs \ {j}
      PROVE  Untouched(k)
  <2>1. \A w \in HeldBy(k) : w \in Workers /\ pc[w] \in {"operating", "failing"}
    BY JobConstants DEF HeldBy, ThreadInv
  <2>2. QED
    BY <1>1, <1>2, <2>1 DEF Untouched
<1>4. At(j, "outside")
  BY DEF JobInv, At, Places
<1>5. HeldBy(j)' = HeldBy(j) /\ HeldBy(j) = {}
  BY <1>4 DEF At, Busy, HeldBy
<1>6. At(j, "queued")'
  <2>1. Queued(j)' /\ caller'[j] = "accepted"
    BY <1>1, <1>2
  <2>2. answers'[j] \in Answers("queued")
    BY <1>4 DEF At, Answers
  <2>3. j \notin sweep'
    BY <1>4 DEF At
  <2>4. QED
    BY <1>5, <2>1, <2>2, <2>3 DEF At, Busy
<1>7. QED
  BY <1>3, <1>6, OneMoves DEF Places

\* A worker takes a job.
LEMMA TakeMoves ==
    ASSUME SchedulerInv, NEW w \in Workers, TakeJob(w)
    PROVE  JobInv'
<1> USE DEF SchedulerInv
<1>1. PICK j \in Jobs :
         /\ job' = [job EXCEPT ![w] = j] /\ Queued(j)
         /\ \A k \in Jobs : Queued(k)' <=> Queued(k) /\ k # j
  BY TakeQueues
<1>2. /\ pc[w] = "checking" /\ pc' = [pc EXCEPT ![w] = "operating"]
      /\ UNCHANGED <<sweep, caller, answers>>
  BY DEF TakeJob, expiry
<1>3. job[w] = None /\ w \in Threads
  BY <1>2, ThreadSets DEF ThreadInv
<1>4. ASSUME NEW k \in Jobs \ {j}
      PROVE  Untouched(k)
  <2>1. \A u \in Workers : job'[u] = k <=> job[u] = k
    BY <1>1, <1>3, JobConstants DEF TypeOK
  <2>2. \A u \in HeldBy(k) : u # w
    BY <1>3, JobConstants DEF HeldBy
  <2>3. \A u \in HeldBy(k) : pc'[u] = pc[u]
    BY <1>2, <2>2 DEF TypeOK
  <2>4. QED
    BY <1>1, <1>2, <2>1, <2>3 DEF Untouched
<1>5. At(j, "queued")
  BY <1>1 DEF JobInv, At, Places
<1>6. HeldBy(j) = {}
  BY <1>5 DEF At, Busy
<1>7. HeldBy(j)' = {w} /\ pc'[w] = "operating"
  BY <1>1, <1>2, <1>3, <1>6 DEF HeldBy, TypeOK
<1>8. At(j, "operating")'
  <2>1. caller'[j] = "accepted" /\ ~Queued(j)' /\ j \notin sweep'
    BY <1>1, <1>2, <1>5 DEF At
  <2>2. answers'[j] \in Answers("operating")
    BY <1>2, <1>5 DEF At, Answers
  <2>3. QED
    BY <1>7, <2>1, <2>2 DEF At, Busy
<1>9. QED
  BY <1>4, <1>8, OneMoves DEF Places

\* A worker's step with the job in its hands.
LEMMA WorkerMoves ==
    ASSUME SchedulerInv, NEW w \in Workers, Operate(w) \/ ReportFailure(w)
    PROVE  JobInv'
<1> USE DEF SchedulerInv
<1>1. PICK j \in Jobs : j = job[w]
  BY DEF Operate, ReportFailure, ThreadInv, TypeOK
<1>2. UNCHANGED <<jobs, sweep, caller>> /\ w \in Threads
  BY ThreadSets DEF Operate, ReportFailure, queues, expiry
<1>3. \A k \in Jobs : Queued(k)' <=> Queued(k)
  BY <1>2 DEF Queued
<1>4. /\ w \in HeldBy(j) /\ \A u \in Workers : job[u] = j => u = w
      /\ At(j, pc[w])
  BY <1>1 DEF JobInv, At, HeldBy
<1>5. j # None
  BY JobConstants
<1>6. ASSUME NEW k \in Jobs \ {j}, NEW callback,
             answers' = [answers EXCEPT ![j] = Append(@, callback)],
             NEW x, pc' = [pc EXCEPT ![w] = x],
             job' = [job EXCEPT ![w] = None] \/ job' = job
      PROVE  Untouched(k)
  <2>1. \A u \in Workers : job'[u] = k <=> job[u] = k
    BY <1>1, <1>6, JobConstants DEF TypeOK
  <2>2. \A u \in HeldBy(k) : u # w
    BY <1>1 DEF HeldBy
  <2>3. \A u \in HeldBy(k) : pc'[u] = pc[u]
    BY <1>6, <2>2 DEF TypeOK
  <2>4. answers'[k] = answers[k]
    BY <1>6 DEF TypeOK
  <2>5. QED
    BY <1>2, <1>3, <2>1, <2>3, <2>4 DEF Untouched
<1>7. ASSUME NEW a, answers[j] = a, NEW callback, Answer(j, callback)
      PROVE  answers'[j] = Append(a, callback)
  BY <1>7 DEF Answer, TypeOK
<1>8. ASSUME NEW a, answers'[j] = a,
             a \in {<<"operation">>, <<"operation", "failure">>},
             job' = [job EXCEPT ![w] = None]
      PROVE  At(j, "over")'
  <2>1. HeldBy(j)' = {}
    BY <1>4, <1>5, <1>8 DEF HeldBy, TypeOK
  <2>2. answers'[j] \in Answers("over")
    BY <1>8 DEF Answers
  <2>3. caller'[j] = "accepted" /\ ~Queued(j)' /\ j \notin sweep'
    <3>1. pc[w] \in {"operating", "failing"}
      BY DEF Operate, ReportFailure
    <3>2. QED
      BY <1>2, <1>3, <1>4, <3>1 DEF At
  <2>4. QED
    BY <2>1, <2>2, <2>3 DEF At, Busy
<1>9. CASE Operate(w)
  <2>1. pc[w] = "operating" /\ answers[j] = <<>> /\ Answer(j, "operation")
    BY <1>1, <1>4, <1>9 DEF Operate, At, Answers
  <2>2. answers'[j] = <<"operation">>
    BY <1>7, <2>1
  <2>3. CASE pc' = [pc EXCEPT ![w] = "checking"] /\ job' = [job EXCEPT ![w] = None]
    <3>1. At(j, "over")'
      BY <1>8, <2>2, <2>3
    <3>2. QED
      BY <1>6, <2>1, <2>3, <3>1, OneMoves DEF Places, Answer
  <2>4. CASE pc' = [pc EXCEPT ![w] = "failing"] /\ UNCHANGED job
    <3>1. HeldBy(j)' = HeldBy(j) /\ pc'[w] = "failing"
      BY <1>2, <2>4 DEF HeldBy, TypeOK
    <3>2. answers'[j] \in Answers("failing")
      BY <2>2 DEF Answers
    <3>3. caller'[j] = "accepted" /\ ~Queued(j)' /\ j \notin sweep'
      BY <1>2, <1>3, <1>4, <2>1 DEF At
    <3>4. \A u \in HeldBy(j) : u = w
      BY <1>4 DEF HeldBy
    <3>5. At(j, "failing")'
      BY <1>4, <3>1, <3>2, <3>3, <3>4 DEF At, Busy
    <3>6. QED
      BY <1>6, <2>1, <2>4, <3>5, OneMoves DEF Places, Answer
  <2>5. QED
    BY <1>9, <2>3, <2>4 DEF Operate
<1>10. CASE ReportFailure(w)
  <2>1. pc[w] = "failing" /\ answers[j] = <<"operation">> /\ Answer(j, "failure")
    BY <1>1, <1>4, <1>10 DEF ReportFailure, At, Answers
  <2>2. answers'[j] = <<"operation", "failure">>
    <3>1. Append(<<"operation">>, "failure") = <<"operation", "failure">>
      <4>1. {"operation", "failure"} \subseteq Callbacks
        BY DEF Callbacks
      <4>2. QED
        BY <4>1, AppendedToOne, Zenon
    <3>2. answers'[j] = Append(<<"operation">>, "failure")
      BY <1>7, <2>1, Zenon
    <3>3. QED
      BY <3>1, <3>2
  <2>3. At(j, "over")'
    BY <1>8, <1>10, <2>2 DEF ReportFailure
  <2>4. QED
    BY <1>6, <1>10, <2>1, <2>3, OneMoves DEF ReportFailure, Places, Answer
<1>11. QED
  BY <1>9, <1>10

\* The timer takes a job out of its queue, or reports one.
LEMMA TimerMoves ==
    ASSUME SchedulerInv, NEW j \in Jobs, EraseExpired(j) \/ CallExpired(j)
    PROVE  JobInv'
<1> USE DEF SchedulerInv
<1>1. /\ UNCHANGED <<job, caller>> /\ pc[Timer] \in {"erasing", "calling"}
      /\ \A w \in Workers : pc'[w] = pc[w]
  BY ThreadSets DEF EraseExpired, CallExpired, TypeOK
<1>2. HeldBy(j)' = HeldBy(j)
  BY <1>1 DEF HeldBy
<1>3. CASE EraseExpired(j)
  <2>1. \A k \in Jobs : Queued(k)' <=> Queued(k) /\ k # j
    BY <1>3, EraseQueues
  <2>2. sweep' = sweep \cup {j} /\ UNCHANGED answers /\ Queued(j)
    BY <1>3 DEF EraseExpired, QueuedInv
  <2>3. \A k \in Jobs \ {j} : Untouched(k)
    BY <1>1, <2>1, <2>2 DEF Untouched, HeldBy
  <2>4. At(j, "queued")
    BY <2>2 DEF JobInv, At
  <2>5. HeldBy(j) = {} /\ answers'[j] \in Answers("swept")
    BY <2>2, <2>4 DEF At, Busy, Answers
  <2>6. At(j, "swept")'
    BY <1>1, <1>2, <2>1, <2>2, <2>4, <2>5 DEF At, Busy
  <2>7. QED
    BY <2>3, <2>6, OneMoves DEF Places
<1>4. CASE CallExpired(j)
  <2>1. /\ sweep' = sweep \ {j} /\ Answer(j, "expired") /\ UNCHANGED jobs /\ j \in sweep
    BY <1>4 DEF CallExpired, queues
  <2>2. \A k \in Jobs : Queued(k)' <=> Queued(k)
    BY <2>1 DEF Queued
  <2>3. \A k \in Jobs \ {j} : answers'[k] = answers[k]
    BY <2>1 DEF Answer, TypeOK
  <2>4. \A k \in Jobs \ {j} : Untouched(k)
    BY <1>1, <2>1, <2>2, <2>3 DEF Untouched, HeldBy
  <2>5. At(j, "swept")
    BY <2>1 DEF JobInv, At
  <2>6. HeldBy(j) = {} /\ answers[j] = <<>>
    BY <2>5 DEF At, Busy, Answers
  <2>7. answers'[j] = <<"expired">>
    BY <2>1, <2>6 DEF Answer, TypeOK
  <2>8. answers'[j] \in Answers("over")
    BY <2>7 DEF Answers
  <2>9. At(j, "over")'
    BY <1>1, <1>2, <2>1, <2>2, <2>5, <2>6, <2>8 DEF At, Busy
  <2>10. QED
    BY <2>4, <2>9, OneMoves DEF Places
<1>5. QED
  BY <1>3, <1>4

LEMMA JobStep ==
    ASSUME SchedulerInv, [Next]_vars
    PROVE  JobInv'
<1> USE ThreadSets DEF queues, startup, expiry, SchedulerInv
<1>1. ASSUME UNCHANGED <<jobs, job, sweep, answers>>,
             \A j \in Jobs : caller'[j] = "accepted" <=> caller[j] = "accepted",
             \A w \in Workers : pc'[w] # pc[w] => pc[w] \notin {"operating", "failing"}
      PROVE  JobInv'
  BY <1>1, QuietThread, NoneMoves
<1>2. \A w \in Workers : NotifyAll(pc)[w] # pc[w] => pc[w] = "waiting"
  BY DEF NotifyAll
<1>3. ASSUME NEW j \in Jobs, Submit(j)
      PROVE  JobInv'
  <2>1. /\ caller[j] = "idle" /\ UNCHANGED <<job, sweep, answers>>
        /\ pc' = pc \/ pc' = NotifyAll(pc)
    BY <1>3 DEF Submit
  <2>2. \A w \in Workers : pc'[w] # pc[w] => pc[w] \notin {"operating", "failing"}
    BY <1>2, <2>1
  <2>3. CASE Accept(j)
    BY <2>1, <2>2, <2>3, AcceptMoves
  <2>4. CASE ~Accept(j)
    <3>1. /\ UNCHANGED jobs
          /\ \/ caller' = [caller EXCEPT ![j] = "refused"]
             \/ caller' = [caller EXCEPT ![j] = "starting"]
      BY <1>3, <2>4, RefuseTyped DEF Submit
    <3>2. \A k \in Jobs : caller'[k] = "accepted" <=> caller[k] = "accepted"
      BY <2>1, <3>1 DEF TypeOK
    <3>3. QED
      BY <1>1, <2>1, <2>2, <3>1, <3>2
  <2>5. QED
    BY <2>3, <2>4
<1>4. ASSUME NEW j \in Jobs, StartupSucceeds(j)
      PROVE  JobInv'
  <2>1. caller[j] = "starting" /\ UNCHANGED <<job, sweep, answers, pc>>
    BY <1>4 DEF StartupSucceeds
  <2>2. CASE Accept(j)
    BY <2>1, <2>2, AcceptMoves
  <2>3. CASE Refuse(j) \/ RefuseHalfWay(j)
    <3>1. UNCHANGED jobs /\ caller' = [caller EXCEPT ![j] = "refused"]
      BY <2>3, RefuseTyped
    <3>2. \A k \in Jobs : caller'[k] = "accepted" <=> caller[k] = "accepted"
      BY <2>1, <3>1 DEF TypeOK
    <3>3. QED
      BY <1>1, <2>1, <3>1, <3>2
  <2>4. QED
    BY <1>4, <2>2, <2>3 DEF StartupSucceeds
<1>5. ASSUME NEW j \in Jobs, Spawn(j)
      PROVE  JobInv'
  BY <1>1, <1>5 DEF Spawn, TypeOK
<1>6. ASSUME NEW j \in Jobs, StartupFails(j) \/ StartupUndone(j)
      PROVE  JobInv'
  <2>1. /\ UNCHANGED <<jobs, job, sweep, answers>>
        /\ \A k \in Jobs : caller'[k] = "accepted" <=> caller[k] = "accepted"
    BY <1>6 DEF StartupFails, StartupUndone, Refuse, TypeOK
  <2>2. \A w \in Workers : pc[w] \notin {"operating", "failing"}
    <3>1. mutex = "submitter"
      BY <1>6 DEF StartupFails, StartupUndone, ThreadInv, Starting
    <3>2. ~started
      BY <3>1 DEF ThreadInv
    <3>3. QED
      BY <3>2 DEF ThreadInv
  <2>3. QED
    BY <1>1, <2>1, <2>2
<1>7. ASSUME NEW t \in Threads, PassGate(t)
      PROVE  JobInv'
  BY <1>1, <1>7 DEF PassGate, TypeOK
<1>8. ASSUME NEW w \in Workers, DequeueNothing(w) \/ FindNoJob(w) \/ WakeSpuriously(w)
      PROVE  JobInv'
  BY <1>1, <1>8 DEF DequeueNothing, FindNoJob, WakeSpuriously, TypeOK
<1>9. CASE BeginSweep
  BY <1>1, <1>9 DEF BeginSweep, TypeOK
<1>10. ASSUME NEW j \in Jobs, DeadlinePasses(j)
       PROVE  JobInv'
  BY <1>1, <1>10 DEF DeadlinePasses
<1>11. CASE BeginStop \/ Join \/ UNCHANGED vars
  BY <1>1, <1>11 DEF BeginStop, Join, vars
<1>12. CASE NotifyStop
  BY <1>1, <1>2, <1>12 DEF NotifyStop
<1>13. QED
  BY <1>3, <1>4, <1>5, <1>6, <1>7, <1>8, <1>9, <1>10, <1>11, <1>12, TakeMoves,
     WorkerMoves, TimerMoves DEF Next, StartStep, WorkerStep, TimerStep, StopStep

-----------------------------------------------------------------------------
(* Dequeueing from a group without jobs.                                    *)

LEMMA UndefinedStep ==
    ASSUME TypeOK, RotationInv, UndefinedInv, [Next]_vars
    PROVE  UndefinedInv'
<1> USE DEF queues, startup, expiry
<1>1. ASSUME torn \subseteq torn', mutex' = "undefined" => mutex = "undefined"
      PROVE  UndefinedInv'
  BY <1>1 DEF UndefinedInv
<1>2. ASSUME NEW j \in Jobs, Accept(j) \/ Refuse(j) \/ RefuseHalfWay(j)
      PROVE  UndefinedInv'
  BY <1>1, <1>2, AcceptTyped, RefuseTyped
<1>3. ASSUME NEW j \in Jobs, Submit(j)
      PROVE  UndefinedInv'
  BY <1>1, <1>2, <1>3 DEF Submit
<1>4. ASSUME NEW j \in Jobs, StartStep(j) \/ DeadlinePasses(j)
      PROVE  UndefinedInv'
  <2>1. CASE StartupSucceeds(j) \/ StartupUndone(j)
    BY <1>2, <2>1 DEF StartupSucceeds, StartupUndone
  <2>2. CASE Spawn(j) \/ StartupFails(j) \/ DeadlinePasses(j)
    BY <1>1, <2>2 DEF Spawn, StartupFails, DeadlinePasses
  <2>3. QED
    BY <1>4, <2>1, <2>2 DEF StartStep
<1>5. ASSUME NEW w \in Workers, DequeueNothing(w)
      PROVE  UndefinedInv'
  <2>1. PICK n \in 1..7 : Selects(n) /\ jobs[Entry(n)][Head(groups[Entry(n)])] = <<>>
    BY <1>5 DEF DequeueNothing
  <2>2. PICK p \in Priorities : p = Entry(n)
    BY EntryTyped
  <2>3. PICK g : g = Head(groups[p])
    OBVIOUS
  <2>4. groups[p] \in Seq(Groups) /\ groups[p] # <<>> /\ jobs[p][g] = <<>>
    BY <2>1, <2>2, <2>3 DEF Selects, TypeOK
  <2>5. g \in Groups /\ InQueue(groups[p], g)
    BY <2>3, <2>4, TailQueue
  <2>6. ~SoundRotation(p)
    BY <2>4, <2>5 DEF SoundRotation
  <2>7. p \in torn
    BY <2>6 DEF RotationInv
  <2>8. torn' = torn
    BY <1>5 DEF DequeueNothing
  <2>9. QED
    BY <2>7, <2>8 DEF UndefinedInv
<1>6. ASSUME NEW w \in Workers, TakeJob(w)
      PROVE  UndefinedInv'
  BY <1>1, <1>6 DEF TakeJob, Dequeue
<1>7. ASSUME NEW t \in Threads, PassGate(t)
      PROVE  UndefinedInv'
  BY <1>1, <1>7 DEF PassGate
<1>8. ASSUME NEW w \in Workers,
             FindNoJob(w) \/ WakeSpuriously(w) \/ Operate(w) \/ ReportFailure(w)
      PROVE  UndefinedInv'
  BY <1>1, <1>8 DEF FindNoJob, WakeSpuriously, Operate, ReportFailure
<1>9. CASE BeginSweep \/ BeginStop \/ StopStep \/ UNCHANGED vars
  BY <1>1, <1>9 DEF BeginSweep, BeginStop, StopStep, NotifyStop, Join, vars
<1>10. ASSUME NEW j \in Jobs, EraseExpired(j) \/ CallExpired(j)
       PROVE  UndefinedInv'
  BY <1>1, <1>10 DEF EraseExpired, CallExpired
<1>11. QED
  BY <1>3, <1>4, <1>5, <1>6, <1>7, <1>8, <1>9, <1>10, ThreadSets
     DEF Next, WorkerStep, TimerStep

-----------------------------------------------------------------------------
(* What holds in every execution.                                           *)

LEMMA InitialState ==
    ASSUME Init
    PROVE  SchedulerInv
<1> USE ThreadSets DEF Init
<1>1. \A j \in Jobs : Priority[j] \in Priorities /\ Group[j] \in Groups
  BY JobConstants
<1>2. TypeOK
  <2>1. \A S : <<>> \in Seq(S)
    OBVIOUS
  <2>2. /\ groups \in [Priorities -> Seq(Groups)]
        /\ jobs \in [Priorities -> [Groups -> Seq(Jobs)]]
        /\ answers \in [Jobs -> Seq(Callbacks)]
    BY <2>1
  <2>3. bypassed \in [Priorities -> [Groups -> Nat]]
    OBVIOUS
  <2>4. /\ pc \in [Threads -> {"none", "gated", "left", "checking", "waiting",
                "operating", "failing", "sleeping", "erasing", "calling", "exited"}]
        /\ job \in [Workers -> Jobs \cup {None}]
    OBVIOUS
  <2>5. /\ caller \in [Jobs -> {"idle", "starting", "joining", "accepted", "refused"}]
        /\ passed \in [Jobs -> BOOLEAN]
    OBVIOUS
  <2>6. index \in 0..6
    OBVIOUS
  <2>7. /\ started \in BOOLEAN /\ gate \in {"closed", "open", "abandoned"}
        /\ stop \in {"running", "notifying", "joining", "stopped"}
        /\ mutex \in {"free", "submitter", "timer", "undefined"}
        /\ hollow \subseteq Priorities \X Groups /\ torn \subseteq Priorities
        /\ due \subseteq Jobs /\ sweep \subseteq Jobs
    BY Zenon
  <2>8. QED
    BY <2>2, <2>3, <2>4, <2>5, <2>6, <2>7, Zenon DEF TypeOK
<1>3. RotationInv
  <2>1. ASSUME NEW p \in Priorities
        PROVE  RotationOf(p) /\ SoundRotation(p)
    <3>1. groups[p] = <<>> /\ hollow = {} /\ \A g \in Groups : jobs[p][g] = <<>>
      OBVIOUS
    <3>2. Distinct(<<>>) /\ \A x : ~InQueue(<<>>, x)
      BY DEF Distinct, InQueue
    <3>3. QED
      BY <3>1, <3>2 DEF RotationOf, SoundRotation
  <2>2. QED
    BY <2>1 DEF RotationInv
<1>4. ThreadInv
  BY DEF ThreadInv, Starting
<1>5. \A j \in Jobs : ~Queued(j)
  BY <1>1 DEF Queued
<1>6. QueuedInv
  BY <1>5 DEF QueuedInv
<1>7. \A j \in Jobs : HeldBy(j) = {}
  BY JobConstants DEF HeldBy
<1>8. \A j \in Jobs : At(j, "outside")
  BY <1>5, <1>7 DEF At, Answers, Busy
<1>9. JobInv
  BY <1>8 DEF JobInv, Places
<1>10. UndefinedInv
  BY DEF UndefinedInv
<1>11. QED
  BY <1>2, <1>3, <1>4, <1>6, <1>9, <1>10 DEF SchedulerInv

\* The invariant under every step of submitters, workers, timer, clock and
\* destructor: types, rotations and deques, threads, and the place of each job.
THEOREM SchedulerInvariant == Spec => []SchedulerInv
<1>1. Init => SchedulerInv
  BY InitialState
<1>2. SchedulerInv /\ [Next]_vars => SchedulerInv'
  BY TypeStep, ThreadStep, QueuesStep, JobStep, UndefinedStep DEF SchedulerInv
<1>3. QED
  BY <1>1, <1>2, PTL DEF Spec

\* Enqueue, DequeueLocked and RemoveExpired keep groups_ and jobs_ in step.
\* Whatever fails, a group with jobs has its place in the rotation.  Unless an
\* Enqueue has failed after it pushed the group, the group has one place, and
\* only while it has jobs; a worker dequeues from a group without jobs in no
\* execution but one with such a failure.
THEOREM RotationAlwaysMatches == Spec => []RotationMatchesJobs
<1>1. ASSUME SchedulerInv
      PROVE  RotationMatchesJobs
  <2>1. ASSUME NEW p \in Priorities
        PROVE  RotationOf(p) /\ (p \notin torn => SoundRotation(p))
    BY <1>1 DEF SchedulerInv, RotationInv
  <2>2. ASSUME NEW p \in Priorities, NEW g \in Groups
        PROVE  /\ jobs[p][g] # <<>> => \E k \in DOMAIN groups[p] : groups[p][k] = g
               /\ \A k, m \in DOMAIN jobs[p][g] :
                     jobs[p][g][k] = jobs[p][g][m] => k = m
               /\ \A k \in DOMAIN jobs[p][g] :
                     Priority[jobs[p][g][k]] = p /\ Group[jobs[p][g][k]] = g
    <3>1. /\ jobs[p][g] # <<>> => InQueue(groups[p], g)
          /\ Distinct(jobs[p][g])
          /\ \A j : InQueue(jobs[p][g], j) => Priority[j] = p /\ Group[j] = g
      BY <2>1 DEF RotationOf
    <3>2. \A k \in DOMAIN jobs[p][g] : InQueue(jobs[p][g], jobs[p][g][k])
      BY DEF InQueue
    <3>3. \A k \in DOMAIN jobs[p][g] :
             Priority[jobs[p][g][k]] = p /\ Group[jobs[p][g][k]] = g
      BY <3>1, <3>2, Zenon
    <3>4. QED
      BY <3>1, <3>3, Zenon DEF InQueue, Distinct
  <2>3. ASSUME NEW p \in Priorities \ torn
        PROVE  /\ \A k, m \in DOMAIN groups[p] : groups[p][k] = groups[p][m] => k = m
               /\ \A k \in DOMAIN groups[p] : jobs[p][groups[p][k]] # <<>>
    <3>1. SoundRotation(p)
      BY <2>1
    <3>2. groups[p] \in Seq(Groups)
      BY <1>1 DEF SchedulerInv, TypeOK
    <3>3. \A k \in DOMAIN groups[p] : groups[p][k] \in Groups /\ InQueue(groups[p], groups[p][k])
      BY <3>2, EmptyQueue DEF InQueue
    <3>4. QED
      BY <3>1, <3>3 DEF SoundRotation, Distinct
  <2>4. mutex = "undefined" => torn # {}
    BY <1>1 DEF SchedulerInv, UndefinedInv
  <2>5. QED
    BY <2>2, <2>3, <2>4 DEF RotationMatchesJobs
<1>2. QED
  BY <1>1, SchedulerInvariant, PTL

\* StartLocked starts all threads or leaves none behind.
THEOREM ThreadsAllOrNone == Spec => []AllOrNoThreads
<1>1. SchedulerInv => AllOrNoThreads
  BY DEF SchedulerInv, ThreadInv, AllOrNoThreads
<1>2. QED
  BY <1>1, SchedulerInvariant, PTL

\* Submit, Run and ExpireQueued hand each accepted job on without losing or
\* copying it, and exactly one of its callbacks reports it.
THEOREM AnswersAreOne == Spec => []OneAnswer
<1>1. ASSUME JobInv
      PROVE  OneAnswer
  <2>1. ASSUME NEW j \in Jobs
        PROVE  /\ \A u, w \in HeldBy(j) : u = w
               /\ ~(Queued(j) /\ Busy(j))
               /\ ~(Queued(j) /\ j \in sweep)
               /\ ~(Busy(j) /\ j \in sweep)
    BY <1>1 DEF JobInv, At
  <2>2. ASSUME NEW j \in Jobs
        PROVE  LET waits == Queued(j) \/ Busy(j) \/ j \in sweep
               IN  \/ caller[j] # "accepted" /\ ~waits /\ answers[j] = <<>>
                   \/ caller[j] = "accepted" /\ waits /\ answers[j] = <<>>
                   \/ /\ caller[j] = "accepted"
                      /\ \E w \in HeldBy(j) : pc[w] = "failing"
                      /\ answers[j] = <<"operation">>
                   \/ /\ caller[j] = "accepted" /\ ~waits
                      /\ answers[j] \in {<<"operation">>, <<"operation", "failure">>,
                                         <<"expired">>}
    <3>1. PICK place \in Places : At(j, place)
      BY <1>1 DEF JobInv
    <3>2. CASE place = "failing"
      <4>1. HeldBy(j) # {} /\ \A w \in HeldBy(j) : pc[w] = "failing"
        BY <3>1, <3>2 DEF At, Busy
      <4>2. caller[j] = "accepted" /\ answers[j] = <<"operation">>
        BY <3>1, <3>2 DEF At, Answers
      <4>3. QED
        BY <4>1, <4>2
    <3>3. CASE place = "over"
      BY <3>1, <3>3 DEF At, Answers
    <3>4. CASE place = "outside"
      BY <3>1, <3>4 DEF At, Answers
    <3>5. CASE place \in {"queued", "operating", "swept"}
      BY <3>1, <3>5 DEF At, Answers
    <3>6. QED
      BY <3>2, <3>3, <3>4, <3>5 DEF Places
  <2>3. QED
    BY <2>1, <2>2 DEF OneAnswer
<1>2. QED
  BY <1>1, SchedulerInvariant, PTL DEF SchedulerInv

-----------------------------------------------------------------------------
(* The scheduler implements Admission.                                      *)

LEMMA StatusFacts ==
    ASSUME SchedulerInv, NEW j \in Jobs
    PROVE  /\ caller[j] \in {"idle", "starting", "joining"} => Status(j) = "idle"
           /\ Queued(j) \/ j \in sweep => Status(j) = "queued"
           /\ Busy(j) <=> Status(j) = "running"
           /\ (Queued(j) \/ j \in sweep \/ Busy(j)) => caller[j] = "accepted"
           /\ Busy(j) => ~Queued(j) /\ j \notin sweep
<1> USE DEF SchedulerInv
<1>1. PICK place \in Places : At(j, place)
  BY DEF JobInv
<1>2. place \in {"queued", "swept", "outside"} => answers[j] = <<>>
  BY <1>1 DEF At, Answers
<1>3. ASSUME Status(j) = "running", ~Busy(j)
      PROVE  FALSE
  <2>1. caller[j] \in {"idle", "starting", "joining", "accepted", "refused"}
    BY DEF TypeOK
  <2>2. caller[j] = "accepted" /\ answers[j] # <<>> /\ Status(j) = Ending[Last(answers[j])]
    BY <1>3, <2>1 DEF Status
  <2>3. place = "over"
    BY <1>1, <1>2, <1>3, <2>2 DEF At, Places
  <2>4. answers[j] \in {<<"operation">>, <<"operation", "failure">>, <<"expired">>}
    BY <1>1, <2>3 DEF At, Answers
  <2>5. Last(answers[j]) \in {"operation", "failure", "expired"}
    <3>1. /\ Last(<<"operation">>) = "operation"
          /\ Last(<<"operation", "failure">>) = "failure"
          /\ Last(<<"expired">>) = "expired"
      BY DEF Last
    <3>2. QED
      BY <2>4, <3>1
  <2>6. QED
    BY <1>3, <2>2, <2>5 DEF Ending
<1>4. QED
  BY <1>1, <1>2, <1>3 DEF At, Places, Status

\* What a step must leave alone for the status of a job to stay.
Keeps(j) ==
    /\ \/ caller'[j] = caller[j]
       \/ {caller'[j], caller[j]} \subseteq {"idle", "starting", "joining"}
    /\ \A w \in Workers : job'[w] = j <=> job[w] = j
    /\ answers'[j] = answers[j]

LEMMA KeptStatus ==
    ASSUME NEW j \in Jobs, Keeps(j)
    PROVE  Status(j)' = Status(j)
<1>1. HeldBy(j)' = HeldBy(j)
  BY DEF Keeps, HeldBy
<1>2. Busy(j)' <=> Busy(j)
  BY <1>1 DEF Busy
<1>3. CASE caller'[j] = caller[j]
  BY <1>2, <1>3 DEF Keeps, Status
<1>4. CASE {caller'[j], caller[j]} \subseteq {"idle", "starting", "joining"}
  <2>1. /\ caller'[j] \in {"idle", "starting", "joining"}
        /\ caller[j] \in {"idle", "starting", "joining"}
    BY <1>4
  <2>2. Status(j)' = "idle" /\ Status(j) = "idle"
    BY <2>1 DEF Status
  <2>3. QED
    BY <2>2
<1>5. QED
  BY <1>3, <1>4 DEF Keeps

LEMMA Stutters ==
    ASSUME UNCHANGED passed, \A j \in Jobs : Status(j)' = Status(j)
    PROVE  UNCHANGED Promise!vars
  BY DEF Promise!vars

LEMMA BecomesInPromise ==
    ASSUME NEW j \in Jobs, NEW from, NEW to, Status(j) = from, Status(j)' = to,
           \A k \in Jobs \ {j} : Status(k)' = Status(k), UNCHANGED passed
    PROVE  Promise!Becomes(j, from, to)
<1>1. [k \in Jobs |-> Status(k)]' = [[k \in Jobs |-> Status(k)] EXCEPT ![j] = to]
  OBVIOUS
<1>2. QED
  BY <1>1 DEF Promise!Becomes

\* While a worker is free, fewer conversions are in progress than there are
\* workers.
LEMMA CapacityLeft ==
    ASSUME SchedulerInv, NEW w \in Workers, job[w] = None
    PROVE  Cardinality({k \in Jobs : Status(k) = "running"}) < MaximumActive
<1> DEFINE R == {k \in Jobs : Status(k) = "running"}
           others == Workers \ {w}
           f == [k \in R |-> CHOOSE u \in Workers : job[u] = k]
<1>1. IsFiniteSet(R)
  BY AdmissionAssumption, FS_Subset
<1>2. ASSUME NEW k \in R
      PROVE  f[k] \in others /\ job[f[k]] = k
  <2>1. \E u \in Workers : job[u] = k
    BY StatusFacts DEF Busy, HeldBy
  <2>2. f[k] \in Workers /\ job[f[k]] = k
    BY <2>1
  <2>3. k # None
    BY JobConstants
  <2>4. QED
    BY <2>2, <2>3
<1>3. f \in [R -> others]
  BY <1>2
<1>4. IsFiniteSet(others) /\ Cardinality(others) = MaximumActive - 1
  <2>1. IsFiniteSet(Workers) /\ Cardinality(Workers) = MaximumActive
    BY ThreadSets, FS_Interval DEF Workers
  <2>2. QED
    BY <2>1, FS_RemoveElement
<1> HIDE DEF f, R, others
<1>5. ~(Cardinality(others) < Cardinality(R))
  <2>1. ASSUME Cardinality(others) < Cardinality(R)
        PROVE  \E x, y \in R : x # y /\ f[x] = f[y]
    BY <1>1, <1>3, <1>4, <2>1, FS_PigeonHole
  <2>2. QED
    BY <1>2, <2>1
<1>6. Cardinality(R) \in Nat /\ MaximumActive \in Nat
  BY <1>1, FS_CardinalityType, ThreadSets
<1>7. QED
  BY <1>4, <1>5, <1>6 DEF R

LEMMA AcceptIsSubmit ==
    ASSUME SchedulerInv, NEW j \in Jobs, caller[j] \in {"idle", "starting"}, Accept(j),
           UNCHANGED <<job, answers, passed>>
    PROVE  Promise!Submit(j)
<1> USE DEF SchedulerInv
<1>1. caller' = [caller EXCEPT ![j] = "accepted"]
  BY AcceptTyped
<1>2. Status(j) = "idle" /\ ~Busy(j)
  BY StatusFacts
<1>3. answers[j] = <<>>
  BY DEF JobInv, At, Answers, Places
<1>4. ~Busy(j)'
  BY <1>2 DEF Busy, HeldBy
<1>5. Status(j)' = "queued"
  BY <1>1, <1>3, <1>4 DEF Status, TypeOK
<1>6. \A k \in Jobs \ {j} : Status(k)' = Status(k)
  BY <1>1, KeptStatus DEF Keeps, TypeOK
<1>7. Promise!Becomes(j, "idle", "queued")
  BY <1>2, <1>5, <1>6, BecomesInPromise
<1>8. QED
  BY <1>7 DEF Promise!Submit

LEMMA RefuseIsSubmit ==
    ASSUME SchedulerInv, NEW j \in Jobs, caller[j] \in {"idle", "starting", "joining"},
           Refuse(j) \/ RefuseHalfWay(j), UNCHANGED <<job, answers, passed>>
    PROVE  Promise!Submit(j)
<1> USE DEF SchedulerInv
<1>1. caller' = [caller EXCEPT ![j] = "refused"]
  BY RefuseTyped
<1>2. Status(j) = "idle"
  BY StatusFacts
<1>3. Status(j)' = "refused"
  BY <1>1 DEF Status, TypeOK
<1>4. \A k \in Jobs \ {j} : Status(k)' = Status(k)
  BY <1>1, KeptStatus DEF Keeps, TypeOK
<1>5. Promise!Becomes(j, "idle", "refused")
  BY <1>2, <1>3, <1>4, BecomesInPromise
<1>6. QED
  BY <1>5 DEF Promise!Submit

LEMMA TakeIsStart ==
    ASSUME SchedulerInv, NEW w \in Workers, TakeJob(w)
    PROVE  \E j \in Jobs : Promise!Start(j)
<1> USE DEF SchedulerInv
<1>1. PICK p \in Priorities, g \in Groups, j \in Jobs : Takes(w, p, g, j)
  BY Dequeued DEF TakeJob
<1>2. job' = [job EXCEPT ![w] = j] /\ UNCHANGED <<caller, answers, passed>>
  BY <1>1 DEF Takes, TakeJob
<1>3. job[w] = None
  BY DEF TakeJob, ThreadInv
<1>4. Queued(j)
  <2>1. jobs[p][g] \in Seq(Jobs) /\ jobs[p][g] # <<>>
    BY <1>1 DEF Takes, TypeOK
  <2>2. InQueue(jobs[p][g], j)
    BY <1>1, <2>1, TailQueue DEF Takes
  <2>3. QED
    BY <1>1, <2>2 DEF Queued, InQueue, Takes
<1>5. Status(j) = "queued" /\ caller[j] = "accepted"
  BY <1>4, StatusFacts
<1>6. Busy(j)'
  BY <1>2 DEF Busy, HeldBy, TypeOK
<1>7. Status(j)' = "running"
  BY <1>2, <1>5, <1>6 DEF Status
<1>8. ASSUME NEW k \in Jobs \ {j}
      PROVE  Status(k)' = Status(k)
  <2>1. \A u \in Workers : job'[u] = k <=> job[u] = k
    BY <1>2, <1>3, JobConstants DEF TypeOK
  <2>2. QED
    BY <1>2, <2>1, KeptStatus DEF Keeps
<1>9. Promise!Becomes(j, "queued", "running")
  BY <1>2, <1>5, <1>7, <1>8, BecomesInPromise
<1>10. Cardinality({k \in Jobs : Status(k) = "running"}) < MaximumActive
  BY <1>3, CapacityLeft
<1>11. {k \in Jobs : [i \in Jobs |-> Status(i)][k] = "running"}
          = {k \in Jobs : Status(k) = "running"}
  OBVIOUS
<1>12. Promise!Cardinality({k \in Jobs : Status(k) = "running"})
          = Cardinality({k \in Jobs : Status(k) = "running"})
  BY Zenon DEF Cardinality, Promise!Cardinality
<1>13. Promise!Start(j)
  BY <1>9, <1>10, <1>11, <1>12 DEF Promise!Start
<1>14. QED
  BY <1>13

LEMMA OperationFinishes ==
    ASSUME SchedulerInv, NEW w \in Workers, Operate(w) \/ ReportFailure(w)
    PROVE  (\E j \in Jobs : Promise!Finish(j)) \/ UNCHANGED Promise!vars
<1> USE DEF SchedulerInv
<1>1. PICK j \in Jobs : j = job[w]
  BY DEF Operate, ReportFailure, ThreadInv, TypeOK
<1>2. UNCHANGED <<caller, passed>>
  BY DEF Operate, ReportFailure
<1>3. w \in HeldBy(j) /\ Status(j) = "running" /\ caller[j] = "accepted"
      /\ At(j, pc[w])
  <2>1. w \in HeldBy(j)
    BY <1>1 DEF HeldBy
  <2>2. Busy(j)
    BY <2>1 DEF Busy
  <2>3. PICK place \in Places : At(j, place)
    BY DEF JobInv
  <2>4. At(j, pc[w])
    BY <2>1, <2>3 DEF At
  <2>5. QED
    BY <2>1, <2>2, <2>4, StatusFacts
<1>4. \A u \in Workers : job[u] = j => u = w
  BY <1>3 DEF At, HeldBy
<1>5. ASSUME NEW k \in Jobs \ {j}, NEW callback, Answer(j, callback),
             job' = [job EXCEPT ![w] = None] \/ job' = job
      PROVE  Status(k)' = Status(k)
  <2>1. \A u \in Workers : job'[u] = k <=> job[u] = k
    BY <1>1, <1>5, JobConstants DEF TypeOK
  <2>2. answers'[k] = answers[k]
    BY <1>5 DEF Answer, TypeOK
  <2>3. QED
    BY <1>2, <2>1, <2>2, KeptStatus DEF Keeps
<1>6. ASSUME NEW a, answers[j] = a, NEW callback, Answer(j, callback)
      PROVE  answers'[j] = Append(a, callback)
  BY <1>6 DEF Answer, TypeOK
<1>7. ASSUME job' = [job EXCEPT ![w] = None]
      PROVE  ~Busy(j)'
  BY <1>4, <1>7, JobConstants DEF Busy, HeldBy, TypeOK
<1>8. CASE Operate(w)
  <2>1. answers[j] = <<>> /\ Answer(j, "operation") /\ pc[w] = "operating"
    BY <1>1, <1>3, <1>8 DEF Operate, At, Answers
  <2>2. CASE job' = [job EXCEPT ![w] = None]
    <3>1. answers'[j] = <<"operation">>
      BY <1>6, <2>1
    <3>2. Last(<<"operation">>) = "operation"
      BY DEF Last
    <3>3. Status(j)' = "done"
      BY <1>2, <1>3, <1>7, <2>2, <3>1, <3>2 DEF Status, Ending
    <3>4. Promise!Becomes(j, "running", "done")
      BY <1>2, <1>3, <1>5, <2>1, <2>2, <3>3, BecomesInPromise
    <3>5. QED
      BY <3>4 DEF Promise!Finish
  <2>3. CASE UNCHANGED job
    <3>1. Busy(j) /\ Busy(j)'
      BY <1>3, <2>3 DEF Busy, HeldBy
    <3>2. Status(j)' = Status(j)
      BY <1>2, <1>3, <3>1 DEF Status
    <3>3. QED
      BY <1>2, <1>5, <2>1, <2>3, <3>2, Stutters
  <2>4. QED
    BY <1>8, <2>2, <2>3 DEF Operate
<1>9. CASE ReportFailure(w)
  <2>1. /\ answers[j] = <<"operation">> /\ Answer(j, "failure")
        /\ job' = [job EXCEPT ![w] = None]
    BY <1>1, <1>3, <1>9 DEF ReportFailure, At, Answers
  <2>2. answers'[j] = <<"operation", "failure">>
    <3>1. Append(<<"operation">>, "failure") = <<"operation", "failure">>
      <4>1. {"operation", "failure"} \subseteq Callbacks
        BY DEF Callbacks
      <4>2. QED
        BY <4>1, AppendedToOne, Zenon
    <3>2. answers'[j] = Append(<<"operation">>, "failure")
      BY <1>6, <2>1, Zenon
    <3>3. QED
      BY <3>1, <3>2
  <2>3. Last(<<"operation", "failure">>) = "failure"
    BY DEF Last
  <2>4. Status(j)' = "failed"
    BY <1>2, <1>3, <1>7, <2>1, <2>2, <2>3 DEF Status, Ending
  <2>5. Promise!Becomes(j, "running", "failed")
    BY <1>2, <1>3, <1>5, <2>1, <2>4, BecomesInPromise
  <2>6. QED
    BY <2>5 DEF Promise!Finish
<1>10. QED
  BY <1>8, <1>9

LEMMA ReportIsExpire ==
    ASSUME SchedulerInv, NEW j \in Jobs, CallExpired(j)
    PROVE  Promise!Expire(j)
<1> USE DEF SchedulerInv
<1>1. /\ j \in sweep /\ Answer(j, "expired") /\ UNCHANGED <<job, caller, passed>>
  BY DEF CallExpired
<1>2. Status(j) = "queued" /\ caller[j] = "accepted" /\ ~Busy(j) /\ passed[j]
  BY <1>1, StatusFacts DEF QueuedInv
<1>3. answers[j] = <<>>
  BY <1>1 DEF JobInv, At, Answers
<1>4. answers'[j] = <<"expired">>
  BY <1>1, <1>3 DEF Answer, TypeOK
<1>5. ~Busy(j)' /\ Last(<<"expired">>) = "expired"
  BY <1>1, <1>2 DEF Busy, HeldBy, Last
<1>6. Status(j)' = "expired"
  BY <1>1, <1>2, <1>4, <1>5 DEF Status, Ending
<1>7. \A k \in Jobs \ {j} : Status(k)' = Status(k)
  BY <1>1, KeptStatus DEF Keeps, Answer, TypeOK
<1>8. Promise!Becomes(j, "queued", "expired")
  BY <1>1, <1>2, <1>6, <1>7, BecomesInPromise
<1>9. QED
  BY <1>2, <1>8 DEF Promise!Expire

LEMMA StepRefines ==
    ASSUME SchedulerInv, [Next]_vars
    PROVE  [Promise!Next]_(Promise!vars)
<1> USE ThreadSets DEF queues, startup, expiry, SchedulerInv
<1>1. ASSUME UNCHANGED <<job, answers, passed>>,
             \/ UNCHANGED caller
             \/ \E j \in Jobs, x \in {"starting", "joining"} :
                   /\ caller[j] \in {"idle", "starting"}
                   /\ caller' = [caller EXCEPT ![j] = x]
      PROVE  UNCHANGED Promise!vars
  <2>1. \A k \in Jobs : Keeps(k)
    BY <1>1 DEF Keeps, TypeOK
  <2>2. QED
    BY <1>1, <2>1, KeptStatus, Stutters
<1>2. ASSUME NEW j \in Jobs, Submit(j)
      PROVE  Promise!Submit(j) \/ UNCHANGED Promise!vars
  <2>1. caller[j] = "idle" /\ UNCHANGED <<job, answers, passed>>
    BY <1>2 DEF Submit
  <2>2. CASE Accept(j)
    BY <2>1, <2>2, AcceptIsSubmit
  <2>3. CASE Refuse(j) \/ RefuseHalfWay(j)
    BY <2>1, <2>3, RefuseIsSubmit
  <2>4. CASE caller' = [caller EXCEPT ![j] = "starting"]
    BY <1>1, <2>1, <2>4
  <2>5. QED
    BY <1>2, <2>2, <2>3, <2>4 DEF Submit
<1>3. ASSUME NEW j \in Jobs, StartupSucceeds(j)
      PROVE  Promise!Submit(j)
  <2>1. caller[j] = "starting" /\ UNCHANGED <<job, answers, passed>>
    BY <1>3 DEF StartupSucceeds
  <2>2. QED
    BY <1>3, <2>1, AcceptIsSubmit, RefuseIsSubmit DEF StartupSucceeds
<1>4. ASSUME NEW j \in Jobs, StartupUndone(j)
      PROVE  Promise!Submit(j)
  BY <1>4, RefuseIsSubmit DEF StartupUndone
<1>5. ASSUME NEW j \in Jobs, Spawn(j) \/ StartupFails(j)
      PROVE  UNCHANGED Promise!vars
  BY <1>1, <1>5 DEF Spawn, StartupFails
<1>6. ASSUME NEW j \in Jobs, DeadlinePasses(j)
      PROVE  Promise!Pass(j)
  <2>1. passed' = [passed EXCEPT ![j] = TRUE] /\ UNCHANGED <<job, answers, caller>>
    BY <1>6 DEF DeadlinePasses
  <2>2. \A k \in Jobs : Status(k)' = Status(k)
    BY <2>1, KeptStatus DEF Keeps
  <2>3. [k \in Jobs |-> Status(k)]' = [k \in Jobs |-> Status(k)]
    BY <2>2
  <2>4. QED
    BY <2>1, <2>3 DEF Promise!Pass
<1>7. ASSUME NEW w \in Workers, WorkerStep(w) \/ WakeSpuriously(w)
      PROVE  \/ \E j \in Jobs : Promise!Start(j) \/ Promise!Finish(j)
             \/ UNCHANGED Promise!vars
  <2>1. CASE PassGate(w) \/ DequeueNothing(w) \/ FindNoJob(w) \/ WakeSpuriously(w)
    BY <1>1, <2>1 DEF PassGate, DequeueNothing, FindNoJob, WakeSpuriously
  <2>2. CASE TakeJob(w)
    BY <2>2, TakeIsStart
  <2>3. CASE Operate(w) \/ ReportFailure(w)
    BY <2>3, OperationFinishes
  <2>4. QED
    BY <1>7, <2>1, <2>2, <2>3 DEF WorkerStep
<1>8. ASSUME TimerStep
      PROVE  (\E j \in Jobs : Promise!Expire(j)) \/ UNCHANGED Promise!vars
  <2>1. CASE PassGate(Timer) \/ BeginSweep
    BY <1>1, <2>1 DEF PassGate, BeginSweep
  <2>2. ASSUME NEW j \in Jobs, EraseExpired(j)
        PROVE  UNCHANGED Promise!vars
    BY <1>1, <2>2 DEF EraseExpired
  <2>3. ASSUME NEW j \in Jobs, CallExpired(j)
        PROVE  Promise!Expire(j)
    BY <2>3, ReportIsExpire
  <2>4. QED
    BY <1>8, <2>1, <2>2, <2>3 DEF TimerStep
<1>9. CASE BeginStop \/ StopStep \/ UNCHANGED vars
  BY <1>1, <1>9 DEF BeginStop, StopStep, NotifyStop, Join, vars
<1>10. QED
  BY <1>2, <1>3, <1>4, <1>5, <1>6, <1>7, <1>8, <1>9
     DEF Next, StartStep, Promise!Next

\* The scheduler does only what Admission allows, whatever the interleaving:
\* at most MaximumActive conversions at once, each started at most once and
\* only while accepted, none expired before its deadline or after its start.
THEOREM SchedulerImplementsAdmission == Spec => ImplementsAdmission
<1>1. Init => Promise!Init
  <2>1. ASSUME Init, NEW j \in Jobs
        PROVE  Status(j) = "idle"
    BY <2>1 DEF Init, Status
  <2>2. QED
    BY <2>1 DEF Init, Promise!Init
<1>2. SchedulerInv /\ [Next]_vars => [Promise!Next]_(Promise!vars)
  BY StepRefines
<1>3. QED
  BY <1>1, <1>2, SchedulerInvariant, PTL DEF Spec, ImplementsAdmission, Promise!Spec

-----------------------------------------------------------------------------
(* The rotation is fair.                                                    *)

\* A group at place k has k - 1 groups to wait for: what it has waited and what
\* it has to wait never exceed the number of groups.
FairTo(p, g) ==
    /\ bypassed[p][g] < Cardinality(Groups)
    /\ \A k \in DOMAIN groups[p] :
          groups[p][k] = g => bypassed[p][g] + k <= Cardinality(Groups)

FairInv == \A p \in Priorities \ torn, g \in Groups : FairTo(p, g)

\* In the queues that a step leaves alone nothing changes for the groups.
LEMMA FairElsewhere ==
    ASSUME FairInv, NEW p \in Priorities,
           \A q \in Priorities \ {p} :
              groups'[q] = groups[q] /\ bypassed'[q] = bypassed[q],
           torn \subseteq torn',
           p \notin torn' => \A g \in Groups : FairTo(p, g)'
    PROVE  FairInv'
<1>1. ASSUME NEW q \in Priorities \ torn', NEW g \in Groups, q # p
      PROVE  FairTo(q, g)'
  <2>1. q \notin torn /\ FairTo(q, g)
    BY <1>1 DEF FairInv
  <2>2. groups'[q] = groups[q] /\ bypassed'[q] = bypassed[q]
    BY <1>1
  <2>3. QED
    BY <2>1, <2>2 DEF FairTo
<1>2. QED
  BY <1>1 DEF FairInv

LEMMA GroupCount ==
    ASSUME NEW g \in Groups
    PROVE  Cardinality(Groups) \in Nat \ {0}
  BY AdmissionAssumption, FS_CardinalityType, FS_EmptySet

\* A queue that grows keeps its entries where they are.
LEMMA AppendPlaces ==
    ASSUME NEW S, NEW q \in Seq(S), NEW e \in S
    PROVE  /\ DOMAIN Append(q, e) = 1 .. Len(q) + 1 /\ DOMAIN q = 1 .. Len(q)
           /\ Len(Append(q, e)) = Len(q) + 1 /\ Len(q) \in Nat
           /\ Append(q, e)[Len(q) + 1] = e
           /\ \A k \in 1 .. Len(q) : Append(q, e)[k] = q[k]
  BY AppendProperties, LenProperties

\* The head leaves, and the others move up by one place.
LEMMA TailPlaces ==
    ASSUME NEW S, NEW q \in Seq(S), q # <<>>
    PROVE  /\ DOMAIN Tail(q) = 1 .. Len(q) - 1 /\ DOMAIN q = 1 .. Len(q)
           /\ Len(q) \in Nat \ {0} /\ Head(q) = q[1]
           /\ \A k \in 1 .. Len(q) - 1 : Tail(q)[k] = q[k + 1]
  BY HeadTailProperties, LenProperties, EmptySeq

LEMMA AcceptIsFair ==
    ASSUME TypeOK, RotationInv, RotationInv', FairInv, NEW j \in Jobs, Accept(j)
    PROVE  FairInv'
<1> DEFINE N == Cardinality(Groups)
<1>1. PICK p \in Priorities : p = Priority[j]
  BY JobConstants
<1>2. PICK g \in Groups : g = Group[j]
  BY JobConstants
<1>3. /\ groups' = [groups EXCEPT ![p] = IF JoinsRotation(p, g) THEN Append(@, g) ELSE @]
      /\ bypassed' = [bypassed EXCEPT ![p][g] = IF jobs[p][g] = <<>> THEN 0 ELSE @]
      /\ torn' = torn
  BY <1>1, <1>2 DEF Accept
<1>4. \A q \in Priorities \ {p} : groups'[q] = groups[q] /\ bypassed'[q] = bypassed[q]
  BY <1>3 DEF TypeOK
<1>5. ASSUME p \notin torn, NEW h \in Groups
      PROVE  FairTo(p, h)'
  <2>1. SoundRotation(p) /\ SoundRotation(p)' /\ FairTo(p, h)
    BY <1>3, <1>5 DEF RotationInv, FairInv
  <2>2. CASE jobs[p][g] # <<>>
    <3>1. groups'[p] = groups[p] /\ bypassed'[p] = bypassed[p]
      BY <1>3, <2>2 DEF JoinsRotation, TypeOK
    <3>2. QED
      BY <2>1, <3>1 DEF FairTo
  <2>3. CASE jobs[p][g] = <<>>
    <3>1. groups[p] \in Seq(Groups) /\ N \in Nat \ {0}
      BY GroupCount DEF TypeOK
    <3>2. JoinsRotation(p, g)
      BY <2>1, <2>3 DEF JoinsRotation, SoundRotation
    <3>3. groups'[p] = Append(groups[p], g) /\ groups'[p] \in Seq(Groups)
      BY <1>3, <3>1, <3>2, AppendQueue DEF TypeOK
    <3>4. Len(groups[p]) + 1 <= N
      <4>1. Len(groups'[p]) = Len(groups[p]) + 1
        BY <3>1, <3>3, AppendPlaces
      <4>2. Distinct(groups'[p])
        BY <2>1 DEF SoundRotation
      <4>3. Len(groups'[p]) <= N
        BY <3>3, <4>2, QueueLength, AdmissionAssumption
      <4>4. QED
        BY <4>1, <4>3
    <3>5. bypassed'[p][h] = IF h = g THEN 0 ELSE bypassed[p][h]
      BY <1>3, <2>3 DEF TypeOK
    <3>6. ASSUME NEW k \in DOMAIN groups'[p], groups'[p][k] = h
          PROVE  bypassed'[p][h] + k <= N
      <4>1. CASE h = g
        <5>1. k \in 1 .. Len(groups[p]) + 1 /\ Len(groups[p]) \in Nat
          BY <3>1, <3>3, <3>6, AppendPlaces
        <5>2. QED
          BY <3>1, <3>4, <3>5, <4>1, <5>1
      <4>2. CASE h # g
        <5>1. k \in DOMAIN groups[p] /\ groups[p][k] = h
          BY <3>1, <3>3, <3>6, <4>2, AppendPlaces
        <5>2. QED
          BY <2>1, <3>5, <4>2, <5>1 DEF FairTo
      <4>3. QED
        BY <4>1, <4>2
    <3>7. bypassed'[p][h] < N
      BY <2>1, <3>1, <3>5 DEF FairTo
    <3>8. QED
      BY <3>6, <3>7 DEF FairTo
  <2>4. QED
    BY <2>2, <2>3
<1>6. QED
  BY <1>3, <1>4, <1>5, FairElsewhere

LEMMA TakeIsFair ==
    ASSUME TypeOK, RotationInv, RotationInv', FairInv, NEW w \in Workers, TakeJob(w)
    PROVE  FairInv'
<1> DEFINE N == Cardinality(Groups)
<1>1. PICK p \in Priorities, g \in Groups, j \in Jobs : Takes(w, p, g, j)
  BY Dequeued DEF TakeJob
<1>2. /\ groups[p] # <<>> /\ g = Head(groups[p])
      /\ groups' = [groups EXCEPT ![p] = Turn(p, g)]
      /\ bypassed' = [bypassed EXCEPT ![p] = [h \in Groups |->
             IF h = g \/ jobs[p][h] = <<>> THEN 0 ELSE bypassed[p][h] + 1]]
      /\ torn' = torn
  BY <1>1 DEF Takes
<1>3. groups[p] \in Seq(Groups) /\ N \in Nat \ {0} /\ bypassed \in [Priorities -> [Groups -> Nat]]
  BY GroupCount DEF TypeOK
<1>4. Tail(groups[p]) \in Seq(Groups)
  BY <1>2, <1>3, TailQueue
<1>5. groups'[p] = Turn(p, g) /\ Turn(p, g) \in Seq(Groups)
  BY <1>2, TurnTyped DEF TypeOK
<1>6. ASSUME p \notin torn
      PROVE  Len(groups[p]) <= N
  BY <1>3, <1>6, QueueLength, AdmissionAssumption DEF RotationInv, SoundRotation
<1>7. ASSUME p \notin torn, NEW h \in Groups \ {g}, NEW k \in 1 .. Len(groups[p]) - 1,
             Tail(groups[p])[k] = h
      PROVE  bypassed[p][h] + 1 + k <= N
  <2>1. k + 1 \in DOMAIN groups[p] /\ groups[p][k + 1] = h
    BY <1>2, <1>3, <1>7, TailPlaces
  <2>2. bypassed[p][h] + (k + 1) <= N
    <3>1. FairTo(p, h)
      BY <1>7 DEF FairInv
    <3>2. QED
      BY <2>1, <3>1 DEF FairTo
  <2>3. bypassed[p][h] \in Nat
    BY <1>3
  <2>4. k \in Nat
    BY <1>2, <1>3, TailPlaces
  <2>5. QED
    BY <1>3, <2>2, <2>3, <2>4
<1>8. ASSUME NEW k \in DOMAIN groups'[p]
      PROVE  /\ k \in 1 .. Len(groups[p])
             /\ \/ k \in 1 .. Len(groups[p]) - 1 /\ groups'[p][k] = Tail(groups[p])[k]
                \/ groups'[p][k] = g
  <2>1. CASE Turn(p, g) = Tail(groups[p])
    <3>1. DOMAIN Tail(groups[p]) = 1 .. Len(groups[p]) - 1 /\ Len(groups[p]) \in Nat
      BY <1>2, <1>3, TailPlaces
    <3>2. k \in 1 .. Len(groups[p]) - 1
      BY <1>5, <1>8, <2>1, <3>1
    <3>3. QED
      BY <1>5, <2>1, <3>1, <3>2
  <2>2. CASE Turn(p, g) = Append(Tail(groups[p]), g)
    <3>1. Len(Tail(groups[p])) = Len(groups[p]) - 1 /\ Len(groups[p]) \in Nat \ {0}
      BY <1>2, <1>3, <1>4, TailPlaces, LenProperties
    <3>2. DOMAIN Turn(p, g) = 1 .. Len(groups[p])
      BY <1>4, <2>2, <3>1, AppendPlaces
    <3>3. \A i \in 1 .. Len(groups[p]) - 1 : Turn(p, g)[i] = Tail(groups[p])[i]
      BY <1>4, <2>2, <3>1, AppendPlaces
    <3>4. Turn(p, g)[Len(groups[p])] = g
      BY <1>4, <2>2, <3>1, AppendPlaces
    <3>5. k = Len(groups[p]) \/ k \in 1 .. Len(groups[p]) - 1
      BY <1>5, <1>8, <3>1, <3>2
    <3>6. QED
      BY <1>5, <1>8, <3>2, <3>3, <3>4, <3>5
  <2>3. QED
    BY <2>1, <2>2 DEF Turn
<1>9. ASSUME NEW h \in Groups
      PROVE  bypassed'[p][h] = IF h = g \/ jobs[p][h] = <<>> THEN 0 ELSE bypassed[p][h] + 1
  BY <1>2, <1>3
<1>10. ASSUME p \notin torn, NEW h \in Groups
       PROVE  bypassed'[p][h] < N
  <2>1. CASE h = g \/ jobs[p][h] = <<>>
    BY <1>3, <1>9, <2>1
  <2>2. CASE h # g /\ jobs[p][h] # <<>>
    <3>1. InQueue(groups[p], h)
      BY <2>2 DEF RotationInv, RotationOf
    <3>2. InQueue(Tail(groups[p]), h)
      BY <1>2, <1>3, <2>2, <3>1, TailOthers
    <3>3. PICK k \in 1 .. Len(groups[p]) - 1 : Tail(groups[p])[k] = h
      BY <1>2, <1>3, <3>2, TailPlaces DEF InQueue
    <3>4. bypassed[p][h] + 1 + k <= N /\ k >= 1 /\ k \in Int
      BY <1>2, <1>3, <1>7, <1>10, <2>2, <3>3, TailPlaces
    <3>5. bypassed[p][h] \in Nat
      BY <1>3
    <3>6. bypassed'[p][h] = bypassed[p][h] + 1
      BY <1>9, <2>2
    <3>7. QED
      BY <1>3, <3>4, <3>5, <3>6
  <2>3. QED
    BY <2>1, <2>2
<1>11. ASSUME p \notin torn, NEW h \in Groups, NEW k \in DOMAIN groups'[p],
              groups'[p][k] = h
       PROVE  bypassed'[p][h] + k <= N
  <2>1. k \in 1 .. Len(groups[p]) /\ Len(groups[p]) \in Nat
    BY <1>2, <1>3, <1>8, TailPlaces
  <2>2. CASE h = g \/ jobs[p][h] = <<>>
    BY <1>3, <1>6, <1>9, <1>11, <2>1, <2>2
  <2>3. CASE h # g /\ jobs[p][h] # <<>>
    <3>1. k \in 1 .. Len(groups[p]) - 1 /\ Tail(groups[p])[k] = h
      BY <1>8, <1>11, <2>3
    <3>2. bypassed[p][h] + 1 + k <= N
      BY <1>7, <1>11, <2>3, <3>1
    <3>3. QED
      BY <1>9, <2>3, <3>2
  <2>4. QED
    BY <2>2, <2>3
<1>12. \A q \in Priorities \ {p} : groups'[q] = groups[q] /\ bypassed'[q] = bypassed[q]
  BY <1>2, <1>3 DEF TypeOK
<1>13. ASSUME p \notin torn, NEW h \in Groups
       PROVE  FairTo(p, h)'
  BY <1>10, <1>11, <1>13 DEF FairTo
<1>14. QED
  BY <1>2, <1>12, <1>13, FairElsewhere

\* A group that leaves the rotation lets the others move up.
LEMMA PurgedIsFair ==
    ASSUME TypeOK, NEW p \in Priorities, NEW g \in Groups, FairTo(p, g),
           NEW G, groups'[p] = Purged(groups[p], G), UNCHANGED bypassed
    PROVE  FairTo(p, g)'
<1> DEFINE N == Cardinality(Groups)
<1>1. groups[p] \in Seq(Groups)
  BY DEF TypeOK
<1>2. /\ groups'[p] \in Seq(Groups)
      /\ \A k \in DOMAIN groups'[p] :
            \E m \in DOMAIN groups[p] : m >= k /\ groups[p][m] = groups'[p][k]
  BY <1>1, PurgedQueue
<1>3. ASSUME NEW k \in DOMAIN groups'[p], groups'[p][k] = g
      PROVE  bypassed[p][g] + k <= N
  <2>1. PICK m \in DOMAIN groups[p] : m >= k /\ groups[p][m] = g
    BY <1>2, <1>3
  <2>2. bypassed[p][g] + m <= N
    BY <2>1 DEF FairTo
  <2>3. m \in Nat /\ k \in Nat
    <3>1. DOMAIN groups[p] = 1 .. Len(groups[p]) /\ DOMAIN groups'[p] = 1 .. Len(groups'[p])
      BY <1>1, <1>2, LenProperties
    <3>2. QED
      BY <1>3, <2>1, <3>1
  <2>4. bypassed[p][g] \in Nat /\ N \in Nat
    BY GroupCount DEF TypeOK
  <2>5. QED
    BY <2>1, <2>2, <2>3, <2>4
<1>4. QED
  BY <1>3 DEF FairTo

LEMMA EraseIsFair ==
    ASSUME TypeOK, FairInv, NEW j \in Jobs, EraseExpired(j)
    PROVE  FairInv'
<1>1. PICK p \in Priorities : p = Priority[j]
  BY JobConstants
<1>2. PICK g \in Groups : g = Group[j]
  BY JobConstants
<1>3. UNCHANGED <<bypassed, torn>>
  BY DEF EraseExpired
<1>4. groups' = groups \/ groups' = [groups EXCEPT ![p] = Purged(@, {g})]
  BY <1>1, <1>2 DEF EraseExpired, TypeOK
<1>5. CASE groups' = groups
  BY <1>3, <1>5 DEF FairInv, FairTo
<1>6. CASE groups' = [groups EXCEPT ![p] = Purged(@, {g})]
  <2>1. /\ groups'[p] = Purged(groups[p], {g})
        /\ \A q \in Priorities \ {p} : groups'[q] = groups[q]
    BY <1>6 DEF TypeOK
  <2>2. ASSUME p \notin torn, NEW h \in Groups
        PROVE  FairTo(p, h)'
    BY <1>3, <2>1, <2>2, PurgedIsFair DEF FairInv
  <2>3. QED
    BY <1>3, <2>1, <2>2, FairElsewhere
<1>7. QED
  BY <1>4, <1>5, <1>6

LEMMA SweepIsFair ==
    ASSUME TypeOK, FairInv, BeginSweep
    PROVE  FairInv'
<1>1. UNCHANGED <<bypassed, torn>>
  BY DEF BeginSweep
<1>2. \/ groups' = groups
      \/ groups' = [p \in Priorities |-> Purged(groups[p], HollowGroups(p))]
  BY DEF BeginSweep
<1>3. CASE groups' = groups
  BY <1>1, <1>3 DEF FairInv, FairTo
<1>4. CASE groups' = [p \in Priorities |-> Purged(groups[p], HollowGroups(p))]
  <2>1. ASSUME NEW p \in Priorities \ torn, NEW g \in Groups
        PROVE  FairTo(p, g)'
    <3>1. FairTo(p, g) /\ groups'[p] = Purged(groups[p], HollowGroups(p))
      BY <1>4 DEF FairInv
    <3>2. QED
      BY <1>1, <3>1, PurgedIsFair
  <2>2. QED
    BY <1>1, <2>1 DEF FairInv
<1>5. QED
  BY <1>2, <1>3, <1>4

\* A queue whose Enqueue fails half way is out of the promise.
LEMMA TornIsFair ==
    ASSUME TypeOK, FairInv, NEW j \in Jobs, RefuseHalfWay(j)
    PROVE  FairInv'
<1>1. PICK p \in Priorities : p = Priority[j]
  BY JobConstants
<1>2. /\ \A q \in Priorities \ {p} : groups'[q] = groups[q] /\ bypassed'[q] = bypassed[q]
      /\ torn' = torn \cup {p}
  BY <1>1 DEF RefuseHalfWay, TypeOK
<1>3. QED
  BY <1>2, FairElsewhere

LEMMA FairStep ==
    ASSUME SchedulerInv, SchedulerInv', FairInv, [Next]_vars
    PROVE  FairInv'
<1> USE DEF SchedulerInv, queues
<1>1. ASSUME UNCHANGED <<groups, bypassed, torn>>
      PROVE  FairInv'
  BY <1>1 DEF FairInv, FairTo
<1>2. ASSUME NEW j \in Jobs, Submit(j) \/ StartupSucceeds(j)
      PROVE  FairInv'
  <2>1. Accept(j) \/ RefuseHalfWay(j) \/ UNCHANGED <<groups, bypassed, torn>>
    BY <1>2 DEF Submit, StartupSucceeds, Refuse
  <2>2. QED
    BY <1>1, <2>1, AcceptIsFair, TornIsFair
<1>3. ASSUME NEW j \in Jobs,
             \/ Spawn(j) \/ StartupFails(j) \/ StartupUndone(j)
             \/ DeadlinePasses(j) \/ CallExpired(j)
      PROVE  FairInv'
  BY <1>1, <1>3 DEF Spawn, StartupFails, StartupUndone, Refuse, DeadlinePasses, CallExpired
<1>4. ASSUME NEW t \in Threads, PassGate(t)
      PROVE  FairInv'
  BY <1>1, <1>4 DEF PassGate
<1>5. ASSUME NEW w \in Workers,
             \/ DequeueNothing(w) \/ FindNoJob(w) \/ WakeSpuriously(w)
             \/ Operate(w) \/ ReportFailure(w)
      PROVE  FairInv'
  BY <1>1, <1>5 DEF DequeueNothing, FindNoJob, WakeSpuriously, Operate, ReportFailure
<1>6. CASE BeginStop \/ NotifyStop \/ Join \/ UNCHANGED vars
  BY <1>1, <1>6 DEF BeginStop, NotifyStop, Join, vars
<1>7. QED
  BY <1>2, <1>3, <1>4, <1>5, <1>6, TakeIsFair, EraseIsFair, SweepIsFair, ThreadSets
     DEF Next, StartStep, WorkerStep, TimerStep, StopStep

\* DequeueLocked serves the first group of the rotation and puts it behind the
\* others, and neither Enqueue nor RemoveExpired moves a waiting group back: no
\* group waits while others are served as often as there are groups.
THEOREM RotationAlwaysFair == Spec => []RotationIsFair
<1>1. Init => FairInv
  <2>1. ASSUME Init, NEW p \in Priorities, NEW g \in Groups
        PROVE  bypassed[p][g] = 0 /\ groups[p] = <<>>
    BY <2>1 DEF Init
  <2>2. DOMAIN <<>> = {}
    OBVIOUS
  <2>3. QED
    BY <2>1, <2>2, GroupCount DEF FairInv, FairTo
<1>2. SchedulerInv /\ SchedulerInv' /\ FairInv /\ [Next]_vars => FairInv'
  BY FairStep
<1>3. FairInv => RotationIsFair
  BY DEF FairInv, FairTo, RotationIsFair
<1>4. QED
  BY <1>1, <1>2, <1>3, SchedulerInvariant, PTL DEF Spec
=============================================================================
