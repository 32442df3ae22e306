------------------------- MODULE AdmissionAppleProofs -------------------------
(***************************************************************************)
(* Proofs about the Apple admission scheduler, for any submissions, any    *)
(* maximum and any job numbers that outlast the jobs: the rotations match  *)
(* the queues although numbers are used again, no capacity is lost or      *)
(* exceeded, and the scheduler implements Admission.                       *)
(***************************************************************************)
EXTENDS AdmissionApple, QueueLemmas, FiniteSetTheorems

\* The rotation and the queues of one priority, in the words of QueueLemmas.
RotationOf(p) ==
    /\ Distinct(groups[p])
    /\ \A g \in Groups :
          /\ InQueue(groups[p], g) <=> jobs[p][g] # <<>>
          /\ Distinct(jobs[p][g])
          /\ \A j : InQueue(jobs[p][g], j) => Priority[j] = p /\ Group[j] = g

RotationInv == \A p \in Priorities : RotationOf(p)

\* The jobs that got numbers; these are different.
Numbered == NumberedIn(Jobs, id)

NumbersInv == RecentNumbers(Jobs, id, nextJob, IdLimit)

Block(kind, j) == [kind |-> kind, job |-> j]

Waits(kind, j) == InQueue(blocks, Block(kind, j))

\* No block is put into stateQueue twice, and a timer's block is that of a job
\* with a number whose deadline has passed.
BlocksInv ==
    /\ Distinct(blocks)
    /\ \A j \in Jobs :
          /\ Waits("timer", j) \/ j \in timers => j \in Numbered
          /\ Waits("timer", j) => passed[j] /\ j \notin timers

\* Where a submission is.
Places == {"new", "sent", "queued", "handed", "finishing", "over"}

Answers(place) ==
    CASE place = "finishing" -> {<<"operation">>}
      [] place = "over" -> {<<what>> : what \in Outcomes}
      [] OTHER -> {<<>>}

Handed(j) == {what \in Outcomes : <<j, what>> \in handed}

At(j, place) ==
    /\ j \in sent <=> place # "new"
    /\ Waits("submit", j) <=> place = "sent"
    /\ Queued(j) <=> place = "queued"
    /\ Handed(j) # {} <=> place = "handed"
    /\ \A a, b \in Handed(j) : a = b
    /\ Waits("finished", j) <=> place = "finishing"
    /\ answers[j] \in Answers(place)
    /\ place \in {"new", "sent"} => j \notin Numbered
    /\ place = "queued" => j \in Numbered

PlaceInv == \A j \in Jobs : \E place \in Places : At(j, place)

AppleInv ==
    TypeOK /\ RotationInv /\ NumbersInv /\ BlocksInv /\ PlaceInv /\ CapacityUsed

LEMMA JobConstants ==
    ASSUME NEW j \in Jobs
    PROVE  Priority[j] \in Priorities /\ Group[j] \in Groups
  BY AppleAssumption DEF Priorities

LEMMA QueuedInQueue ==
    ASSUME NEW j \in Jobs
    PROVE  Queued(j) <=> InQueue(jobs[Priority[j]][Group[j]], j)
  BY DEF Queued, InQueue

-----------------------------------------------------------------------------
(* The rotations and the queues of requests.                                *)

\* A change of one rotation and one queue that keeps them in step, and the jobs
\* that are queued after it.
Exchange(p, g, q, d) ==
    /\ groups' = [groups EXCEPT ![p] = q]
    /\ jobs' = [jobs EXCEPT ![p][g] = d]
    /\ q \in Seq(Groups) /\ d \in Seq(Jobs)
    /\ Distinct(q) /\ Distinct(d)
    /\ InQueue(q, g) <=> d # <<>>
    /\ \A h \in Groups \ {g} : InQueue(q, h) <=> InQueue(groups[p], h)
    /\ \A j : InQueue(d, j) => Priority[j] = p /\ Group[j] = g

LEMMA QueuesChanged ==
    ASSUME TypeOK, RotationInv, NEW p \in Priorities, NEW g \in Groups,
           NEW q, NEW d, Exchange(p, g, q, d)
    PROVE  /\ groups' \in [Priorities -> Seq(Groups)]
           /\ jobs' \in [Priorities -> [Groups -> Seq(Jobs)]]
           /\ RotationInv'
           /\ \A j \in Jobs : Queued(j)' <=> IF Priority[j] = p /\ Group[j] = g
                                            THEN InQueue(d, j) ELSE Queued(j)
<1> USE DEF Exchange
<1>1. groups'[p] = q /\ \A r \in Priorities \ {p} : groups'[r] = groups[r]
  BY DEF TypeOK
<1>2. /\ jobs'[p][g] = d
      /\ \A h \in Groups \ {g} : jobs'[p][h] = jobs[p][h]
      /\ \A r \in Priorities \ {p} : jobs'[r] = jobs[r]
  BY DEF TypeOK
<1>3. groups' \in [Priorities -> Seq(Groups)]
  BY DEF TypeOK
<1>4. jobs' \in [Priorities -> [Groups -> Seq(Jobs)]]
  BY DEF TypeOK
<1>5. RotationOf(p)'
  BY <1>1, <1>2 DEF RotationInv, RotationOf
<1>6. ASSUME NEW r \in Priorities \ {p} PROVE RotationOf(r)'
  BY <1>1, <1>2 DEF RotationInv, RotationOf
<1>7. ASSUME NEW j \in Jobs
      PROVE  Queued(j)' <=> IF Priority[j] = p /\ Group[j] = g THEN InQueue(d, j)
                            ELSE Queued(j)
  <2>1. Priority[j] \in Priorities /\ Group[j] \in Groups
    BY JobConstants
  <2>2. jobs'[Priority[j]][Group[j]] = IF Priority[j] = p /\ Group[j] = g THEN d
                                        ELSE jobs[Priority[j]][Group[j]]
    BY <1>2, <2>1
  <2>3. QED
    BY <2>2 DEF Queued, InQueue
<1>8. QED
  BY <1>3, <1>4, <1>5, <1>6, <1>7 DEF RotationInv

\* What the steps below do to the queues: nothing, or one job comes or goes.
QueuesKept ==
    /\ UNCHANGED queues
    /\ RotationInv'
    /\ \A j \in Jobs : Queued(j)' <=> Queued(j)

Joins(j) ==
    /\ groups' \in [Priorities -> Seq(Groups)]
    /\ jobs' \in [Priorities -> [Groups -> Seq(Jobs)]]
    /\ RotationInv'
    /\ \A k \in Jobs : Queued(k)' <=> Queued(k) \/ k = j

Leaves(j) ==
    /\ groups' \in [Priorities -> Seq(Groups)]
    /\ jobs' \in [Priorities -> [Groups -> Seq(Jobs)]]
    /\ RotationInv'
    /\ Queued(j)
    /\ \A k \in Jobs : Queued(k)' <=> Queued(k) /\ k # j

LEMMA KeepsQueues ==
    ASSUME RotationInv, UNCHANGED queues
    PROVE  QueuesKept
<1>1. groups' = groups /\ jobs' = jobs
  BY DEF queues
<1>2. QED
  BY <1>1 DEF QueuesKept, RotationInv, RotationOf, Queued

LEMMA EnqueueQueues ==
    ASSUME TypeOK, RotationInv, NEW j \in Jobs, Enqueue(j), ~Queued(j)
    PROVE  Joins(j)
<1>1. PICK p \in Priorities : p = Priority[j]
  BY JobConstants
<1>2. PICK g \in Groups : g = Group[j]
  BY JobConstants
<1>3. PICK d : d = Append(jobs[p][g], j)
  OBVIOUS
<1>4. PICK q : q = IF jobs[p][g] = <<>> THEN Append(groups[p], g) ELSE groups[p]
  OBVIOUS
<1>5. groups' = [groups EXCEPT ![p] = q] /\ jobs' = [jobs EXCEPT ![p][g] = d]
  BY <1>1, <1>2, <1>3, <1>4 DEF Enqueue, JoinsRotation, TypeOK
<1>6. groups[p] \in Seq(Groups) /\ jobs[p][g] \in Seq(Jobs) /\ RotationOf(p)
  BY DEF TypeOK, RotationInv
<1>7. ~InQueue(jobs[p][g], j)
  BY <1>1, <1>2, QueuedInQueue
<1>8. /\ d \in Seq(Jobs) /\ d # <<>>
      /\ \A x : InQueue(d, x) <=> InQueue(jobs[p][g], x) \/ x = j
      /\ Distinct(d)
  BY <1>3, <1>6, <1>7, AppendQueue DEF RotationOf
<1>9. /\ q \in Seq(Groups) /\ Distinct(q) /\ InQueue(q, g)
      /\ \A h \in Groups \ {g} : InQueue(q, h) <=> InQueue(groups[p], h)
  <2>1. CASE jobs[p][g] = <<>>
    BY <1>4, <1>6, <2>1, AppendQueue DEF RotationOf
  <2>2. CASE jobs[p][g] # <<>>
    BY <1>4, <1>6, <2>2 DEF RotationOf
  <2>3. QED
    BY <2>1, <2>2
<1>10. \A k : InQueue(d, k) => Priority[k] = p /\ Group[k] = g
  BY <1>1, <1>2, <1>6, <1>8 DEF RotationOf
<1>11. Exchange(p, g, q, d)
  BY <1>5, <1>8, <1>9, <1>10 DEF Exchange
<1>12. ASSUME NEW k \in Jobs
       PROVE  Queued(k)' <=> Queued(k) \/ k = j
  <2>1. Queued(k)' <=> IF Priority[k] = p /\ Group[k] = g THEN InQueue(d, k)
                       ELSE Queued(k)
    BY <1>11, QueuesChanged
  <2>2. QED
    BY <1>1, <1>2, <1>8, <2>1, QueuedInQueue
<1>13. QED
  BY <1>11, <1>12, QueuesChanged DEF Joins

\* dequeue takes the oldest job of the request at the front.
LEMMA DrainQueues ==
    ASSUME TypeOK, RotationInv, DrainTurn
    PROVE  \E j \in Jobs : /\ HandOver(j, "operation") /\ Leaves(j)
                           /\ index' \in 0..6
<1>1. PICK n \in 1..7 :
          LET entry(m) == PriorityCycle[((index + m - 1) % 7) + 1]
              p == entry(n)
              g == Head(groups[p])
          IN  /\ groups[p] # <<>>
              /\ index' = (index + n) % 7
              /\ groups' = [groups EXCEPT ![p] = Turn(p, g)]
              /\ jobs' = [jobs EXCEPT ![p][g] = Tail(@)]
              /\ HandOver(Head(jobs[p][g]), "operation")
  BY DEF DrainTurn
<1>2. PICK k : k = ((index + n - 1) % 7) + 1
  OBVIOUS
<1>3. PICK p : p = PriorityCycle[k]
  OBVIOUS
<1>4. PICK g : g = Head(groups[p])
  OBVIOUS
<1>5. PICK j : j = Head(jobs[p][g])
  OBVIOUS
<1>6. /\ groups[p] # <<>> /\ index' = (index + n) % 7
      /\ groups' = [groups EXCEPT ![p] = Turn(p, g)]
      /\ jobs' = [jobs EXCEPT ![p][g] = Tail(@)]
      /\ HandOver(j, "operation")
  BY <1>1, <1>2, <1>3, <1>4, <1>5
<1>7. k \in 1..7 /\ index' \in 0..6
  BY <1>2, <1>6 DEF TypeOK
<1>8. p \in Priorities
  BY <1>3, <1>7 DEF PriorityCycle, Priorities
<1>9. groups[p] \in Seq(Groups) /\ RotationOf(p)
  BY <1>8 DEF TypeOK, RotationInv
<1>10. g \in Groups /\ InQueue(groups[p], g)
  BY <1>4, <1>6, <1>9, TailQueue
<1>11. jobs[p][g] # <<>> /\ jobs[p][g] \in Seq(Jobs)
  BY <1>8, <1>9, <1>10 DEF RotationOf, TypeOK
<1>12. PICK d : d = Tail(jobs[p][g])
  OBVIOUS
<1>13. /\ d \in Seq(Jobs) /\ Distinct(d) /\ (Len(jobs[p][g]) = 1 <=> d = <<>>)
       /\ \A x : InQueue(d, x) <=> InQueue(jobs[p][g], x) /\ x # j
       /\ j \in Jobs /\ InQueue(jobs[p][g], j)
  BY <1>5, <1>9, <1>10, <1>11, <1>12, TailQueue DEF RotationOf
<1>14. PICK t : t = Tail(groups[p])
  OBVIOUS
<1>15. /\ t \in Seq(Groups) /\ Distinct(t)
       /\ \A x : InQueue(t, x) <=> InQueue(groups[p], x) /\ x # g
  BY <1>4, <1>6, <1>9, <1>14, TailQueue DEF RotationOf
<1>16. PICK q : q = Turn(p, g)
  OBVIOUS
<1>17. q = IF d = <<>> THEN t ELSE Append(t, g)
  BY <1>13, <1>14, <1>16 DEF Turn
<1>18. /\ q \in Seq(Groups) /\ Distinct(q) /\ (InQueue(q, g) <=> d # <<>>)
       /\ \A h \in Groups \ {g} : InQueue(q, h) <=> InQueue(groups[p], h)
  <2>1. CASE d = <<>>
    BY <1>15, <1>17, <2>1
  <2>2. CASE d # <<>>
    BY <1>10, <1>15, <1>17, <2>2, AppendQueue
  <2>3. QED
    BY <2>1, <2>2
<1>19. groups' = [groups EXCEPT ![p] = q] /\ jobs' = [jobs EXCEPT ![p][g] = d]
  BY <1>6, <1>8, <1>10, <1>12, <1>16 DEF TypeOK
<1>20. \A x : InQueue(d, x) => Priority[x] = p /\ Group[x] = g
  BY <1>9, <1>10, <1>13 DEF RotationOf
<1>21. Exchange(p, g, q, d)
  BY <1>13, <1>18, <1>19, <1>20 DEF Exchange
<1>22. Priority[j] = p /\ Group[j] = g
  BY <1>9, <1>10, <1>13 DEF RotationOf
<1>23. ASSUME NEW x \in Jobs
       PROVE  Queued(x)' <=> Queued(x) /\ x # j
  <2>1. Queued(x)' <=> IF Priority[x] = p /\ Group[x] = g THEN InQueue(d, x)
                       ELSE Queued(x)
    BY <1>8, <1>10, <1>21, QueuesChanged
  <2>2. QED
    BY <1>13, <1>22, <2>1, QueuedInQueue
<1>24. Queued(j)
  BY <1>13, <1>22, QueuedInQueue
<1>25. Leaves(j)
  BY <1>8, <1>10, <1>21, <1>23, <1>24, QueuesChanged DEF Leaves
<1>26. QED
  BY <1>6, <1>7, <1>13, <1>25

\* The timer's block: the numbers of queued jobs are different, so the number
\* that it carries is that of its own job, if any.
LEMMA ExpireQueues ==
    ASSUME TypeOK, RotationInv, NumbersInv, PlaceInv, NEW j \in Jobs, Expire(j)
    PROVE  \/ QueuesKept /\ UNCHANGED handed
           \/ Leaves(j) /\ HandOver(j, "expired") /\ UNCHANGED index
<1>1. CASE UNCHANGED <<groups, jobs, handed>>
  BY <1>1, KeepsQueues DEF Expire, queues
<1>2. CASE ~UNCHANGED <<groups, jobs, handed>>
  <2>1. PICK k \in Jobs :
          /\ Priority[k] = Priority[j] /\ Queued(k) /\ id[k] = id[j]
          /\ LET p == Priority[j]
                 rest == Without(jobs[p][Group[k]], k)
             IN  /\ jobs' = [jobs EXCEPT ![p][Group[k]] = rest]
                 /\ groups' = [groups EXCEPT ![p] =
                       IF rest = <<>> THEN RemoveFirst(@, Group[k]) ELSE @]
          /\ HandOver(k, "expired")
    BY <1>2 DEF Expire
  <2>2. k = j
    <3>1. k \in Numbered
      BY <2>1 DEF PlaceInv, At
    <3>2. j \in Numbered
      BY <2>1, <3>1 DEF Numbered, NumberedIn
    <3>3. QED
      BY <2>1, <3>1, <3>2 DEF NumbersInv, RecentNumbers, Numbered
  <2>3. PICK p \in Priorities : p = Priority[j]
    BY JobConstants
  <2>4. PICK g \in Groups : g = Group[j]
    BY JobConstants
  <2>5. PICK d : d = RemoveFirst(jobs[p][g], j)
    OBVIOUS
  <2>6. PICK q : q = IF d = <<>> THEN RemoveFirst(groups[p], g) ELSE groups[p]
    OBVIOUS
  <2>7. groups' = [groups EXCEPT ![p] = q] /\ jobs' = [jobs EXCEPT ![p][g] = d]
    BY <2>1, <2>2, <2>3, <2>4, <2>5, <2>6 DEF Without, TypeOK
  <2>8. groups[p] \in Seq(Groups) /\ jobs[p][g] \in Seq(Jobs) /\ RotationOf(p)
    BY DEF TypeOK, RotationInv
  <2>9. /\ d \in Seq(Jobs) /\ Distinct(d)
        /\ \A x : InQueue(d, x) <=> InQueue(jobs[p][g], x) /\ x # j
    BY <2>5, <2>8, RemoveFirstQueue DEF RotationOf
  <2>10. d # <<>> => jobs[p][g] # <<>>
    BY <2>8, <2>9, EmptyQueue
  <2>11. /\ q \in Seq(Groups) /\ Distinct(q) /\ (InQueue(q, g) <=> d # <<>>)
         /\ \A h \in Groups \ {g} : InQueue(q, h) <=> InQueue(groups[p], h)
    <3>1. CASE d = <<>>
      BY <2>6, <2>8, <3>1, RemoveFirstQueue DEF RotationOf
    <3>2. CASE d # <<>>
      BY <2>6, <2>8, <2>10, <3>2 DEF RotationOf
    <3>3. QED
      BY <3>1, <3>2
  <2>12. \A x : InQueue(d, x) => Priority[x] = p /\ Group[x] = g
    BY <2>8, <2>9 DEF RotationOf
  <2>13. Exchange(p, g, q, d)
    BY <2>7, <2>9, <2>11, <2>12 DEF Exchange
  <2>14. ASSUME NEW x \in Jobs
         PROVE  Queued(x)' <=> Queued(x) /\ x # j
    <3>1. Queued(x)' <=> IF Priority[x] = p /\ Group[x] = g THEN InQueue(d, x)
                         ELSE Queued(x)
      BY <2>13, QueuesChanged
    <3>2. QED
      BY <2>3, <2>4, <2>9, <3>1, QueuedInQueue
  <2>15. Leaves(j)
    BY <2>1, <2>2, <2>13, <2>14, QueuesChanged DEF Leaves
  <2>16. QED
    BY <2>1, <2>2, <2>15 DEF Expire
<1>3. QED
  BY <1>1, <1>2

-----------------------------------------------------------------------------
(* stateQueue.                                                              *)

Kinds == {"submit", "timer", "finished"}

LEMMA BlockIdentity ==
    ASSUME NEW a, NEW b, NEW j, NEW k
    PROVE  Block(a, j) = Block(b, k) <=> a = b /\ j = k
<1>1. /\ Block(a, j).kind = a /\ Block(a, j).job = j
      /\ Block(b, k).kind = b /\ Block(b, k).job = k
  BY DEF Block
<1>2. QED
  BY <1>1

LEMMA BeginsBlocks ==
    ASSUME TypeOK, Distinct(blocks), NEW kind \in Kinds, NEW j \in Jobs, Begins(kind, j)
    PROVE  /\ blocks' \in Seq([kind : Kinds, job : Jobs])
           /\ Distinct(blocks') /\ Waits(kind, j) /\ ~draining
           /\ \A other \in Kinds, k \in Jobs :
                 Waits(other, k)' <=> Waits(other, k) /\ ~(other = kind /\ k = j)
<1>1. blocks \in Seq([kind : Kinds, job : Jobs])
  BY DEF TypeOK, Kinds
<1>2. blocks # <<>> /\ Head(blocks) = Block(kind, j) /\ blocks' = Tail(blocks) /\ ~draining
  BY DEF Begins, Block
<1>3. /\ InQueue(blocks, Block(kind, j)) /\ blocks' \in Seq([kind : Kinds, job : Jobs])
      /\ Distinct(blocks')
      /\ \A x : InQueue(blocks', x) <=> InQueue(blocks, x) /\ x # Block(kind, j)
  BY <1>1, <1>2, TailQueue
<1>4. ASSUME NEW other \in Kinds, NEW k \in Jobs
      PROVE  Waits(other, k)' <=> Waits(other, k) /\ ~(other = kind /\ k = j)
  <2>1. Waits(other, k)' <=> InQueue(blocks', Block(other, k))
    BY DEF Waits, Block
  <2>2. QED
    BY <1>3, <2>1, BlockIdentity DEF Waits
<1>5. QED
  BY <1>2, <1>3, <1>4 DEF Waits

LEMMA DispatchBlocks ==
    ASSUME TypeOK, Distinct(blocks), NEW kind \in Kinds, NEW j \in Jobs,
           Dispatch(kind, j), ~Waits(kind, j)
    PROVE  /\ blocks' \in Seq([kind : Kinds, job : Jobs])
           /\ Distinct(blocks')
           /\ \A other \in Kinds, k \in Jobs :
                 Waits(other, k)' <=> Waits(other, k) \/ (other = kind /\ k = j)
<1> DEFINE S == [kind : Kinds, job : Jobs]
<1>1. blocks \in Seq(S)
  BY DEF TypeOK, Kinds
<1>2. PICK b \in S : b = Block(kind, j) /\ blocks' = Append(blocks, b)
  BY DEF Dispatch, Block
<1>3. /\ blocks' \in Seq(S)
      /\ Distinct(blocks')
      /\ \A x : InQueue(blocks', x) <=> InQueue(blocks, x) \/ x = Block(kind, j)
  <2>1. ~InQueue(blocks, b)
    BY <1>2 DEF Waits
  <2> HIDE DEF S
  <2>2. QED
    BY <1>1, <1>2, <2>1, AppendQueue
<1>4. ASSUME NEW other \in Kinds, NEW k \in Jobs
      PROVE  Waits(other, k)' <=> Waits(other, k) \/ (other = kind /\ k = j)
  <2>1. Waits(other, k)' <=> InQueue(blocks', Block(other, k))
    BY DEF Waits, Block
  <2>2. QED
    BY <1>3, <2>1, BlockIdentity DEF Waits
<1>5. QED
  BY <1>3, <1>4

LEMMA BlocksKept ==
    ASSUME UNCHANGED blocks, NEW kind, NEW j
    PROVE  Waits(kind, j)' <=> Waits(kind, j)
  BY DEF Waits, InQueue, Block

\* The number of blocks of one kind is that of their jobs.
LEMMA BlockCount ==
    ASSUME NEW s \in Seq([kind : Kinds, job : Jobs]), Distinct(s), NEW kind \in Kinds
    PROVE  LET J == {j \in Jobs : InQueue(s, Block(kind, j))}
           IN  /\ IsFiniteSet(J)
               /\ Cardinality({k \in DOMAIN s : s[k].kind = kind}) = Cardinality(J)
<1> DEFINE J == {j \in Jobs : InQueue(s, Block(kind, j))}
           B == {k \in DOMAIN s : s[k].kind = kind}
           f == [k \in B |-> s[k].job]
<1>1. DOMAIN s = 1 .. Len(s) /\ Len(s) \in Nat
  BY LenProperties
<1>2. IsFiniteSet(B)
  <2>1. IsFiniteSet(1 .. Len(s))
    BY <1>1, FS_Interval
  <2>2. QED
    BY <1>1, <2>1, FS_Subset
<1>3. ASSUME NEW k \in B
      PROVE  s[k] = Block(kind, s[k].job) /\ s[k].job \in Jobs /\ k \in DOMAIN s
  <2>1. s[k] \in [kind : Kinds, job : Jobs]
    BY <1>1, ElementOfSeq
  <2>2. QED
    BY <2>1 DEF Block
<1>4. f \in [B -> J]
  BY <1>3 DEF InQueue
<1>5. \A a, b \in B : f[a] = f[b] => a = b
  BY <1>3 DEF Distinct
<1>6. \A j \in J : \E k \in B : f[k] = j
  <2>1. SUFFICES ASSUME NEW j \in J PROVE \E k \in B : f[k] = j
    OBVIOUS
  <2>2. PICK k \in DOMAIN s : s[k] = Block(kind, j)
    BY DEF InQueue
  <2>3. s[k].kind = kind /\ s[k].job = j
    BY <2>2 DEF Block
  <2>4. QED
    BY <2>3
<1> HIDE DEF f, B, J
<1>7. f \in Bijection(B, J)
  BY <1>4, <1>5, <1>6 DEF Bijection, Injection, Surjection, IsInjective
<1>8. ExistsBijection(B, J)
  BY <1>7 DEF ExistsBijection
<1>9. IsFiniteSet(J) /\ Cardinality(J) = Cardinality(B)
  BY <1>2, <1>8, FS_Bijection
<1>10. QED
  BY <1>9 DEF B, J

Finishing == {j \in Jobs : Waits("finished", j)}

LEMMA FinishingCount ==
    ASSUME TypeOK, BlocksInv
    PROVE  /\ IsFiniteSet(Finishing) /\ Cardinality(Finishing) \in Nat
           /\ Cardinality(Blocks("finished")) = Cardinality(Finishing)
<1>1. blocks \in Seq([kind : Kinds, job : Jobs]) /\ Distinct(blocks)
  BY DEF TypeOK, Kinds, BlocksInv
<1>2. QED
  BY <1>1, BlockCount, FS_CardinalityType DEF Blocks, Finishing, Waits, Kinds

LEMMA NextFinishingCount ==
    ASSUME TypeOK', BlocksInv'
    PROVE  Cardinality(Blocks("finished")') = Cardinality(Finishing')
<1>1. blocks' \in Seq([kind : Kinds, job : Jobs]) /\ Distinct(blocks')
  BY DEF TypeOK, Kinds, BlocksInv
<1>2. Finishing' = {j \in Jobs : InQueue(blocks', Block("finished", j))}
  BY DEF Finishing, Waits, Block
<1>3. Blocks("finished")' = {k \in DOMAIN blocks' : blocks'[k].kind = "finished"}
  BY DEF Blocks
<1>4. QED
  BY <1>1, <1>2, <1>3, BlockCount DEF Kinds

-----------------------------------------------------------------------------
(* Numbers.                                                                 *)

LEMMA MoreNumbersThanJobs ==
    /\ IsFiniteSet(Jobs) /\ Cardinality(Jobs) \in Nat
    /\ IdLimit \in Nat \ {0, 1} /\ Cardinality(Jobs) < IdLimit
  BY AppleAssumption, FS_CardinalityType

LEMMA EnqueueNumbers ==
    ASSUME TypeOK, NumbersInv, NEW j \in Jobs \ Numbered, Enqueue(j)
    PROVE  /\ id' \in [Jobs -> 0..IdLimit] /\ nextJob' \in 1..IdLimit
           /\ Numbered' = Numbered \cup {j}
           /\ NumbersInv'
<1>1. id' = [id EXCEPT ![j] = nextJob] /\ nextJob' = Following(nextJob, IdLimit)
  BY DEF Enqueue, NextNumber, Following
<1>2. id \in [Jobs -> 0..IdLimit] /\ nextJob \in 1..IdLimit /\ j \in Jobs /\ id[j] = 0
  BY DEF TypeOK, Numbered, NumberedIn
<1>3. RecentNumbers(Jobs, id, nextJob, IdLimit)
  BY DEF NumbersInv
<1>4. /\ id' \in [Jobs -> 0..IdLimit] /\ nextJob' \in 1..IdLimit
      /\ Numbered' = Numbered \cup {j}
  BY <1>1, <1>2, MoreNumbersThanJobs DEF Numbered, NumberedIn, Following
<1>5. RecentNumbers(Jobs, id', nextJob', IdLimit)
  BY <1>1, <1>2, <1>3, MoreNumbersThanJobs, NumberIsFresh
<1>6. QED
  BY <1>4, <1>5 DEF NumbersInv, NumberedIn, RecentNumbers, Age

LEMMA NumbersKept ==
    ASSUME NumbersInv, UNCHANGED numbers
    PROVE  NumbersInv' /\ Numbered' = Numbered
<1>1. id' = id /\ nextJob' = nextJob
  BY DEF numbers
<1>2. QED
  BY <1>1 DEF NumbersInv, Numbered, NumberedIn, RecentNumbers, Age

-----------------------------------------------------------------------------
(* Steps.  First what each block finds of its job.                          *)

\* The block of submit answers at once, or lets the job join its queue.
Declines(j, what) ==
    /\ HandOver(j, what)
    /\ started' \in BOOLEAN
    /\ UNCHANGED <<queues, numbers, draining, clock>>

LEMMA AcceptCases ==
    ASSUME TypeOK, NEW j \in Jobs, Accept(j)
    PROVE  \/ \E what \in {"refused", "late"} : Declines(j, what)
           \/ started' = TRUE /\ Enqueue(j)
  BY DEF Accept, Declines, TypeOK

LEMMA BeforeSubmit ==
    ASSUME PlaceInv, NEW j \in Jobs \ sent
    PROVE  At(j, "new") /\ ~Waits("submit", j)
  BY DEF PlaceInv, At, Places

LEMMA BeforeAccept ==
    ASSUME TypeOK, BlocksInv, PlaceInv, NEW j \in Jobs, Begins("submit", j)
    PROVE  At(j, "sent") /\ ~Queued(j) /\ j \in Jobs \ Numbered
<1>1. Waits("submit", j)
  BY BeginsBlocks DEF BlocksInv, Kinds
<1>2. At(j, "sent")
  BY <1>1 DEF PlaceInv, At, Places
<1>3. QED
  BY <1>2 DEF At

LEMMA BeforeExecute ==
    ASSUME PlaceInv, NEW j \in Jobs, NEW what \in Outcomes, <<j, what>> \in handed
    PROVE  At(j, "handed") /\ ~Waits("finished", j) /\ ~Queued(j) /\ answers[j] = <<>>
<1>1. Handed(j) # {}
  BY DEF Handed
<1>2. At(j, "handed")
  BY <1>1 DEF PlaceInv, At, Places
<1>3. QED
  BY <1>2 DEF At, Answers

LEMMA BeforeFinished ==
    ASSUME TypeOK, BlocksInv, PlaceInv, NEW j \in Jobs, Begins("finished", j)
    PROVE  At(j, "finishing") /\ Waits("finished", j)
<1>1. Waits("finished", j)
  BY BeginsBlocks DEF BlocksInv, Kinds
<1>2. At(j, "finishing")
  BY <1>1 DEF PlaceInv, At, Places
<1>3. QED
  BY <1>1, <1>2

LEMMA WhileQueued ==
    ASSUME PlaceInv, NEW j \in Jobs, Queued(j)
    PROVE  At(j, "queued")
  BY DEF PlaceInv, At, Places

\* One conversion more or less: it is executed, it has ended, or its end is seen.
LEMMA ActiveCount ==
    ASSUME TypeOK, BlocksInv, CapacityUsed
    PROVE  /\ IsFiniteSet(Running) /\ Cardinality(Running) \in Nat
           /\ IsFiniteSet(Finishing) /\ Cardinality(Finishing) \in Nat
           /\ active = Cardinality(Running) + Cardinality(Finishing)
<1>1. IsFiniteSet(Running)
  BY AppleAssumption, FS_Subset DEF Running
<1>2. QED
  BY <1>1, FinishingCount, FS_CardinalityType DEF CapacityUsed

LEMMA ActiveIsPositive ==
    ASSUME TypeOK, BlocksInv, PlaceInv, CapacityUsed, NEW j \in Jobs, Begins("finished", j)
    PROVE  active - 1 \in Nat
<1>1. j \in Finishing
  BY BeforeFinished DEF Finishing
<1>2. Cardinality(Finishing) # 0
  BY <1>1, ActiveCount, FS_EmptySet
<1>3. QED
  BY <1>2, ActiveCount

-----------------------------------------------------------------------------
(* Types.                                                                   *)

LEMMA HandOverTyped ==
    ASSUME TypeOK, NEW j \in Jobs, NEW what \in Outcomes, HandOver(j, what)
    PROVE  handed' \subseteq Jobs \X Outcomes
  BY DEF TypeOK, HandOver

LEMMA TypeStep ==
    ASSUME AppleInv, [Next]_vars
    PROVE  TypeOK'
<1> USE DEF AppleInv, queues, numbers, clock
<1>1. ASSUME NEW j \in Jobs, Submit(j)
      PROVE  TypeOK'
  <2>1. blocks' \in Seq([kind : Kinds, job : Jobs])
    BY <1>1, DispatchBlocks, BeforeSubmit DEF Submit, BlocksInv, Kinds
  <2>2. QED
    BY <1>1, <2>1 DEF Submit, TypeOK, Kinds
<1>2. ASSUME NEW j \in Jobs, Accept(j)
      PROVE  TypeOK'
  <2>1. blocks' \in Seq([kind : Kinds, job : Jobs])
    BY <1>2, BeginsBlocks DEF Accept, BlocksInv, Kinds
  <2>2. ASSUME NEW what \in {"refused", "late"}, Declines(j, what)
        PROVE  TypeOK'
    <3>1. handed' \subseteq Jobs \X Outcomes
      BY <2>2, HandOverTyped DEF Declines, Outcomes
    <3>2. QED
      BY <1>2, <2>1, <2>2, <3>1 DEF Accept, Declines, TypeOK, Kinds
  <2>3. CASE started' = TRUE /\ Enqueue(j)
    <3>1. Joins(j)
      BY <1>2, <2>3, EnqueueQueues, BeforeAccept DEF Accept
    <3>2. id' \in [Jobs -> 0..IdLimit] /\ nextJob' \in 1..IdLimit
      BY <1>2, <2>3, EnqueueNumbers, BeforeAccept DEF Accept
    <3>3. QED
      BY <1>2, <2>1, <2>3, <3>1, <3>2 DEF Accept, Enqueue, Joins, TypeOK, Kinds
  <2>4. QED
    BY <1>2, <2>2, <2>3, AcceptCases
<1>3. ASSUME NEW j \in Jobs, DeadlinePasses(j)
      PROVE  TypeOK'
  BY <1>3 DEF DeadlinePasses, TypeOK
<1>4. ASSUME NEW j \in Jobs, TimerFires(j)
      PROVE  TypeOK'
  <2>1. blocks' \in Seq([kind : Kinds, job : Jobs])
    BY <1>4, DispatchBlocks DEF TimerFires, BlocksInv, Kinds
  <2>2. QED
    BY <1>4, <2>1 DEF TimerFires, TypeOK, Kinds
<1>5. ASSUME NEW j \in Jobs, Expire(j)
      PROVE  TypeOK'
  <2>1. blocks' \in Seq([kind : Kinds, job : Jobs])
    BY <1>5, BeginsBlocks DEF Expire, BlocksInv, Kinds
  <2>2. CASE QueuesKept /\ UNCHANGED handed
    BY <1>5, <2>1, <2>2 DEF Expire, QueuesKept, TypeOK, Kinds
  <2>3. CASE Leaves(j) /\ HandOver(j, "expired") /\ UNCHANGED index
    <3>1. handed' \subseteq Jobs \X Outcomes
      BY <2>3, HandOverTyped DEF Outcomes
    <3>2. QED
      BY <1>5, <2>1, <2>3, <3>1 DEF Expire, Leaves, TypeOK, Kinds
  <2>4. QED
    BY <1>5, <2>2, <2>3, ExpireQueues
<1>6. CASE DrainTurn
  <2>1. PICK j \in Jobs : HandOver(j, "operation") /\ Leaves(j) /\ index' \in 0..6
    BY <1>6, DrainQueues
  <2>2. handed' \subseteq Jobs \X Outcomes
    BY <2>1, HandOverTyped DEF Outcomes
  <2>3. /\ active' = active + 1
        /\ UNCHANGED <<numbers, started, blocks, draining, clock, sent, answers>>
    BY <1>6 DEF DrainTurn
  <2>4. groups' \in [Priorities -> Seq(Groups)] /\ jobs' \in [Priorities -> [Groups -> Seq(Jobs)]]
    BY <2>1 DEF Leaves
  <2>5. QED
    BY <2>1, <2>2, <2>3, <2>4 DEF TypeOK
<1>7. CASE DrainEnds
  BY <1>7 DEF DrainEnds, TypeOK
<1>8. ASSUME NEW j \in Jobs, NEW what \in Outcomes, Execute(j, what)
      PROVE  TypeOK'
  <2>1. blocks' \in Seq([kind : Kinds, job : Jobs])
    <3>1. CASE what = "operation"
      <4>1. Dispatch("finished", j)
        BY <1>8, <3>1 DEF Execute
      <4>2. ~Waits("finished", j)
        BY <1>8, BeforeExecute DEF Execute
      <4>3. QED
        BY <4>1, <4>2, DispatchBlocks DEF BlocksInv, Kinds
    <3>2. CASE what # "operation"
      BY <1>8, <3>2 DEF Execute, TypeOK, Kinds
    <3>3. QED
      BY <3>1, <3>2
  <2>2. Append(answers[j], what) \in Seq(Outcomes)
    BY AppendQueue DEF TypeOK
  <2>3. answers' \in [Jobs -> Seq(Outcomes)]
    BY <1>8, <2>2 DEF Execute, TypeOK
  <2>4. QED
    BY <1>8, <2>1, <2>3 DEF Execute, TypeOK, Kinds
<1>9. ASSUME NEW j \in Jobs, Finished(j)
      PROVE  TypeOK'
  <2>1. blocks' \in Seq([kind : Kinds, job : Jobs])
    BY <1>9, BeginsBlocks DEF Finished, BlocksInv, Kinds
  <2>2. active - 1 \in Nat
    BY <1>9, ActiveIsPositive DEF Finished
  <2>3. QED
    BY <1>9, <2>1, <2>2 DEF Finished, TypeOK, Kinds
<1>10. CASE UNCHANGED vars
  BY <1>10 DEF vars, TypeOK
<1>11. QED
  BY <1>1, <1>2, <1>3, <1>4, <1>5, <1>6, <1>7, <1>8, <1>9, <1>10 DEF Next, StateStep

-----------------------------------------------------------------------------
(* Rotations and numbers.                                                   *)

LEMMA QueuesStep ==
    ASSUME AppleInv, [Next]_vars
    PROVE  RotationInv' /\ NumbersInv'
<1> USE DEF AppleInv
<1>1. ASSUME UNCHANGED queues, UNCHANGED numbers
      PROVE  RotationInv' /\ NumbersInv'
  BY <1>1, KeepsQueues, NumbersKept DEF QueuesKept
<1>2. ASSUME NEW j \in Jobs, Accept(j)
      PROVE  RotationInv' /\ NumbersInv'
  <2>1. CASE Enqueue(j)
    BY <1>2, <2>1, EnqueueQueues, EnqueueNumbers, BeforeAccept DEF Accept, Joins
  <2>2. CASE ~Enqueue(j)
    BY <1>1, <1>2, <2>2 DEF Accept
  <2>3. QED
    BY <2>1, <2>2
<1>3. ASSUME NEW j \in Jobs, Expire(j)
      PROVE  RotationInv' /\ NumbersInv'
  BY <1>3, ExpireQueues, NumbersKept DEF Expire, QueuesKept, Leaves
<1>4. CASE DrainTurn
  BY <1>4, DrainQueues, NumbersKept DEF DrainTurn, Leaves
<1>5. ASSUME NEW j \in Jobs,
             Submit(j) \/ DeadlinePasses(j) \/ TimerFires(j) \/ Finished(j)
      PROVE  RotationInv' /\ NumbersInv'
  BY <1>1, <1>5 DEF Submit, DeadlinePasses, TimerFires, Finished
<1>6. CASE DrainEnds \/ UNCHANGED vars
  BY <1>1, <1>6 DEF DrainEnds, vars
<1>7. ASSUME NEW j \in Jobs, NEW what \in Outcomes, Execute(j, what)
      PROVE  RotationInv' /\ NumbersInv'
  BY <1>1, <1>7 DEF Execute
<1>8. QED
  BY <1>2, <1>3, <1>4, <1>5, <1>6, <1>7 DEF Next, StateStep

-----------------------------------------------------------------------------
(* Blocks and timers.                                                       *)

LEMMA BlocksStep ==
    ASSUME AppleInv, [Next]_vars
    PROVE  BlocksInv'
<1> USE DEF AppleInv, queues, numbers, clock
<1>1. ASSUME Distinct(blocks'), Numbered' = Numbered, timers' \subseteq timers,
             \A j \in Jobs : /\ Waits("timer", j)' => Waits("timer", j)
                             /\ passed[j] => passed'[j]
      PROVE  BlocksInv'
  BY <1>1 DEF BlocksInv
<1>2. UNCHANGED numbers => Numbered' = Numbered
  BY NumbersKept
<1> DEFINE Gains(kind, j) == \A other \in Kinds, k \in Jobs :
                 Waits(other, k)' <=> Waits(other, k) \/ (other = kind /\ k = j)
           Loses(kind, j) == \A other \in Kinds, k \in Jobs :
                 Waits(other, k)' <=> Waits(other, k) /\ ~(other = kind /\ k = j)
<1>3. ASSUME NEW j \in Jobs, NEW kind \in Kinds, Begins(kind, j)
      PROVE  Distinct(blocks') /\ Loses(kind, j)
  BY <1>3, BeginsBlocks DEF BlocksInv
<1>4. ASSUME NEW j \in Jobs, NEW kind \in Kinds, Dispatch(kind, j), ~Waits(kind, j)
      PROVE  Distinct(blocks') /\ Gains(kind, j)
  BY <1>4, DispatchBlocks DEF BlocksInv
<1> HIDE DEF Gains, Loses
<1>5. ASSUME NEW j \in Jobs, Submit(j)
      PROVE  BlocksInv'
  <2>1. Distinct(blocks') /\ Gains("submit", j)
    BY <1>4, <1>5, BeforeSubmit DEF Submit, Kinds
  <2>2. \A k \in Jobs : Waits("timer", k)' => Waits("timer", k)
    BY <2>1 DEF Gains, Kinds
  <2>3. QED
    BY <1>1, <1>2, <1>5, <2>1, <2>2 DEF Submit
<1>6. ASSUME NEW j \in Jobs, Accept(j)
      PROVE  BlocksInv'
  <2>1. Distinct(blocks') /\ Loses("submit", j)
    BY <1>3, <1>6 DEF Accept, Kinds
  <2>2. \A k \in Jobs : Waits("timer", k)' => Waits("timer", k)
    BY <2>1 DEF Loses, Kinds
  <2>3. CASE UNCHANGED <<queues, numbers, draining, clock>>
    BY <1>1, <1>2, <2>1, <2>2, <2>3
  <2>4. CASE Enqueue(j)
    <3>1. j \in Jobs \ Numbered /\ ~Waits("timer", j)
      BY <1>6, BeforeAccept DEF Accept, BlocksInv
    <3>2. Numbered' = Numbered \cup {j}
      BY <2>4, <3>1, EnqueueNumbers
    <3>3. timers' \subseteq timers \cup {j} /\ passed' = passed
      BY <2>4 DEF Enqueue
    <3>4. QED
      BY <2>1, <2>2, <3>1, <3>2, <3>3 DEF BlocksInv
  <2>5. QED
    BY <1>6, <2>3, <2>4, AcceptCases DEF Declines
<1>7. ASSUME NEW j \in Jobs, DeadlinePasses(j)
      PROVE  BlocksInv'
  <2>1. \A k \in Jobs : Waits("timer", k)' => Waits("timer", k)
    BY <1>7, BlocksKept DEF DeadlinePasses
  <2>2. \A k \in Jobs : passed[k] => passed'[k]
    BY <1>7 DEF DeadlinePasses, TypeOK
  <2>3. QED
    BY <1>1, <1>2, <1>7, <2>1, <2>2 DEF DeadlinePasses, BlocksInv
<1>8. ASSUME NEW j \in Jobs, TimerFires(j)
      PROVE  BlocksInv'
  <2>1. ~Waits("timer", j) /\ j \in Numbered
    BY <1>8 DEF TimerFires, BlocksInv
  <2>2. Distinct(blocks') /\ Gains("timer", j)
    BY <1>4, <1>8, <2>1 DEF TimerFires, Kinds
  <2>3. \A k \in Jobs : Waits("timer", k)' => Waits("timer", k) \/ k = j
    BY <2>2 DEF Gains, Kinds
  <2>4. /\ timers' = timers \ {j} /\ passed[j] /\ passed' = passed
        /\ Numbered' = Numbered
    BY <1>2, <1>8 DEF TimerFires
  <2>5. QED
    BY <2>1, <2>2, <2>3, <2>4 DEF BlocksInv
<1>9. ASSUME NEW j \in Jobs, Expire(j) \/ Finished(j)
      PROVE  BlocksInv'
  <2>1. \E kind \in Kinds : Begins(kind, j)
    BY <1>9 DEF Expire, Finished, Kinds
  <2>2. Distinct(blocks') /\ \A k \in Jobs : Waits("timer", k)' => Waits("timer", k)
    BY <1>3, <2>1 DEF Loses, Kinds
  <2>3. UNCHANGED <<numbers, clock>>
    BY <1>9 DEF Expire, Finished
  <2>4. QED
    BY <1>1, <1>2, <2>2, <2>3
<1>10. ASSUME NEW j \in Jobs, NEW what \in Outcomes, Execute(j, what)
       PROVE  BlocksInv'
  <2>1. Distinct(blocks') /\ \A k \in Jobs : Waits("timer", k)' => Waits("timer", k)
    <3>1. CASE what = "operation"
      <4>1. Dispatch("finished", j) /\ ~Waits("finished", j)
        BY <1>10, <3>1, BeforeExecute DEF Execute
      <4>2. QED
        BY <1>4, <4>1 DEF Gains, Kinds
    <3>2. CASE what # "operation"
      BY <1>10, <3>2, BlocksKept DEF Execute, BlocksInv
    <3>3. QED
      BY <3>1, <3>2
  <2>2. QED
    BY <1>1, <1>2, <1>10, <2>1 DEF Execute
<1>11. CASE DrainTurn \/ DrainEnds \/ UNCHANGED vars
  <2>1. UNCHANGED <<blocks, numbers, clock>>
    BY <1>11 DEF DrainTurn, DrainEnds, vars
  <2>2. QED
    BY <1>1, <1>2, <2>1, BlocksKept DEF BlocksInv
<1>12. QED
  BY <1>5, <1>6, <1>7, <1>8, <1>9, <1>10, <1>11 DEF Next, StateStep

-----------------------------------------------------------------------------
(* Places.                                                                  *)

\* A job that a step does not touch.
Untouched(j) ==
    /\ j \in sent' <=> j \in sent
    /\ \A kind \in {"submit", "finished"} : Waits(kind, j)' <=> Waits(kind, j)
    /\ Queued(j)' <=> Queued(j)
    /\ \A what \in Outcomes : <<j, what>> \in handed' <=> <<j, what>> \in handed
    /\ answers'[j] = answers[j]
    /\ j \in Numbered' <=> j \in Numbered

LEMMA UntouchedStays ==
    ASSUME NEW j \in Jobs, Untouched(j), NEW place, At(j, place)
    PROVE  At(j, place)'
<1>1. Handed(j)' = Handed(j)
  BY DEF Untouched, Handed
<1>2. QED
  BY <1>1 DEF Untouched, At

\* A step that moves at most one job.
LEMMA OneMoves ==
    ASSUME PlaceInv, NEW j \in Jobs, \A k \in Jobs \ {j} : Untouched(k),
           NEW place \in Places, At(j, place)'
    PROVE  PlaceInv'
  BY UntouchedStays DEF PlaceInv

LEMMA NoneMoves ==
    ASSUME PlaceInv, \A k \in Jobs : Untouched(k)
    PROVE  PlaceInv'
  BY UntouchedStays DEF PlaceInv

\* The blocks that a step leaves as they are.
LEMMA BlocksOfOthers ==
    ASSUME AppleInv, NEW j \in Jobs, NEW kind \in Kinds,
           \/ Begins(kind, j)
           \/ Dispatch(kind, j) /\ ~Waits(kind, j)
           \/ UNCHANGED blocks
    PROVE  \A other \in Kinds, k \in Jobs :
              k # j \/ other # kind => (Waits(other, k)' <=> Waits(other, k))
  BY BeginsBlocks, DispatchBlocks, BlocksKept DEF AppleInv, BlocksInv

LEMMA HandOverEffect ==
    ASSUME NEW j \in Jobs, NEW what \in Outcomes, HandOver(j, what), Handed(j) = {}
    PROVE  /\ Handed(j)' = {what}
           /\ \A k \in Jobs \ {j}, other \in Outcomes :
                 <<k, other>> \in handed' <=> <<k, other>> \in handed
<1>1. handed' = handed \cup {<<j, what>>}
  BY DEF HandOver
<1>2. \A other \in Outcomes : <<j, other>> \notin handed
  BY DEF Handed
<1>3. QED
  BY <1>1, <1>2 DEF Handed

LEMMA AcceptPlace ==
    ASSUME AppleInv, NEW j \in Jobs, Accept(j)
    PROVE  PlaceInv'
<1> USE DEF AppleInv, queues, numbers, clock
<1>1. At(j, "sent") /\ ~Queued(j) /\ j \in Jobs \ Numbered
  BY BeforeAccept DEF Accept
<1>2. /\ Begins("submit", j) /\ sent' = sent /\ answers' = answers
  BY DEF Accept
<1>3. /\ ~Waits("submit", j)'
      /\ Waits("finished", j)' <=> Waits("finished", j)
  BY <1>2, BeginsBlocks DEF BlocksInv, Kinds
<1>4. \A kind \in Kinds, k \in Jobs \ {j} : Waits(kind, k)' <=> Waits(kind, k)
  BY <1>2, BlocksOfOthers DEF Kinds
<1>5. ASSUME NEW what \in {"refused", "late"}, Declines(j, what)
      PROVE  PlaceInv'
  <2>1. QueuesKept /\ Numbered' = Numbered
    BY <1>5, KeepsQueues, NumbersKept DEF Declines
  <2>2. /\ Handed(j)' = {what}
        /\ \A k \in Jobs \ {j}, other \in Outcomes :
              <<k, other>> \in handed' <=> <<k, other>> \in handed
    BY <1>1, <1>5, HandOverEffect DEF Declines, At, Outcomes
  <2>3. \A k \in Jobs \ {j} : Untouched(k)
    BY <1>2, <1>4, <2>1, <2>2 DEF Untouched, QueuesKept, Kinds
  <2>4. At(j, "handed")'
    BY <1>1, <1>2, <1>3, <2>1, <2>2 DEF At, QueuesKept, Answers
  <2>5. QED
    BY <2>3, <2>4, OneMoves DEF Places
<1>6. CASE Enqueue(j)
  <2>1. Joins(j) /\ Numbered' = Numbered \cup {j} /\ handed' = handed
    BY <1>1, <1>6, EnqueueQueues, EnqueueNumbers DEF Enqueue
  <2>2. Handed(j)' = Handed(j)
    BY <2>1 DEF Handed
  <2>3. \A k \in Jobs \ {j} : Untouched(k)
    BY <1>2, <1>4, <2>1 DEF Untouched, Joins, Kinds
  <2>4. At(j, "queued")'
    BY <1>1, <1>2, <1>3, <2>1, <2>2 DEF At, Joins, Answers
  <2>5. QED
    BY <2>3, <2>4, OneMoves DEF Places
<1>7. QED
  BY <1>5, <1>6, AcceptCases

\* A job that leaves its queue is handed over.
LEMMA LeavesPlace ==
    ASSUME AppleInv, NEW j \in Jobs, NEW what \in Outcomes, Leaves(j), HandOver(j, what),
           UNCHANGED <<sent, answers, numbers>>,
           \A kind \in {"submit", "finished"}, k \in Jobs : Waits(kind, k)' <=> Waits(kind, k)
    PROVE  PlaceInv'
<1> USE DEF AppleInv
<1>1. At(j, "queued") /\ Numbered' = Numbered
  BY WhileQueued, NumbersKept DEF Leaves
<1>2. /\ Handed(j)' = {what}
      /\ \A k \in Jobs \ {j}, other \in Outcomes :
            <<k, other>> \in handed' <=> <<k, other>> \in handed
  BY <1>1, HandOverEffect DEF At
<1>3. \A k \in Jobs \ {j} : Untouched(k)
  BY <1>1, <1>2 DEF Untouched, Leaves
<1>4. At(j, "handed")'
  BY <1>1, <1>2 DEF At, Leaves, Answers
<1>5. QED
  BY <1>3, <1>4, OneMoves DEF Places

LEMMA OneAnswerAppended ==
    ASSUME NEW S, NEW a \in S
    PROVE  Append(<<>>, a) = <<a>>
  OBVIOUS

LEMMA ExecutePlace ==
    ASSUME AppleInv, NEW j \in Jobs, NEW what \in Outcomes, Execute(j, what)
    PROVE  /\ PlaceInv'
           /\ answers' = [answers EXCEPT ![j] = <<what>>]
           /\ Handed(j) = {what} /\ Handed(j)' = {}
           /\ Waits("finished", j)' <=> what = "operation"
<1> USE DEF AppleInv, queues, numbers, clock
<1>1. /\ <<j, what>> \in handed /\ handed' = handed \ {<<j, what>>}
      /\ sent' = sent
      /\ UNCHANGED queues /\ UNCHANGED numbers
  BY DEF Execute
<1>2. At(j, "handed") /\ ~Waits("finished", j) /\ ~Queued(j) /\ answers[j] = <<>>
  BY <1>1, BeforeExecute
<1>3. answers' = [answers EXCEPT ![j] = <<what>>]
  BY <1>2, OneAnswerAppended DEF Execute, TypeOK
<1>4. Handed(j) = {what}
  BY <1>1, <1>2 DEF At, Handed
<1>5. /\ Handed(j)' = {}
      /\ \A k \in Jobs \ {j}, other \in Outcomes :
            <<k, other>> \in handed' <=> <<k, other>> \in handed
  BY <1>1, <1>4 DEF Handed
<1>6. /\ \A kind \in Kinds, k \in Jobs :
            k # j \/ kind # "finished" => (Waits(kind, k)' <=> Waits(kind, k))
      /\ Waits("finished", j)' <=> what = "operation"
  <2>1. CASE what = "operation"
    <3>1. Dispatch("finished", j)
      BY <2>1 DEF Execute
    <3>2. QED
      BY <1>2, <2>1, <3>1, BlocksOfOthers, DispatchBlocks DEF Kinds, BlocksInv
  <2>2. CASE what # "operation"
    <3>1. UNCHANGED blocks
      BY <2>2 DEF Execute
    <3>2. QED
      BY <1>2, <2>2, <3>1, BlocksKept
  <2>3. QED
    BY <2>1, <2>2
<1>7. QueuesKept /\ Numbered' = Numbered
  BY <1>1, KeepsQueues, NumbersKept
<1>8. \A k \in Jobs \ {j} : Untouched(k)
  BY <1>1, <1>3, <1>5, <1>6, <1>7 DEF Untouched, QueuesKept, Kinds, TypeOK
<1>9. answers'[j] = <<what>>
  BY <1>3 DEF TypeOK
<1>10. PlaceInv'
  <2>1. CASE what = "operation"
    <3>1. At(j, "finishing")'
      BY <1>1, <1>2, <1>5, <1>6, <1>7, <1>9, <2>1 DEF At, Answers, QueuesKept, Kinds
    <3>2. QED
      BY <1>8, <3>1, OneMoves DEF Places
  <2>2. CASE what # "operation"
    <3>1. At(j, "over")'
      BY <1>1, <1>2, <1>5, <1>6, <1>7, <1>9, <2>2 DEF At, Answers, QueuesKept, Kinds
    <3>2. QED
      BY <1>8, <3>1, OneMoves DEF Places
  <2>3. QED
    BY <2>1, <2>2
<1>11. QED
  BY <1>3, <1>4, <1>5, <1>6, <1>10

LEMMA PlaceStep ==
    ASSUME AppleInv, [Next]_vars
    PROVE  PlaceInv'
<1> USE DEF AppleInv
<1>1. ASSUME UNCHANGED <<queues, numbers, handed, sent, answers>>,
             \A kind \in {"submit", "finished"}, k \in Jobs : Waits(kind, k)' <=> Waits(kind, k)
      PROVE  PlaceInv'
  <2>1. QueuesKept /\ Numbered' = Numbered
    BY <1>1, KeepsQueues, NumbersKept
  <2>2. \A k \in Jobs : Untouched(k)
    BY <1>1, <2>1 DEF Untouched, QueuesKept
  <2>3. QED
    BY <2>2, NoneMoves
<1>2. ASSUME NEW j \in Jobs, Submit(j)
      PROVE  PlaceInv'
  <2>1. At(j, "new") /\ ~Waits("submit", j) /\ j \notin sent /\ sent' = sent \cup {j}
    BY <1>2, BeforeSubmit DEF Submit
  <2>2. /\ UNCHANGED <<handed, answers>> /\ Dispatch("submit", j)
        /\ QueuesKept /\ Numbered' = Numbered
    BY <1>2, KeepsQueues, NumbersKept DEF Submit
  <2>3. /\ \A kind \in Kinds, k \in Jobs :
              k # j \/ kind # "submit" => (Waits(kind, k)' <=> Waits(kind, k))
        /\ Waits("submit", j)'
    BY <2>1, <2>2, BlocksOfOthers, DispatchBlocks DEF Kinds, BlocksInv
  <2>4. \A k \in Jobs \ {j} : Untouched(k)
    BY <2>1, <2>2, <2>3 DEF Untouched, QueuesKept, Kinds
  <2>5. Handed(j)' = Handed(j)
    BY <2>2 DEF Handed
  <2>6. At(j, "sent")'
    BY <2>1, <2>2, <2>3, <2>5 DEF At, QueuesKept, Kinds, Answers
  <2>7. QED
    BY <2>4, <2>6, OneMoves DEF Places
<1>3. ASSUME NEW j \in Jobs, DeadlinePasses(j)
      PROVE  PlaceInv'
  BY <1>1, <1>3, BlocksKept DEF DeadlinePasses
<1>4. ASSUME NEW j \in Jobs, TimerFires(j)
      PROVE  PlaceInv'
  <2>1. Dispatch("timer", j) /\ ~Waits("timer", j)
    BY <1>4 DEF TimerFires, BlocksInv
  <2>2. \A kind \in {"submit", "finished"}, k \in Jobs : Waits(kind, k)' <=> Waits(kind, k)
    BY <2>1, BlocksOfOthers DEF Kinds
  <2>3. QED
    BY <1>1, <1>4, <2>2 DEF TimerFires
<1>5. ASSUME NEW j \in Jobs, Expire(j)
      PROVE  PlaceInv'
  <2>1. \A kind \in {"submit", "finished"}, k \in Jobs : Waits(kind, k)' <=> Waits(kind, k)
    BY <1>5, BlocksOfOthers DEF Expire, Kinds
  <2>2. CASE QueuesKept /\ UNCHANGED handed
    BY <1>1, <1>5, <2>1, <2>2 DEF Expire, QueuesKept
  <2>3. CASE Leaves(j) /\ HandOver(j, "expired")
    BY <1>5, <2>1, <2>3, LeavesPlace DEF Expire, Outcomes
  <2>4. QED
    BY <1>5, <2>2, <2>3, ExpireQueues
<1>6. CASE DrainTurn
  <2>1. PICK j \in Jobs : HandOver(j, "operation") /\ Leaves(j)
    BY <1>6, DrainQueues
  <2>2. UNCHANGED <<sent, answers, numbers, blocks>>
    BY <1>6 DEF DrainTurn
  <2>3. QED
    BY <2>1, <2>2, LeavesPlace, BlocksKept DEF Outcomes
<1>7. CASE DrainEnds \/ UNCHANGED vars
  <2>1. UNCHANGED <<queues, numbers, handed, sent, answers, blocks>>
    BY <1>7 DEF DrainEnds, vars
  <2>2. QED
    BY <1>1, <2>1, BlocksKept
<1>8. ASSUME NEW j \in Jobs, Finished(j)
      PROVE  PlaceInv'
  <2>1. At(j, "finishing") /\ Begins("finished", j)
    BY <1>8, BeforeFinished DEF Finished
  <2>2. UNCHANGED <<handed, sent, answers>> /\ QueuesKept /\ Numbered' = Numbered
    BY <1>8, KeepsQueues, NumbersKept DEF Finished
  <2>3. /\ \A kind \in Kinds, k \in Jobs :
              k # j \/ kind # "finished" => (Waits(kind, k)' <=> Waits(kind, k))
        /\ ~Waits("finished", j)'
    BY <2>1, BlocksOfOthers, BeginsBlocks DEF Kinds, BlocksInv
  <2>4. \A k \in Jobs \ {j} : Untouched(k)
    BY <2>2, <2>3 DEF Untouched, QueuesKept, Kinds
  <2>5. Handed(j)' = Handed(j)
    BY <2>2 DEF Handed
  <2>6. At(j, "over")'
    BY <2>1, <2>2, <2>3, <2>5 DEF At, QueuesKept, Kinds, Answers, Outcomes
  <2>7. QED
    BY <2>4, <2>6, OneMoves DEF Places
<1>9. QED
  BY <1>2, <1>3, <1>4, <1>5, <1>6, <1>7, <1>8, AcceptPlace, ExecutePlace
     DEF Next, StateStep

-----------------------------------------------------------------------------
(* Capacity.                                                                *)

LEMMA RunningIsHanded ==
    \A j \in Jobs : j \in Running <=> "operation" \in Handed(j)
  BY DEF Running, Handed, Outcomes

LEMMA CountsFollow ==
    ASSUME TypeOK', BlocksInv', active' = Cardinality(Running') + Cardinality(Finishing'),
           active' <= MaximumActive, draining' \/ active' = MaximumActive \/ ~HasJobs'
    PROVE  CapacityUsed'
  BY NextFinishingCount DEF CapacityUsed

\* A step that neither starts nor ends a conversion.
LEMMA SameCapacity ==
    ASSUME AppleInv, TypeOK', BlocksInv', Running' = Running, Finishing' = Finishing,
           active' = active, draining' \/ UNCHANGED <<groups, draining>>
    PROVE  CapacityUsed'
<1>1. HasJobs' => HasJobs \/ draining'
  BY DEF HasJobs
<1>2. active' = Cardinality(Running') + Cardinality(Finishing') /\ active' <= MaximumActive
  BY ActiveCount DEF AppleInv, CapacityUsed
<1>3. draining' \/ active' = MaximumActive \/ ~HasJobs'
  BY <1>1 DEF AppleInv, CapacityUsed
<1>4. QED
  BY <1>2, <1>3, CountsFollow

\* A queue with a job keeps its request in the rotation.
LEMMA QueuedMeansWork ==
    ASSUME TypeOK, RotationInv, NEW j \in Jobs, Queued(j)
    PROVE  HasJobs
<1>1. Priority[j] \in Priorities /\ Group[j] \in Groups
  BY JobConstants
<1>2. jobs[Priority[j]][Group[j]] # <<>>
  BY <1>1, QueuedInQueue, EmptyQueue DEF TypeOK
<1>3. groups[Priority[j]] # <<>>
  BY <1>1, <1>2, EmptyQueue DEF RotationInv, RotationOf, TypeOK
<1>4. QED
  BY <1>1, <1>3 DEF HasJobs

LEMMA CapacityStep ==
    ASSUME AppleInv, TypeOK', BlocksInv', [Next]_vars
    PROVE  CapacityUsed'
<1> USE DEF AppleInv, queues
<1>1. ASSUME UNCHANGED handed PROVE Running' = Running
  BY <1>1 DEF Running
<1>2. ASSUME NEW j \in Jobs, NEW kind \in Kinds \ {"finished"},
             \/ Begins(kind, j)
             \/ Dispatch(kind, j) /\ ~Waits(kind, j)
      PROVE  Finishing' = Finishing
  BY <1>2, BlocksOfOthers DEF Finishing, Kinds
<1>3. ASSUME UNCHANGED blocks PROVE Finishing' = Finishing
  BY <1>3, BlocksKept DEF Finishing
<1>4. ASSUME NEW j \in Jobs, Submit(j)
      PROVE  CapacityUsed'
  <2>1. Finishing' = Finishing
    BY <1>2, <1>4, BeforeSubmit DEF Submit, Kinds
  <2>2. QED
    BY <1>1, <1>4, <2>1, SameCapacity DEF Submit
<1>5. ASSUME NEW j \in Jobs, Accept(j)
      PROVE  CapacityUsed'
  <2>1. Finishing' = Finishing /\ active' = active
    BY <1>2, <1>5 DEF Accept, Kinds
  <2>2. ASSUME NEW what \in {"refused", "late"}, Declines(j, what)
        PROVE  CapacityUsed'
    <3>1. Running' = Running
      BY <2>2 DEF Declines, HandOver, Running
    <3>2. QED
      BY <2>1, <2>2, <3>1, SameCapacity DEF Declines
  <2>3. CASE Enqueue(j)
    BY <1>1, <2>1, <2>3, SameCapacity DEF Enqueue
  <2>4. QED
    BY <1>5, <2>2, <2>3, AcceptCases
<1>6. ASSUME NEW j \in Jobs, DeadlinePasses(j)
      PROVE  CapacityUsed'
  BY <1>1, <1>3, <1>6, SameCapacity DEF DeadlinePasses
<1>7. ASSUME NEW j \in Jobs, TimerFires(j)
      PROVE  CapacityUsed'
  <2>1. Dispatch("timer", j) /\ ~Waits("timer", j)
    BY <1>7 DEF TimerFires, BlocksInv
  <2>2. QED
    BY <1>1, <1>2, <1>7, <2>1, SameCapacity DEF TimerFires, Kinds
<1>8. ASSUME NEW j \in Jobs, Expire(j)
      PROVE  CapacityUsed'
  <2>1. Finishing' = Finishing /\ active' = active /\ draining' = draining
    BY <1>2, <1>8 DEF Expire, Kinds
  <2>2. CASE QueuesKept /\ UNCHANGED handed
    BY <1>1, <2>1, <2>2, SameCapacity DEF QueuesKept
  <2>3. CASE Leaves(j) /\ HandOver(j, "expired")
    <3>1. Running' = Running
      BY <2>3 DEF HandOver, Running
    <3>2. draining \/ active = MaximumActive
      BY <2>3, QueuedMeansWork DEF Leaves, CapacityUsed
    <3>3. active' = Cardinality(Running') + Cardinality(Finishing') /\ active' <= MaximumActive
      BY <2>1, <3>1, ActiveCount DEF CapacityUsed
    <3>4. QED
      BY <2>1, <3>2, <3>3, CountsFollow
  <2>4. QED
    BY <1>8, <2>2, <2>3, ExpireQueues
<1>9. CASE DrainTurn
  <2>1. PICK j \in Jobs : HandOver(j, "operation") /\ Leaves(j)
    BY <1>9, DrainQueues
  <2>2. active' = active + 1 /\ active < MaximumActive /\ draining /\ draining' = draining
        /\ UNCHANGED blocks
    BY <1>9 DEF DrainTurn, Room
  <2>3. j \notin Running
    BY <2>1, WhileQueued, RunningIsHanded DEF Leaves, At
  <2>4. Running' = Running \cup {j}
    BY <2>1 DEF HandOver, Running
  <2>5. Cardinality(Running') = Cardinality(Running) + 1
    BY <2>3, <2>4, ActiveCount, FS_AddElement
  <2>6. active' <= MaximumActive
    BY <2>2, AppleAssumption DEF TypeOK
  <2>7. active' = Cardinality(Running') + Cardinality(Finishing')
    BY <1>3, <2>2, <2>5, ActiveCount
  <2>8. QED
    BY <2>2, <2>6, <2>7, CountsFollow
<1>10. CASE DrainEnds
  <2>1. /\ UNCHANGED <<active, blocks, handed, groups>>
        /\ ~(active < MaximumActive) \/ ~HasJobs
    BY <1>10 DEF DrainEnds, Room
  <2>2. active = MaximumActive \/ ~HasJobs
    BY <2>1, AppleAssumption DEF CapacityUsed, TypeOK
  <2>3. active' = MaximumActive \/ ~HasJobs'
    BY <2>1, <2>2 DEF HasJobs
  <2>4. active' = Cardinality(Running') + Cardinality(Finishing') /\ active' <= MaximumActive
    BY <1>1, <1>3, <2>1, ActiveCount DEF CapacityUsed
  <2>5. QED
    BY <2>3, <2>4, CountsFollow
<1>11. ASSUME NEW j \in Jobs, NEW what \in Outcomes, Execute(j, what)
       PROVE  CapacityUsed'
  <2>1. UNCHANGED <<active, draining, groups>> /\ handed' = handed \ {<<j, what>>}
        /\ <<j, what>> \in handed
    BY <1>11 DEF Execute
  <2>2. CASE what = "operation"
    <3>1. Dispatch("finished", j) /\ ~Waits("finished", j)
      BY <1>11, <2>1, <2>2, BeforeExecute DEF Execute
    <3>2. Finishing' = Finishing \cup {j} /\ j \notin Finishing
      BY <3>1, DispatchBlocks DEF Finishing, BlocksInv, Kinds
    <3>3. Running' = Running \ {j} /\ j \in Running
      BY <2>1, <2>2 DEF Running
    <3>4. /\ Cardinality(Running') = Cardinality(Running) - 1
          /\ Cardinality(Finishing') = Cardinality(Finishing) + 1
      BY <3>2, <3>3, ActiveCount, FS_AddElement, FS_RemoveElement
    <3>5. active' = Cardinality(Running') + Cardinality(Finishing')
      BY <2>1, <3>4, ActiveCount
    <3>6. active' <= MaximumActive /\ (draining' \/ active' = MaximumActive \/ ~HasJobs')
      BY <2>1 DEF CapacityUsed, HasJobs
    <3>7. QED
      BY <3>5, <3>6, CountsFollow
  <2>3. CASE what # "operation"
    <3>1. Running' = Running
      BY <2>1, <2>3 DEF Running
    <3>2. Finishing' = Finishing
      BY <1>3, <1>11, <2>3 DEF Execute
    <3>3. QED
      BY <2>1, <3>1, <3>2, SameCapacity
  <2>4. QED
    BY <2>2, <2>3
<1>12. ASSUME NEW j \in Jobs, Finished(j)
       PROVE  CapacityUsed'
  <2>1. /\ Begins("finished", j) /\ active' = active - 1 /\ draining' /\ UNCHANGED handed
    BY <1>12 DEF Finished
  <2>2. Finishing' = Finishing \ {j} /\ j \in Finishing
    BY <2>1, BeginsBlocks DEF Finishing, BlocksInv, Kinds
  <2>3. Cardinality(Finishing') = Cardinality(Finishing) - 1
    BY <2>2, ActiveCount, FS_RemoveElement
  <2>4. active' = Cardinality(Running') + Cardinality(Finishing')
    BY <1>1, <2>1, <2>3, ActiveCount
  <2>5. active' <= MaximumActive
    BY <2>1, AppleAssumption DEF CapacityUsed, TypeOK
  <2>6. QED
    BY <2>1, <2>4, <2>5, CountsFollow
<1>13. CASE UNCHANGED vars
  BY <1>1, <1>3, <1>13, SameCapacity DEF vars
<1>14. QED
  BY <1>4, <1>5, <1>6, <1>7, <1>8, <1>9, <1>10, <1>11, <1>12, <1>13 DEF Next, StateStep

-----------------------------------------------------------------------------
(* The invariant.                                                           *)

LEMMA InitialState ==
    ASSUME Init
    PROVE  AppleInv
<1> USE DEF Init
<1>1. \A p \in Priorities, g \in Groups : groups[p] = <<>> /\ jobs[p][g] = <<>>
  OBVIOUS
<1>2. TypeOK
  <2>1. groups \in [Priorities -> Seq(Groups)] /\ jobs \in [Priorities -> [Groups -> Seq(Jobs)]]
    OBVIOUS
  <2>2. nextJob \in 1..IdLimit /\ id \in [Jobs -> 0..IdLimit] /\ index \in 0..6
    BY MoreNumbersThanJobs
  <2>3. started \in BOOLEAN /\ draining \in BOOLEAN /\ passed \in [Jobs -> BOOLEAN]
    BY Zenon
  <2>4. /\ blocks \in Seq([kind : {"submit", "timer", "finished"}, job : Jobs])
        /\ answers \in [Jobs -> Seq(Outcomes)]
    OBVIOUS
  <2>5. active \in Nat /\ timers \subseteq Jobs /\ handed \subseteq Jobs \X Outcomes
        /\ sent \subseteq Jobs
    OBVIOUS
  <2>6. QED
    BY <2>1, <2>2, <2>3, <2>4, <2>5, Zenon DEF TypeOK
<1>3. Distinct(<<>>) /\ \A x : ~InQueue(<<>>, x)
  BY DEF Distinct, InQueue
<1>4. RotationInv
  BY <1>1, <1>3 DEF RotationInv, RotationOf
<1>5. Numbered = {}
  BY DEF Numbered, NumberedIn
<1>6. NumbersInv
  BY <1>5 DEF NumbersInv, RecentNumbers, Numbered
<1>7. \A kind, j : ~Waits(kind, j)
  BY <1>3 DEF Waits
<1>8. BlocksInv
  BY <1>3, <1>7 DEF BlocksInv
<1>9. \A j \in Jobs : ~Queued(j) /\ Handed(j) = {}
  BY <1>1, <1>3, JobConstants, QueuedInQueue DEF Handed
<1>10. \A j \in Jobs : At(j, "new")
  BY <1>5, <1>7, <1>9 DEF At, Answers
<1>11. PlaceInv
  BY <1>10 DEF PlaceInv, Places
<1>12. Running = {} /\ Blocks("finished") = {}
  BY DEF Running, Blocks
<1>13. CapacityUsed
  <2>1. Cardinality(Running) = 0 /\ Cardinality(Blocks("finished")) = 0
    BY <1>12, FS_EmptySet
  <2>2. active = 0 /\ ~HasJobs
    BY DEF HasJobs
  <2>3. QED
    BY <2>1, <2>2, AppleAssumption DEF CapacityUsed
<1>14. QED
  BY <1>2, <1>4, <1>6, <1>8, <1>11, <1>13 DEF AppleInv

\* The invariant under every block of stateQueue, every timer and every block of
\* executionQueue: types, rotations, numbers, blocks, places and capacity.
THEOREM AppleInvariant == Spec => []AppleInv
<1>1. Init => AppleInv
  BY InitialState
<1>2. AppleInv /\ [Next]_vars => AppleInv'
  <2>1. AppleInv /\ [Next]_vars => TypeOK' /\ BlocksInv'
    BY TypeStep, BlocksStep
  <2>2. QED
    BY <2>1, QueuesStep, PlaceStep, CapacityStep DEF AppleInv
<1>3. QED
  BY <1>1, <1>2, PTL DEF Spec

\* submit, dequeue and expire keep queue.groups and queue.jobs in step, and no
\* two queued jobs have the same number although &+= wraps around: a number is
\* given again only when fewer jobs than numbers have been submitted in between.
THEOREM RotationAlwaysMatches == Spec => []RotationMatchesJobs
<1>1. AppleInv => RotationMatchesJobs
  <2> SUFFICES ASSUME AppleInv PROVE RotationMatchesJobs
    OBVIOUS
  <2> USE DEF AppleInv
  <2>1. ASSUME NEW j \in Jobs, Queued(j)
        PROVE  j \in Numbered
    BY <2>1, WhileQueued DEF At
  <2>2. \A j, k \in Jobs : Queued(j) /\ Queued(k) /\ id[j] = id[k] => j = k
    BY <2>1 DEF NumbersInv, RecentNumbers, Numbered
  <2>3. QED
    BY <2>2 DEF RotationInv, RotationOf, RotationMatchesJobs, Distinct, InQueue
<1>2. QED
  BY <1>1, AppleInvariant, PTL

\* drain fills the capacity and never exceeds it, and the count of active
\* conversions follows their starts and ends through both queues.
THEOREM CapacityAlwaysUsed == Spec => []CapacityUsed
<1>1. AppleInv => CapacityUsed
  BY DEF AppleInv
<1>2. QED
  BY <1>1, AppleInvariant, PTL

-----------------------------------------------------------------------------
(* The scheduler implements Admission.                                      *)

LEMMA KeptStatus ==
    ASSUME NEW j \in Jobs, Queued(j)' <=> Queued(j), answers'[j] = answers[j],
           \A what \in Outcomes : <<j, what>> \in handed' <=> <<j, what>> \in handed
    PROVE  Status(j)' = Status(j)
  BY DEF Status, Running, Outcomes

LEMMA RunningStatus ==
    ASSUME AppleInv, NEW j \in Jobs
    PROVE  Status(j) = "running" <=> j \in Running
<1>1. j \in Running => ~Queued(j)
  BY RunningIsHanded DEF AppleInv, PlaceInv, At
<1>2. QED
  BY <1>1 DEF Status

\* What the block that is handed over says of the job.
Says(what) == IF what = "operation" THEN "running"
              ELSE IF what = "expired" THEN "expired" ELSE "refused"

LEMMA HandedStatus ==
    ASSUME NEW j \in Jobs, ~Queued(j), NEW what \in Outcomes, Handed(j) = {what},
           answers[j] = <<>>
    PROVE  Status(j) = Says(what)
<1>1. \A a \in Outcomes : <<j, a>> \in handed <=> a = what
  BY DEF Handed
<1>2. \A a \in Outcomes : answers[j] # <<a>>
  OBVIOUS
<1>3. QED
  BY <1>1, <1>2 DEF Status, Running, Outcomes, Says

LEMMA HandedStatusNext ==
    ASSUME NEW j \in Jobs, ~Queued(j)', NEW what \in Outcomes, Handed(j)' = {what},
           answers'[j] = <<>>
    PROVE  Status(j)' = Says(what)
<1>1. \A a \in Outcomes : <<j, a>> \in handed' <=> a = what
  BY DEF Handed
<1>2. \A a \in Outcomes : answers'[j] # <<a>>
  OBVIOUS
<1>3. QED
  BY <1>1, <1>2 DEF Status, Running, Outcomes, Says

LEMMA NothingYet ==
    ASSUME NEW j \in Jobs, ~Queued(j), Handed(j) = {}, answers[j] = <<>>
    PROVE  Status(j) = "idle"
<1>1. \A a \in Outcomes : <<j, a>> \notin handed /\ answers[j] # <<a>>
  BY DEF Handed
<1>2. QED
  BY <1>1 DEF Status, Running, Outcomes

LEMMA Stutters ==
    ASSUME UNCHANGED passed, \A j \in Jobs : Status(j)' = Status(j)
    PROVE  UNCHANGED Promise!vars
  BY DEF Promise!vars

LEMMA BecomesInPromise ==
    ASSUME NEW j \in Jobs, NEW from, NEW to, Status(j) = from, Status(j)' = to,
           \A k \in Jobs \ {j} : Status(k)' = Status(k), UNCHANGED passed
    PROVE  Promise!Becomes(j, from, to)
<1>1. [k \in Jobs |-> Status(k)]' = [[k \in Jobs |-> Status(k)] EXCEPT ![j] = to]
  OBVIOUS
<1>2. QED
  BY <1>1 DEF Promise!Becomes

LEMMA QuietStep ==
    ASSUME RotationInv, UNCHANGED <<queues, handed, answers>>
    PROVE  \A j \in Jobs : Status(j)' = Status(j)
<1>1. QueuesKept
  BY KeepsQueues
<1>2. QED
  BY <1>1, KeptStatus DEF QueuesKept

LEMMA AcceptIsSubmit ==
    ASSUME AppleInv, NEW j \in Jobs, Accept(j)
    PROVE  Promise!Submit(j)
<1> USE DEF AppleInv
<1>1. At(j, "sent") /\ ~Queued(j)
  BY BeforeAccept DEF Accept
<1>2. Handed(j) = {} /\ answers[j] = <<>> /\ answers' = answers
  BY <1>1 DEF At, Answers, Accept
<1>3. Status(j) = "idle"
  BY <1>1, <1>2, NothingYet
<1>4. ASSUME NEW what \in {"refused", "late"}, Declines(j, what)
      PROVE  Promise!Submit(j)
  <2>1. QueuesKept /\ HandOver(j, what) /\ UNCHANGED passed
    BY <1>4, KeepsQueues DEF Declines, clock
  <2>2. /\ Handed(j)' = {what} /\ what \in Outcomes
        /\ \A k \in Jobs \ {j}, other \in Outcomes :
              <<k, other>> \in handed' <=> <<k, other>> \in handed
    BY <1>2, <2>1, HandOverEffect DEF Outcomes
  <2>3. Status(j)' = "refused"
    BY <1>1, <1>2, <2>1, <2>2, HandedStatusNext DEF QueuesKept, Says
  <2>4. \A k \in Jobs \ {j} : Status(k)' = Status(k)
    BY <1>2, <2>1, <2>2, KeptStatus DEF QueuesKept
  <2>5. Promise!Becomes(j, "idle", "refused")
    BY <1>3, <2>1, <2>3, <2>4, BecomesInPromise
  <2>6. QED
    BY <2>5 DEF Promise!Submit
<1>5. CASE Enqueue(j)
  <2>1. Joins(j) /\ handed' = handed /\ UNCHANGED passed
    BY <1>1, <1>5, EnqueueQueues DEF Enqueue
  <2>2. Status(j)' = "queued"
    BY <2>1 DEF Joins, Status
  <2>3. \A k \in Jobs \ {j} : Status(k)' = Status(k)
    BY <1>2, <2>1, KeptStatus DEF Joins
  <2>4. Promise!Becomes(j, "idle", "queued")
    BY <1>3, <2>1, <2>2, <2>3, BecomesInPromise
  <2>5. QED
    BY <2>4 DEF Promise!Submit
<1>6. QED
  BY <1>4, <1>5, AcceptCases

LEMMA LeavesStatus ==
    ASSUME AppleInv, NEW j \in Jobs, NEW what \in Outcomes, Leaves(j), HandOver(j, what),
           UNCHANGED <<answers, passed>>
    PROVE  Promise!Becomes(j, "queued", Says(what))
<1> USE DEF AppleInv
<1>1. At(j, "queued") /\ Queued(j)
  BY WhileQueued DEF Leaves
<1>2. Status(j) = "queued"
  BY <1>1 DEF Status
<1>3. Handed(j) = {} /\ answers[j] = <<>>
  BY <1>1 DEF At, Answers
<1>4. /\ Handed(j)' = {what}
      /\ \A k \in Jobs \ {j}, other \in Outcomes :
            <<k, other>> \in handed' <=> <<k, other>> \in handed
  BY <1>3, HandOverEffect
<1>5. ~Queued(j)' /\ answers'[j] = <<>>
  BY <1>3 DEF Leaves
<1>6. Status(j)' = Says(what)
  BY <1>4, <1>5, HandedStatusNext
<1>7. \A k \in Jobs \ {j} : Status(k)' = Status(k)
  BY <1>4, KeptStatus DEF Leaves
<1>8. QED
  BY <1>2, <1>6, <1>7, BecomesInPromise

LEMMA DrainIsStart ==
    ASSUME AppleInv, DrainTurn
    PROVE  \E j \in Jobs : Promise!Start(j)
<1> USE DEF AppleInv
<1>1. PICK j \in Jobs : HandOver(j, "operation") /\ Leaves(j)
  BY DrainQueues
<1>2. UNCHANGED <<answers, passed>> /\ active < MaximumActive
  BY DEF DrainTurn, clock, Room
<1>3. Promise!Becomes(j, "queued", "running")
  BY <1>1, <1>2, LeavesStatus DEF Outcomes, Says
<1>4. {k \in Jobs : [i \in Jobs |-> Status(i)][k] = "running"} = Running
  BY RunningStatus DEF Running
<1>5. Cardinality(Running) < MaximumActive
  BY <1>2, ActiveCount, AppleAssumption
<1>6. Promise!Cardinality(Running) = Cardinality(Running)
  BY Zenon DEF Cardinality, Promise!Cardinality
<1>7. Promise!Start(j)
  BY <1>3, <1>4, <1>5, <1>6 DEF Promise!Start
<1>8. QED
  BY <1>7

LEMMA ExpireIsExpire ==
    ASSUME AppleInv, NEW j \in Jobs, Expire(j)
    PROVE  Promise!Expire(j) \/ UNCHANGED Promise!vars
<1> USE DEF AppleInv
<1>1. UNCHANGED <<answers, passed>>
  BY DEF Expire, clock
<1>2. CASE QueuesKept /\ UNCHANGED handed
  <2>1. \A k \in Jobs : Status(k)' = Status(k)
    BY <1>1, <1>2, QuietStep DEF QueuesKept
  <2>2. QED
    BY <1>1, <2>1, Stutters
<1>3. CASE Leaves(j) /\ HandOver(j, "expired")
  <2>1. Waits("timer", j)
    BY BeginsBlocks DEF Expire, BlocksInv, Kinds
  <2>2. passed[j]
    BY <2>1 DEF BlocksInv
  <2>3. Promise!Becomes(j, "queued", "expired")
    BY <1>1, <1>3, LeavesStatus DEF Outcomes, Says
  <2>4. QED
    BY <2>2, <2>3 DEF Promise!Expire
<1>4. QED
  BY <1>2, <1>3, ExpireQueues

LEMMA ExecuteIsFinish ==
    ASSUME AppleInv, NEW j \in Jobs, NEW what \in Outcomes, Execute(j, what)
    PROVE  Promise!Finish(j) \/ UNCHANGED Promise!vars
<1> USE DEF AppleInv
<1>1. /\ answers' = [answers EXCEPT ![j] = <<what>>]
      /\ Handed(j) = {what} /\ Handed(j)' = {}
  BY ExecutePlace
<1>2. /\ UNCHANGED passed /\ QueuesKept
      /\ handed' = handed \ {<<j, what>>}
  BY KeepsQueues DEF Execute, clock
<1>3. ~Queued(j) /\ answers[j] = <<>>
  BY BeforeExecute DEF Execute
<1>4. Status(j) = Says(what)
  BY <1>1, <1>3, HandedStatus
<1>5. \A k \in Jobs \ {j} : Status(k)' = Status(k)
  BY <1>1, <1>2, KeptStatus DEF QueuesKept, TypeOK
<1>6. Status(j)' = IF what = "operation" THEN "done" ELSE Says(what)
  <2>1. answers'[j] = <<what>> /\ ~Queued(j)'
    BY <1>1, <1>2, <1>3 DEF TypeOK, QueuesKept
  <2>2. \A a \in Outcomes : <<j, a>> \notin handed'
    BY <1>1 DEF Handed
  <2>3. \A a \in Outcomes : answers'[j] = <<a>> <=> a = what
    BY <2>1
  <2>4. QED
    BY <2>1, <2>2, <2>3 DEF Status, Running, Outcomes, Says
<1>7. CASE what = "operation"
  <2>1. Promise!Becomes(j, "running", "done")
    BY <1>2, <1>4, <1>5, <1>6, <1>7, BecomesInPromise DEF Says
  <2>2. QED
    BY <2>1 DEF Promise!Finish
<1>8. CASE what # "operation"
  BY <1>2, <1>4, <1>5, <1>6, <1>8, Stutters
<1>9. QED
  BY <1>7, <1>8

LEMMA StepRefines ==
    ASSUME AppleInv, [Next]_vars
    PROVE  [Promise!Next]_(Promise!vars)
<1> USE DEF AppleInv, clock
<1>1. ASSUME UNCHANGED <<queues, handed, answers, passed>>
      PROVE  UNCHANGED Promise!vars
  BY <1>1, QuietStep, Stutters
<1>2. ASSUME NEW j \in Jobs, Submit(j) \/ TimerFires(j) \/ Finished(j)
      PROVE  UNCHANGED Promise!vars
  BY <1>1, <1>2 DEF Submit, TimerFires, Finished
<1>3. ASSUME NEW j \in Jobs, DeadlinePasses(j)
      PROVE  Promise!Pass(j)
  <2>1. passed' = [passed EXCEPT ![j] = TRUE] /\ UNCHANGED <<queues, handed, answers>>
    BY <1>3 DEF DeadlinePasses
  <2>2. [k \in Jobs |-> Status(k)]' = [k \in Jobs |-> Status(k)]
    BY <2>1, QuietStep
  <2>3. QED
    BY <2>1, <2>2 DEF Promise!Pass
<1>4. CASE DrainEnds \/ UNCHANGED vars
  BY <1>1, <1>4 DEF DrainEnds, vars
<1>5. QED
  BY <1>2, <1>3, <1>4, AcceptIsSubmit, ExpireIsExpire, DrainIsStart, ExecuteIsFinish
     DEF Next, StateStep, Promise!Next

\* The scheduler does only what Admission allows, in whatever order the blocks
\* of the two queues are executed: no more than the maximum at once, each job
\* started at most once, none after it expired or before it was accepted, and a
\* timer removes only the job that it was set for.
THEOREM SchedulerImplementsAdmission == Spec => ImplementsAdmission
<1>1. Init => Promise!Init
  <2>1. ASSUME Init, NEW j \in Jobs
        PROVE  Status(j) = "idle"
    <3>1. AppleInv /\ j \notin sent /\ answers[j] = <<>>
      BY <2>1, InitialState DEF Init
    <3>2. At(j, "new")
      BY <3>1, BeforeSubmit DEF AppleInv
    <3>3. QED
      BY <3>1, <3>2, NothingYet DEF At
  <2>2. QED
    BY <2>1 DEF Init, Promise!Init
<1>2. AppleInv /\ [Next]_vars => [Promise!Next]_(Promise!vars)
  BY StepRefines
<1>3. QED
  BY <1>1, <1>2, AppleInvariant, PTL DEF Spec, ImplementsAdmission, Promise!Spec
=============================================================================
