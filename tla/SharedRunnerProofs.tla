-------------------------- MODULE SharedRunnerProofs --------------------------
(***************************************************************************)
(* Proofs about SharedRunner, for every pool, every set of invocations and *)
(* every chunk size: the counters and the threads; that the ready queues   *)
(* hold exactly the work there is, and a worker comes for it; and that     *)
(* every step is a step or a stutter of ParallelFor, what libjxl is        *)
(* promised.                                                               *)
(***************************************************************************)
EXTENDS SharedRunner, QueueLemmas, FiniteSetTheorems, TLAPS

-----------------------------------------------------------------------------
(* The helpers that run with the mutex held.                                *)

\* QueueLocked only ever raises the queued flag of an invocation.
LEMMA QueueLockedEffect ==
    ASSUME NEW i \in Invocations, NEW v \in InvocationType
    PROVE  /\ QueueLocked(i, v) \in InvocationType
           /\ QueueLocked(i, v).next = v.next
           /\ QueueLocked(i, v).busy = v.busy
           /\ QueueLocked(i, v).active = v.active
           /\ QueueLocked(i, v).cancelled = v.cancelled
           /\ QueueLocked(i, v).failed = v.failed
           /\ QueueLocked(i, v).completed = v.completed
  BY DEF QueueLocked, InvocationType

\* FinishIfReadyLocked completes an invocation only when no chunk is active and
\* there is a reason: an interruption, or an exhausted range.
LEMMA FinishEffect ==
    ASSUME NEW i \in Invocations, NEW v \in InvocationType, Items[i] \in Nat
    PROVE  /\ FinishIfReadyLocked(i, v) \in InvocationType
           /\ FinishIfReadyLocked(i, v).next = v.next
           /\ FinishIfReadyLocked(i, v).busy = v.busy
           /\ FinishIfReadyLocked(i, v).active = v.active
           /\ FinishIfReadyLocked(i, v).cancelled = v.cancelled
           /\ FinishIfReadyLocked(i, v).failed = v.failed
           /\ v.completed => FinishIfReadyLocked(i, v).completed
           /\ FinishIfReadyLocked(i, v).completed /\ ~v.completed =>
                 /\ v.active = 0
                 /\ v.cancelled \/ v.failed \/ v.next >= Items[i]
<1> DEFINE waits == v.active # 0 \/ (~v.cancelled /\ ~v.failed /\ v.next < Items[i])
<1>1. CASE waits
  <2>1. FinishIfReadyLocked(i, v) = v
    BY <1>1 DEF FinishIfReadyLocked
  <2>2. QED
    BY <2>1
<1>2. CASE ~waits
  <2>1. FinishIfReadyLocked(i, v) = [v EXCEPT !.completed = TRUE, !.queued = FALSE]
    BY <1>2 DEF FinishIfReadyLocked
  <2>2. v.next \in Nat
    BY DEF InvocationType
  <2>3. v.active = 0 /\ (v.cancelled \/ v.failed \/ v.next >= Items[i])
    BY <1>2, <2>2
  <2> HIDE DEF waits
  <2>4. QED
    BY <2>1, <2>3 DEF InvocationType
<1>3. QED
  BY <1>1, <1>2

\* CancelLocked leaves the lanes alone and exhausts the range.
LEMMA CancelEffect ==
    ASSUME NEW i \in Invocations, NEW v \in InvocationType, Items[i] \in Nat
    PROVE  /\ CancelLocked(i, v) \in InvocationType
           /\ CancelLocked(i, v).next = Items[i]
           /\ CancelLocked(i, v).busy = v.busy
           /\ CancelLocked(i, v).active = v.active
           /\ CancelLocked(i, v).cancelled
           /\ CancelLocked(i, v).failed = v.failed
           /\ v.completed => CancelLocked(i, v).completed
           /\ CancelLocked(i, v).completed /\ ~v.completed => v.active = 0
<1> DEFINE u == [v EXCEPT !.cancelled = TRUE, !.next = Items[i], !.queued = FALSE]
<1>1. /\ u \in InvocationType
      /\ u.next = Items[i]
      /\ u.busy = v.busy
      /\ u.active = v.active
      /\ u.cancelled
      /\ u.failed = v.failed
      /\ u.completed = v.completed
  BY DEF InvocationType
<1>2. CancelLocked(i, v) = FinishIfReadyLocked(i, u)
  BY DEF CancelLocked
<1> HIDE DEF u
<1>3. QED
  BY <1>1, <1>2, FinishEffect

\* Storing an invocation changes no other one, and brings no entry into a queue
\* but its own.
LEMMA StoreEffect ==
    ASSUME TypeOK, NEW i \in Invocations, NEW v \in InvocationType, Store(i, v),
           Priority[i] \in Priorities
    PROVE  /\ inv' \in [Invocations -> InvocationType]
           /\ inv'[i] = v
           /\ \A j \in Invocations \ {i} : inv'[j] = inv[j]
           /\ ready' \in [Priorities -> Seq(Invocations)]
           /\ \A p \in Priorities : \A k \in DOMAIN ready'[p] :
                 \/ ready'[p][k] = i
                 \/ \E m \in DOMAIN ready[p] : ready'[p][k] = ready[p][m]
<1>1. /\ inv' \in [Invocations -> InvocationType]
      /\ inv'[i] = v
      /\ \A j \in Invocations \ {i} : inv'[j] = inv[j]
  BY DEF TypeOK, Store
<1> DEFINE q == ready[Priority[i]]
           r == IF v.queued /\ ~inv[i].queued THEN Append(q, i)
                ELSE IF ~v.queued THEN RemoveFirst(q, i)
                ELSE q
<1>2. q \in Seq(Invocations) /\ ready' = [ready EXCEPT ![Priority[i]] = r]
  BY DEF TypeOK, Store
<1>3. /\ r \in Seq(Invocations)
      /\ \A k \in 1 .. Len(r) : r[k] = i \/ \E m \in 1 .. Len(q) : r[k] = q[m]
  <2>1. CASE v.queued /\ ~inv[i].queued
    <3>1. r = Append(q, i)
      BY <2>1
    <3>2. /\ Append(q, i) \in Seq(Invocations)
          /\ Len(Append(q, i)) = Len(q) + 1
          /\ \A k \in 1 .. Len(q) : Append(q, i)[k] = q[k]
          /\ Append(q, i)[Len(q) + 1] = i
      BY <1>2, AppendProperties
    <3>3. Len(q) \in Nat
      BY <1>2, LenProperties
    <3> HIDE DEF q, r
    <3>4. QED
      BY <3>1, <3>2, <3>3
  <2>2. CASE ~v.queued
    <3>1. r = RemoveFirst(q, i)
      BY <2>2
    <3> HIDE DEF q, r
    <3>2. QED
      BY <1>2, <3>1, RemoveFirstProperties
  <2>3. CASE v.queued /\ inv[i].queued
    <3>1. r = q
      BY <2>3
    <3> HIDE DEF q, r
    <3>2. QED
      BY <1>2, <3>1
  <2>4. v.queued \in BOOLEAN /\ inv[i].queued \in BOOLEAN
    BY DEF TypeOK, InvocationType
  <2>5. QED
    BY <2>1, <2>2, <2>3, <2>4
<1> HIDE DEF r
<1>4. ready' \in [Priorities -> Seq(Invocations)]
  BY <1>2, <1>3 DEF TypeOK
<1>5. ASSUME NEW p \in Priorities, NEW k \in DOMAIN ready'[p]
      PROVE  \/ ready'[p][k] = i
             \/ \E m \in DOMAIN ready[p] : ready'[p][k] = ready[p][m]
  <2>1. CASE p = Priority[i]
    <3>1. ready'[p] = r
      BY <1>2, <2>1 DEF TypeOK
    <3>2. DOMAIN r = 1 .. Len(r) /\ DOMAIN q = 1 .. Len(q)
      BY <1>2, <1>3, LenProperties
    <3>3. QED
      BY <1>3, <2>1, <3>1, <3>2
  <2>2. CASE p # Priority[i]
    <3>1. ready'[p] = ready[p]
      BY <1>2, <2>2 DEF TypeOK
    <3>2. QED
      BY <3>1
  <2>3. QED
    BY <2>1, <2>2
<1>6. QED
  BY <1>1, <1>4, <1>5

-----------------------------------------------------------------------------
(* Steps that no chunk in flight notices.                                   *)

PcState == {"checking", "waiting", "taking", "exited"} \cup InFlight

\* A notification moves sleeping workers only.
LEMMA NotifyOneEffect ==
    ASSUME NEW p \in [Workers -> PcState], NEW q \in NotifyOne(p)
    PROVE  /\ q \in [Workers -> PcState]
           /\ \A w \in Workers : q[w] = p[w]
                 \/ (p[w] = "waiting" /\ q[w] = "checking")
<1> DEFINE waiting == {w \in Workers : p[w] = "waiting"}
<1>1. CASE waiting = {}
  BY <1>1 DEF NotifyOne
<1>2. CASE waiting # {}
  <2>1. PICK w \in waiting : q = [p EXCEPT ![w] = "checking"]
    BY <1>2 DEF NotifyOne
  <2>2. QED
    BY <2>1 DEF PcState
<1>3. QED
  BY <1>1, <1>2

LEMMA NotifyAllEffect ==
    ASSUME NEW p \in [Workers -> PcState]
    PROVE  /\ NotifyAll(p) \in [Workers -> PcState]
           /\ \A w \in Workers : NotifyAll(p)[w] = p[w]
                 \/ (p[w] = "waiting" /\ NotifyAll(p)[w] = "checking")
  BY DEF NotifyAll, PcState

\* The lanes of a finite pool and of its invocations can be counted.
LEMMA HoldersFinite ==
    ASSUME NEW i \in Invocations
    PROVE  IsFiniteSet(Holders(i))
  BY SharedRunnerAssumption, FS_Subset DEF Holders

\* An invocation without an active chunk has no holder.
LEMMA InactiveIsFree ==
    ASSUME LanesMatchWorkers, NEW i \in Invocations, inv[i].active = 0
    PROVE  Holders(i) = {}
  BY HoldersFinite, FS_EmptySet DEF LanesMatchWorkers

\* Workers move outside their chunks, and calls inside the pool.
LEMMA IdleStep ==
    ASSUME RunnerInv, TypeOK',
           UNCHANGED <<inv, ready, chunk, called>>,
           \A w \in Workers : \/ pc'[w] = pc[w]
                              \/ pc[w] \notin InFlight /\ pc'[w] \notin InFlight,
           \A i \in Invocations : \/ caller'[i] = caller[i]
                                  \/ InPool(i) /\ InPool(i)'
    PROVE  RunnerInv'
<1>1. \A w \in Workers, i \in Invocations : WorksOn(w, i)' <=> WorksOn(w, i)
  BY DEF WorksOn
<1>2. \A i \in Invocations : Holders(i)' = Holders(i)
  BY <1>1 DEF Holders
<1>3. \A w \in Workers : \A i, v : Owes(w, i, v)' <=> Owes(w, i, v)
  BY DEF Owes, InFlight
<1>4. \A i \in Invocations : InPool(i)' <=> InPool(i)
  BY DEF InPool
<1>5. \A i \in Invocations : caller'[i] \notin {"notifying", "polling"} =>
          caller'[i] = caller[i]
  BY DEF InPool
<1>6. ChunksBelowNext'
  BY DEF RunnerInv, ChunksBelowNext, InFlight
<1>7. LanesMatchWorkers'
  BY <1>2 DEF RunnerInv, LanesMatchWorkers, Lanes, LaneCount
<1>8. NoWorkAfterReturn'
  BY <1>2, <1>4 DEF RunnerInv, NoWorkAfterReturn
<1>9. EveryValueOnce'
  <2>1. \A i \in Invocations : caller'[i] = "success" => caller[i] = "success"
    BY <1>5
  <2>2. QED
    BY <1>3, <2>1 DEF RunnerInv, EveryValueOnce
<1>10. ValuesAccountedFor'
  <2>1. \A i \in Invocations : Interrupted(i)' <=> Interrupted(i)
    BY <1>2 DEF Interrupted, Holders, WorksOn, InFlight
  <2>2. QED
    BY <1>3, <2>1 DEF RunnerInv, ValuesAccountedFor
<1>11. CompletionIsFinal'
  BY DEF RunnerInv, CompletionIsFinal
<1>12. QueuedRunsWait'
  <2>1. \A i \in Invocations : caller'[i] \in {"idle", "submitting"} => inv'[i] = Fresh
    BY <1>5 DEF RunnerInv, QueuedRunsWait, Fresh
  <2>2. \A p \in Priorities : \A k \in DOMAIN ready[p] : ready[p][k] \in Invocations
    BY ElementOfSeq, LenProperties DEF RunnerInv, TypeOK
  <2>3. QED
    BY <1>4, <2>1, <2>2 DEF RunnerInv, QueuedRunsWait
<1>13. QED
  BY <1>6, <1>7, <1>8, <1>9, <1>10, <1>11, <1>12 DEF RunnerInv

-----------------------------------------------------------------------------
(* Steps that change one invocation and no chunk in flight.                 *)

\* What an invocation may become without a lane of it being touched.
Evolves(i, v) ==
    /\ v.busy = inv[i].busy /\ v.active = inv[i].active
    /\ v.failed = inv[i].failed
    /\ inv[i].cancelled => v.cancelled
    /\ inv[i].completed => v.completed
    /\ \/ v.next = inv[i].next
       \/ v.next = Items[i] /\ v.cancelled
    /\ v.completed /\ ~inv[i].completed =>
          v.active = 0 /\ (v.cancelled \/ v.failed \/ v.next = Items[i])

\* What its call may do meanwhile: it leaves the pool only when v is complete.
CallerAgrees(i, v) ==
    /\ InPool(i)' \/ v.completed
    /\ \/ InPool(i)'
       \/ caller'[i] = caller[i]
       \/ caller'[i] = "success" /\ ~v.cancelled /\ ~v.failed
       \/ caller'[i] = "error"
    /\ caller'[i] \in {"idle", "submitting"} => v = Fresh

\* Its lanes stay as they are; its range moves only by being cancelled; its
\* call returns only when it is complete.
LEMMA InvocationStep ==
    ASSUME RunnerInv, TypeOK', UNCHANGED <<pc, chunk, called>>,
           NEW i \in Invocations, NEW v \in InvocationType,
           inv'[i] = v,
           \A j \in Invocations \ {i} : inv'[j] = inv[j] /\ caller'[j] = caller[j],
           Evolves(i, v), CallerAgrees(i, v),
           \A p \in Priorities : \A k \in DOMAIN ready'[p] :
                 \/ ready'[p][k] = i
                 \/ \E m \in DOMAIN ready[p] : ready'[p][k] = ready[p][m]
    PROVE  RunnerInv'
<1> USE DEF RunnerInv, Evolves, CallerAgrees
<1>1. \A w \in Workers, j \in Invocations : WorksOn(w, j)' <=> WorksOn(w, j)
  BY DEF WorksOn
<1>2. \A j \in Invocations : Holders(j)' = Holders(j)
  BY <1>1 DEF Holders
<1>3. \A w \in Workers : \A j, x : Owes(w, j, x)' <=> Owes(w, j, x)
  BY DEF Owes
<1>4. \A j \in Invocations : inv'[j].next >= inv[j].next
  <2>1. \A j \in Invocations : inv[j].next \in Nat /\ inv[j].next <= Items[j]
    BY DEF ChunksBelowNext, TypeOK, InvocationType
  <2>2. inv'[i].next >= inv[i].next
    BY <2>1
  <2>3. \A j \in Invocations \ {i} : inv'[j].next >= inv[j].next
    BY <2>1
  <2>4. QED
    BY <2>2, <2>3
<1>5. \A j \in Invocations \ {i} : InPool(j)' <=> InPool(j)
  BY DEF InPool
<1>6. ChunksBelowNext'
  <2>1. \A j \in Invocations : inv'[j].next <= Items[j]
    BY SharedRunnerAssumption DEF ChunksBelowNext
  <2>2. ASSUME NEW w \in Workers, pc'[w] \in InFlight
        PROVE  /\ chunk'[w].inv \in Invocations
               /\ chunk'[w].value <= chunk'[w].end
               /\ chunk'[w].end <= inv'[chunk'[w].inv].next
    <3>1. /\ chunk[w].inv \in Invocations
          /\ chunk[w].value <= chunk[w].end
          /\ chunk[w].end <= inv[chunk[w].inv].next
      BY <2>2 DEF ChunksBelowNext
    <3>2. inv'[chunk[w].inv].next >= inv[chunk[w].inv].next
      BY <1>4, <3>1
    <3>3. /\ chunk[w].end \in Nat
          /\ inv[chunk[w].inv].next \in Nat
          /\ inv'[chunk[w].inv].next \in Nat
      BY <3>1 DEF TypeOK, InvocationType
    <3>4. QED
      BY <3>1, <3>2, <3>3
  <2>3. QED
    BY <2>1, <2>2 DEF ChunksBelowNext
<1>7. LanesMatchWorkers'
  <2>1. \A j \in Invocations : inv'[j].busy = inv[j].busy /\ inv'[j].active = inv[j].active
    OBVIOUS
  <2>2. QED
    BY <1>2, <2>1 DEF LanesMatchWorkers, Lanes, LaneCount
<1>8. CompletionIsFinal'
  BY DEF CompletionIsFinal
<1>9. v.completed => Holders(i) = {}
  BY InactiveIsFree DEF CompletionIsFinal
<1>10. NoWorkAfterReturn'
  BY <1>2, <1>5, <1>9 DEF NoWorkAfterReturn
<1>11. ValuesAccountedFor'
  <2>1. ASSUME NEW j \in Invocations, NEW x \in called[j]
        PROVE  x < inv'[j].next
    <3>1. x < inv[j].next /\ x \in Nat
      BY DEF ValuesAccountedFor, TypeOK
    <3>2. inv[j].next \in Nat /\ inv'[j].next \in Nat
      BY DEF TypeOK, InvocationType
    <3>3. QED
      BY <1>4, <3>1, <3>2
  <2>2. \A j \in Invocations : ~Interrupted(j)' =>
            ~Interrupted(j) /\ inv'[j].next = inv[j].next
    BY <1>2 DEF Interrupted
  <2>3. QED
    BY <1>3, <2>1, <2>2 DEF ValuesAccountedFor
<1>12. EveryValueOnce'
  <2>1. ASSUME NEW j \in Invocations, caller'[j] = "success"
        PROVE  called[j] = 0 .. Items[j] - 1
    <3>1. CASE caller[j] = "success"
      BY <3>1 DEF EveryValueOnce
    <3>2. CASE caller[j] # "success"
      <4>1. j = i /\ v.completed /\ ~v.cancelled /\ ~v.failed
        BY <2>1, <3>2 DEF InPool
      <4>2. v.next = Items[i]
        BY <4>1 DEF CompletionIsFinal, TypeOK, InvocationType
      <4>3. Holders(i) = {}
        BY <1>9, <4>1
      <4>4. ~Interrupted(i)'
        BY <1>2, <4>1, <4>3 DEF Interrupted
      <4>5. \A w \in Workers : \A x : ~Owes(w, i, x)
        BY <4>3 DEF Owes, Holders, WorksOn, InFlight
      <4>6. \A x \in 0 .. Items[i] - 1 : x \in called[i]
        BY <1>3, <1>11, <4>2, <4>4, <4>5 DEF ValuesAccountedFor
      <4>7. \A x \in called[i] : x \in Nat /\ x < Items[i]
        BY <1>11, <4>2 DEF ValuesAccountedFor, TypeOK
      <4>8. Items[i] \in Nat
        BY SharedRunnerAssumption
      <4>9. \A x \in called[i] : x \in 0 .. Items[i] - 1
        BY <4>7, <4>8
      <4>10. QED
        BY <4>1, <4>6, <4>9
    <3>3. QED
      BY <3>1, <3>2
  <2>2. QED
    BY <1>3, <2>1 DEF EveryValueOnce
<1>13. QueuedRunsWait'
  <2>1. \A j \in Invocations : caller'[j] \in {"idle", "submitting"} => inv'[j] = Fresh
    BY DEF QueuedRunsWait, Fresh
  <2>2. \A p \in Priorities : \A k \in DOMAIN ready[p] : ready[p][k] \in Invocations
    BY ElementOfSeq, LenProperties DEF TypeOK
  <2>3. InPool(i)' \/ inv'[i].completed
    OBVIOUS
  <2>4. ASSUME NEW p \in Priorities, NEW k \in DOMAIN ready'[p]
        PROVE  \/ caller'[ready'[p][k]] \in {"notifying", "polling"}
               \/ inv'[ready'[p][k]].completed
    <3>1. CASE ready'[p][k] = i
      BY <2>3, <3>1 DEF InPool
    <3>2. CASE ready'[p][k] # i
      <4>1. PICK m \in DOMAIN ready[p] : ready'[p][k] = ready[p][m]
        BY <3>2
      <4>2. /\ ready[p][m] \in Invocations \ {i}
            /\ InPool(ready[p][m]) \/ inv[ready[p][m]].completed
        BY <2>2, <3>2, <4>1 DEF QueuedRunsWait
      <4>3. QED
        BY <4>1, <4>2 DEF InPool
    <3>3. QED
      BY <3>1, <3>2
  <2>5. QED
    BY <2>1, <2>4 DEF QueuedRunsWait, InPool
<1>14. QED
  BY <1>6, <1>7, <1>8, <1>10, <1>11, <1>12, <1>13

-----------------------------------------------------------------------------
(* The initial states and the caller's steps.                               *)

LEMMA FreshIsInvocation == Fresh \in InvocationType
  BY DEF Fresh, InvocationType

\* The members of a queue are invocations.
LEMMA QueueMembers ==
    ASSUME TypeOK, NEW p \in Priorities, NEW k \in DOMAIN ready[p]
    PROVE  ready[p][k] \in Invocations
  BY ElementOfSeq, LenProperties DEF TypeOK

LEMMA InitEstablishes == Init => RunnerInv
<1> SUFFICES ASSUME Init PROVE RunnerInv
  OBVIOUS
<1>1. TypeOK
  BY FreshIsInvocation, EmptySeq DEF TypeOK, Init, NoChunk
<1>2. \A i \in Invocations : Holders(i) = {}
  BY DEF Holders, WorksOn, InFlight, Init
<1>3. \A w \in Workers : \A i, v : ~Owes(w, i, v)
  BY DEF Owes, Init
<1>4. ChunksBelowNext
  BY SharedRunnerAssumption DEF ChunksBelowNext, Init, Fresh, InFlight
<1>5. LanesMatchWorkers
  <2>1. \A i \in Invocations : inv[i].busy = {} /\ inv[i].active = 0
    BY DEF Init, Fresh
  <2>2. QED
    BY <1>2, <2>1, FS_EmptySet DEF LanesMatchWorkers
<1>6. NoWorkAfterReturn
  BY <1>2 DEF NoWorkAfterReturn
<1>7. EveryValueOnce
  BY <1>3 DEF EveryValueOnce, Init
<1>8. ValuesAccountedFor
  BY DEF ValuesAccountedFor, Init, Fresh
<1>9. CompletionIsFinal
  BY DEF CompletionIsFinal, Init, Fresh
<1>10. QueuedRunsWait
  BY DEF QueuedRunsWait, Init, Priorities
<1>11. QED
  BY <1>1, <1>4, <1>5, <1>6, <1>7, <1>8, <1>9, <1>10 DEF RunnerInv

LEMMA EnterPreserves ==
    ASSUME RunnerInv, NEW i \in Invocations, Enter(i)
    PROVE  RunnerInv'
<1> USE DEF RunnerInv
<1>1. /\ caller[i] = "idle"
      /\ caller' = [caller EXCEPT ![i] = caller'[i]]
      /\ caller'[i] \in {"error", "success", "submitting"}
      /\ caller'[i] = "success" => Items[i] = 0
      /\ UNCHANGED <<inv, ready, pc, chunk, called>>
  BY DEF Enter, poolVars, TypeOK
<1>2. TypeOK'
  BY <1>1 DEF TypeOK, Enter, poolVars
<1>3. inv[i] = Fresh
  BY <1>1 DEF QueuedRunsWait
<1>4. /\ \A j \in Invocations : Holders(j)' = Holders(j)
      /\ \A w \in Workers : \A j, x : Owes(w, j, x)' <=> Owes(w, j, x)
      /\ \A j \in Invocations : InPool(j)' <=> InPool(j)
  BY <1>1 DEF Holders, WorksOn, Owes, InPool, TypeOK
<1>5. ChunksBelowNext'
  BY <1>1 DEF ChunksBelowNext
<1>6. LanesMatchWorkers'
  BY <1>1, <1>4 DEF LanesMatchWorkers, Lanes, LaneCount
<1>7. NoWorkAfterReturn'
  BY <1>4 DEF NoWorkAfterReturn
<1>8. EveryValueOnce'
  <2>1. called[i] = {}
    BY <1>3 DEF ValuesAccountedFor, Fresh, TypeOK
  <2>2. caller'[i] = "success" => called[i] = 0 .. Items[i] - 1
    <3>1. 0 .. 0 - 1 = {}
      OBVIOUS
    <3>2. QED
      BY <1>1, <2>1, <3>1
  <2>3. \A j \in Invocations \ {i} : caller'[j] = caller[j]
    BY <1>1 DEF TypeOK
  <2>4. QED
    BY <1>1, <1>4, <2>2, <2>3 DEF EveryValueOnce
<1>9. ValuesAccountedFor'
  BY <1>1, <1>4 DEF ValuesAccountedFor, Interrupted
<1>10. CompletionIsFinal'
  BY <1>1 DEF CompletionIsFinal
<1>11. QueuedRunsWait'
  <2>1. \A j \in Invocations : caller'[j] \in {"idle", "submitting"} => inv[j] = Fresh
    BY <1>1, <1>3 DEF QueuedRunsWait, TypeOK, Fresh
  <2>2. QED
    BY <1>1, <1>4, <2>1, QueueMembers DEF QueuedRunsWait, Fresh
<1>12. QED
  BY <1>2, <1>5, <1>6, <1>7, <1>8, <1>9, <1>10, <1>11

LEMMA SubmitPreserves ==
    ASSUME RunnerInv, NEW i \in Invocations, Submit(i)
    PROVE  RunnerInv'
<1> USE DEF RunnerInv
<1>1. Items[i] \in Nat /\ Priority[i] \in Priorities
  BY SharedRunnerAssumption DEF Priorities
<1>2. caller[i] = "submitting" /\ inv[i] = Fresh
  BY DEF Submit, QueuedRunsWait
<1>3. CASE Stopping
  <2>1. /\ UNCHANGED <<inv, ready, pc, chunk, called>>
        /\ caller' = [caller EXCEPT ![i] = "error"]
    BY <1>3 DEF Submit
  <2>2. TypeOK'
    BY <2>1 DEF TypeOK, Submit
  <2>3. /\ \A j \in Invocations : Holders(j)' = Holders(j)
        /\ \A w \in Workers : \A j, x : Owes(w, j, x)' <=> Owes(w, j, x)
        /\ \A j \in Invocations : InPool(j)' <=> InPool(j)
    BY <1>2, <2>1 DEF Holders, WorksOn, Owes, InPool, TypeOK
  <2>4. ChunksBelowNext' /\ CompletionIsFinal'
    BY <2>1 DEF ChunksBelowNext, CompletionIsFinal
  <2>5. LanesMatchWorkers'
    BY <2>1, <2>3 DEF LanesMatchWorkers, Lanes, LaneCount
  <2>6. NoWorkAfterReturn'
    BY <2>3 DEF NoWorkAfterReturn
  <2>7. EveryValueOnce'
    <3>1. \A j \in Invocations : caller'[j] = "success" => caller[j] = "success"
      BY <2>1 DEF TypeOK
    <3>2. QED
      BY <2>1, <2>3, <3>1 DEF EveryValueOnce
  <2>8. ValuesAccountedFor'
    BY <2>1, <2>3 DEF ValuesAccountedFor, Interrupted
  <2>9. QueuedRunsWait'
    <3>1. \A j \in Invocations : caller'[j] \in {"idle", "submitting"} => inv[j] = Fresh
      BY <2>1 DEF QueuedRunsWait, TypeOK, Fresh
    <3>2. QED
      BY <2>1, <2>3, <3>1, QueueMembers DEF QueuedRunsWait, Fresh
  <2>10. QED
    BY <2>2, <2>4, <2>5, <2>6, <2>7, <2>8, <2>9
<1>4. CASE ~Stopping
  <2> DEFINE v == QueueLocked(i, Fresh)
  <2>1. /\ UNCHANGED <<pc, chunk, called>>
        /\ caller' = [caller EXCEPT ![i] = "notifying"]
        /\ Store(i, v)
    BY <1>4 DEF Submit
  <2>2. /\ v \in InvocationType
        /\ v.next = Fresh.next /\ v.busy = Fresh.busy /\ v.active = Fresh.active
        /\ v.cancelled = Fresh.cancelled /\ v.failed = Fresh.failed
        /\ v.completed = Fresh.completed
    BY FreshIsInvocation, QueueLockedEffect
  <2> HIDE DEF v
  <2>3. /\ inv' \in [Invocations -> InvocationType]
        /\ inv'[i] = v
        /\ \A j \in Invocations \ {i} : inv'[j] = inv[j]
        /\ ready' \in [Priorities -> Seq(Invocations)]
        /\ \A p \in Priorities : \A k \in DOMAIN ready'[p] :
              \/ ready'[p][k] = i
              \/ \E m \in DOMAIN ready[p] : ready'[p][k] = ready[p][m]
    BY <1>1, <2>1, <2>2, StoreEffect
  <2>4. TypeOK'
    BY <2>1, <2>3 DEF TypeOK, Submit
  <2>5. /\ caller'[i] = "notifying"
        /\ \A j \in Invocations \ {i} : caller'[j] = caller[j]
    BY <2>1 DEF TypeOK
  <2>6. InPool(i)' /\ caller'[i] \notin {"idle", "submitting"}
    BY <2>5 DEF InPool
  <2>7. /\ v.busy = inv[i].busy /\ v.active = inv[i].active /\ v.next = inv[i].next
        /\ v.cancelled = inv[i].cancelled /\ v.failed = inv[i].failed
        /\ v.completed = inv[i].completed
    BY <1>2, <2>2
  <2> HIDE DEF RunnerInv
  <2>8. UNCHANGED <<pc, chunk, called>>
    BY <2>1
  <2>9. \A j \in Invocations \ {i} : inv'[j] = inv[j] /\ caller'[j] = caller[j]
    BY <2>3, <2>5
  <2>10. v.completed /\ ~inv[i].completed =>
            v.active = 0 /\ (v.cancelled \/ v.failed \/ v.next = Items[i])
    BY <2>7
  <2>11. (inv[i].cancelled => v.cancelled) /\ (inv[i].completed => v.completed)
    BY <2>7
  <2>12. RunnerInv
    OBVIOUS
  <2>13. Evolves(i, v)
    BY <2>7, <2>10, <2>11 DEF Evolves
  <2>14. CallerAgrees(i, v)
    BY <2>6 DEF CallerAgrees
  <2>15. QED
    BY <2>2, <2>3, <2>4, <2>8, <2>9, <2>12, <2>13, <2>14, InvocationStep
<1>5. QED
  BY <1>3, <1>4

LEMMA NotifyPreserves ==
    ASSUME RunnerInv, NEW i \in Invocations, Notify(i)
    PROVE  RunnerInv'
<1>1. pc \in [Workers -> PcState] /\ pc' \in NotifyOne(pc)
  BY DEF RunnerInv, TypeOK, PcState, Notify
<1>2. /\ pc' \in [Workers -> PcState]
      /\ \A w \in Workers : pc'[w] = pc[w]
            \/ (pc[w] = "waiting" /\ pc'[w] = "checking")
  BY <1>1, NotifyOneEffect
<1>3. UNCHANGED <<inv, ready, chunk, called>>
  BY DEF Notify, poolVars
<1>4. TypeOK'
  BY <1>2 DEF RunnerInv, TypeOK, PcState, Notify, poolVars
<1>5. \A j \in Invocations : caller'[j] = caller[j] \/ (InPool(j) /\ InPool(j)')
  BY DEF Notify, InPool, RunnerInv, TypeOK
<1>6. \A w \in Workers : \/ pc'[w] = pc[w]
                         \/ pc[w] \notin InFlight /\ pc'[w] \notin InFlight
  BY <1>2 DEF InFlight
<1>7. QED
  BY <1>3, <1>4, <1>5, <1>6, IdleStep

LEMMA PollPreserves ==
    ASSUME RunnerInv, NEW i \in Invocations, Poll(i)
    PROVE  RunnerInv'
<1> DEFINE v == IF expired[i] /\ ~inv[i].completed THEN CancelLocked(i, inv[i])
                ELSE inv[i]
<1>1. /\ Items[i] \in Nat /\ Priority[i] \in Priorities
      /\ inv[i] \in InvocationType
      /\ TypeOK
  BY SharedRunnerAssumption DEF Priorities, RunnerInv, TypeOK
<1>2. /\ Store(i, v)
      /\ caller' = [caller EXCEPT ![i] = IF ~v.completed THEN "polling"
                                         ELSE IF v.cancelled \/ v.failed THEN "error"
                                         ELSE "success"]
      /\ caller[i] = "polling"
      /\ UNCHANGED <<lastGroup, cycleIndex, stop, mutex, pc, chunk, expired, called>>
  BY DEF Poll
<1>3. /\ v \in InvocationType
      /\ v.busy = inv[i].busy /\ v.active = inv[i].active
      /\ v.failed = inv[i].failed
      /\ inv[i].cancelled => v.cancelled
      /\ inv[i].completed => v.completed
      /\ \/ v.next = inv[i].next
         \/ v.next = Items[i] /\ v.cancelled
      /\ v.completed /\ ~inv[i].completed =>
            v.active = 0 /\ (v.cancelled \/ v.failed \/ v.next = Items[i])
  <2>1. CASE expired[i] /\ ~inv[i].completed
    <3>1. v = CancelLocked(i, inv[i])
      BY <2>1
    <3> HIDE DEF v
    <3>2. QED
      BY <1>1, <3>1, CancelEffect
  <2>2. CASE ~(expired[i] /\ ~inv[i].completed)
    <3>1. v = inv[i]
      BY <2>2
    <3> HIDE DEF v
    <3>2. QED
      BY <1>1, <3>1
  <2>3. QED
    BY <2>1, <2>2
<1> HIDE DEF v
<1>4. /\ inv' \in [Invocations -> InvocationType]
      /\ inv'[i] = v
      /\ \A j \in Invocations \ {i} : inv'[j] = inv[j]
      /\ ready' \in [Priorities -> Seq(Invocations)]
      /\ \A p \in Priorities : \A k \in DOMAIN ready'[p] :
            \/ ready'[p][k] = i
            \/ \E m \in DOMAIN ready[p] : ready'[p][k] = ready[p][m]
  BY <1>1, <1>2, <1>3, StoreEffect
<1>5. /\ caller'[i] = IF ~v.completed THEN "polling"
                      ELSE IF v.cancelled \/ v.failed THEN "error"
                      ELSE "success"
      /\ \A j \in Invocations \ {i} : caller'[j] = caller[j]
  BY <1>1, <1>2 DEF TypeOK
<1>6. TypeOK'
  BY <1>1, <1>2, <1>4 DEF TypeOK
<1>7. /\ InPool(i)' \/ v.completed
      /\ \/ InPool(i)'
         \/ caller'[i] = caller[i]
         \/ caller'[i] = "success" /\ ~v.cancelled /\ ~v.failed
         \/ caller'[i] = "error"
      /\ caller'[i] \in {"idle", "submitting"} => v = Fresh
  BY <1>5 DEF InPool
<1>8. UNCHANGED <<pc, chunk, called>>
  BY <1>2
<1>9. \A j \in Invocations \ {i} : inv'[j] = inv[j] /\ caller'[j] = caller[j]
  BY <1>4, <1>5
<1>10. v \in InvocationType /\ Evolves(i, v)
  BY <1>3 DEF Evolves
<1>11. CallerAgrees(i, v)
  BY <1>7 DEF CallerAgrees
<1>12. QED
  BY <1>4, <1>6, <1>8, <1>9, <1>10, <1>11, InvocationStep

-----------------------------------------------------------------------------
(* The worker's steps outside a chunk, the environment and the destructor.  *)

LEMMA CheckWorkPreserves ==
    ASSUME RunnerInv, NEW w \in Workers, CheckWork(w)
    PROVE  RunnerInv'
<1>1. /\ UNCHANGED <<inv, ready, lastGroup, cycleIndex, stop, chunk, caller,
                     expired, called>>
      /\ mutex' \in Workers \cup {None}
      /\ \E x \in {"taking", "exited", "waiting"} : pc' = [pc EXCEPT ![w] = x]
      /\ pc[w] = "checking"
  BY DEF CheckWork, RunnerInv, TypeOK
<1>2. TypeOK'
  BY <1>1 DEF RunnerInv, TypeOK
<1>3. \A u \in Workers : \/ pc'[u] = pc[u]
                         \/ pc[u] \notin InFlight /\ pc'[u] \notin InFlight
  BY <1>1 DEF RunnerInv, TypeOK, InFlight
<1>4. UNCHANGED <<inv, ready, chunk, called>> /\ UNCHANGED caller
  BY <1>1
<1>5. QED
  BY <1>2, <1>3, <1>4, IdleStep

LEMMA WakePreserves ==
    ASSUME RunnerInv, NEW w \in Workers, WakeSpuriously(w) \/ TakeNothing(w)
    PROVE  RunnerInv'
<1>1. /\ UNCHANGED <<inv, ready, lastGroup, cycleIndex, stop, chunk, caller,
                     expired, called>>
      /\ mutex' \in Workers \cup {None}
      /\ pc' = [pc EXCEPT ![w] = "checking"]
      /\ pc[w] \notin InFlight
  BY DEF WakeSpuriously, TakeNothing, poolVars, RunnerInv, TypeOK, InFlight
<1>2. TypeOK'
  BY <1>1 DEF RunnerInv, TypeOK
<1>3. \A u \in Workers : \/ pc'[u] = pc[u]
                         \/ pc[u] \notin InFlight /\ pc'[u] \notin InFlight
  BY <1>1 DEF RunnerInv, TypeOK, InFlight
<1>4. UNCHANGED <<inv, ready, chunk, called>> /\ UNCHANGED caller
  BY <1>1
<1>5. QED
  BY <1>2, <1>3, <1>4, IdleStep

LEMMA EnvironmentPreserves ==
    ASSUME RunnerInv,
           \/ \E i \in Invocations : Expire(i)
           \/ BeginStop \/ NotifyStop \/ Join
           \/ UNCHANGED vars
    PROVE  RunnerInv'
<1>1. pc \in [Workers -> PcState]
  BY DEF RunnerInv, TypeOK, PcState
<1>2. /\ UNCHANGED <<inv, ready, lastGroup, cycleIndex, mutex, chunk, caller, called>>
      /\ expired' \in [Invocations -> BOOLEAN]
      /\ stop' \in {"running", "notifying", "joining", "joined"}
      /\ pc' = pc \/ pc' = NotifyAll(pc)
  BY DEF Expire, BeginStop, NotifyStop, Join, vars, poolVars, RunnerInv, TypeOK
<1>3. /\ pc' \in [Workers -> PcState]
      /\ \A w \in Workers : pc'[w] = pc[w]
            \/ (pc[w] = "waiting" /\ pc'[w] = "checking")
  BY <1>1, <1>2, NotifyAllEffect
<1>4. TypeOK'
  BY <1>2, <1>3 DEF RunnerInv, TypeOK, PcState
<1>5. \A w \in Workers : \/ pc'[w] = pc[w]
                         \/ pc[w] \notin InFlight /\ pc'[w] \notin InFlight
  BY <1>3 DEF InFlight
<1>6. UNCHANGED <<inv, ready, chunk, called>> /\ UNCHANGED caller
  BY <1>2
<1>7. QED
  BY <1>4, <1>5, <1>6, IdleStep

-----------------------------------------------------------------------------
(* The loop of TakeWorkLocked.                                              *)

\* A selection takes one entry out of its queue, and may put it back.
LEMMA SelectsEffect ==
    ASSUME TypeOK, NEW w \in Workers, NEW n \in 1..7, NEW p \in Priorities,
           NEW k \in DOMAIN ready[p], NEW v \in InvocationType,
           Selects(w, n, p, k, v)
    PROVE  /\ inv' \in [Invocations -> InvocationType]
           /\ inv'[ready[p][k]] = v
           /\ \A j \in Invocations \ {ready[p][k]} : inv'[j] = inv[j]
           /\ ready' \in [Priorities -> Seq(Invocations)]
           /\ \A r \in Priorities : \A m \in DOMAIN ready'[r] :
                 \/ ready'[r][m] = ready[p][k]
                 \/ \E l \in DOMAIN ready[r] : ready'[r][m] = ready[r][l]
           /\ lastGroup' \in [Priorities -> Nat]
           /\ cycleIndex' \in 0..6
<1> DEFINE i == ready[p][k]
           q == ready[p]
           s == RemoveAt(q, k)
           t == IF v.queued THEN Append(s, i) ELSE s
<1>1. i \in Invocations /\ q \in Seq(Invocations) /\ DOMAIN q = 1 .. Len(q)
  BY QueueMembers, LenProperties DEF TypeOK
<1>2. /\ inv' \in [Invocations -> InvocationType]
      /\ inv'[i] = v
      /\ \A j \in Invocations \ {i} : inv'[j] = inv[j]
  BY <1>1 DEF TypeOK, Selects
<1>3. ready' = [ready EXCEPT ![p] = t]
  BY DEF Selects, TypeOK
<1>4. /\ s \in Seq(Invocations)
      /\ Len(s) = Len(q) - 1
      /\ \A m \in 1 .. Len(q) - 1 : s[m] = IF m < k THEN q[m] ELSE q[m + 1]
  BY <1>1, RemoveAtProperties
<1>5. Len(q) \in Nat /\ k \in 1 .. Len(q)
  BY <1>1, LenProperties
<1> HIDE DEF q, i, s
<1>6. \A m \in 1 .. Len(s) : \E l \in 1 .. Len(q) : s[m] = q[l]
  BY <1>4, <1>5
<1>7. /\ t \in Seq(Invocations)
      /\ \A m \in 1 .. Len(t) : t[m] = i \/ \E l \in 1 .. Len(q) : t[m] = q[l]
  <2>1. CASE v.queued
    <3>1. t = Append(s, i)
      BY <2>1
    <3>2. /\ Append(s, i) \in Seq(Invocations)
          /\ Len(Append(s, i)) = Len(s) + 1
          /\ \A m \in 1 .. Len(s) : Append(s, i)[m] = s[m]
          /\ Append(s, i)[Len(s) + 1] = i
      <4>1. i \in Invocations /\ s \in Seq(Invocations)
        BY <1>1, <1>4
      <4> HIDE DEF t
      <4>2. QED
        BY <4>1, AppendProperties
    <3>3. Len(s) \in Nat
      BY <1>4, LenProperties
    <3> HIDE DEF t
    <3>4. QED
      BY <1>6, <3>1, <3>2, <3>3
  <2>2. CASE ~v.queued
    BY <1>4, <1>6, <2>2
  <2>3. QED
    BY <2>1, <2>2 DEF InvocationType
<1> HIDE DEF t
<1>8. ready' \in [Priorities -> Seq(Invocations)]
  BY <1>3, <1>7 DEF TypeOK
<1>9. ASSUME NEW r \in Priorities, NEW m \in DOMAIN ready'[r]
      PROVE  \/ ready'[r][m] = i
             \/ \E l \in DOMAIN ready[r] : ready'[r][m] = ready[r][l]
  <2>1. CASE r = p
    <3>1. ready'[r] = t /\ ready[r] = q
      BY <1>3, <2>1 DEF TypeOK, q
    <3>2. DOMAIN t = 1 .. Len(t)
      BY <1>7, LenProperties
    <3>3. QED
      BY <1>1, <1>7, <3>1, <3>2
  <2>2. CASE r # p
    <3>1. ready'[r] = ready[r]
      BY <1>3, <2>2 DEF TypeOK
    <3>2. QED
      BY <3>1
  <2>3. QED
    BY <2>1, <2>2
<1>10. lastGroup' \in [Priorities -> Nat]
  BY <1>1, SharedRunnerAssumption DEF Selects, TypeOK, i
<1>11. cycleIndex' \in 0..6
  <2>1. cycleIndex' = (cycleIndex + n) % 7
    BY DEF Selects, NextCycleIndex
  <2>2. cycleIndex + n \in Nat
    BY DEF TypeOK
  <2>3. QED
    BY <2>1, <2>2
<1>12. QED
  BY <1>2, <1>8, <1>9, <1>10, <1>11 DEF i

LEMMA DiscardPreserves ==
    ASSUME RunnerInv, NEW w \in Workers, NEW n \in 1..7, NEW p \in Priorities,
           NEW k \in Positions, Discard(w, n, p, k)
    PROVE  RunnerInv'
<1>0. PICK i \in Invocations : i = ready[p][k]
  BY QueueMembers DEF Discard, RunnerInv
<1> DEFINE u == [inv[i] EXCEPT !.queued = FALSE]
           v == CASE Dead(u) -> FinishIfReadyLocked(i, u)
                  [] ~Dead(u) /\ expired[i] -> CancelLocked(i, u)
                  [] ~Dead(u) /\ ~expired[i] /\ u.next >= Items[i] ->
                        FinishIfReadyLocked(i, u)
                  [] OTHER -> u
<1>1. /\ TypeOK
      /\ k \in DOMAIN ready[p]
      /\ Selects(w, n, p, k, v)
      /\ UNCHANGED <<stop, mutex, pc, chunk, caller, expired, called>>
  BY <1>0 DEF Discard, RunnerInv
<1>2. /\ inv[i] \in InvocationType
      /\ Items[i] \in Nat
      /\ inv[i].next \in Nat /\ inv[i].next <= Items[i]
  BY <1>1, QueueMembers, SharedRunnerAssumption
     DEF RunnerInv, TypeOK, InvocationType, ChunksBelowNext
<1>3. /\ u \in InvocationType
      /\ u.next = inv[i].next /\ u.busy = inv[i].busy /\ u.active = inv[i].active
      /\ u.cancelled = inv[i].cancelled /\ u.failed = inv[i].failed
      /\ u.completed = inv[i].completed
  BY <1>2 DEF InvocationType
<1> HIDE DEF u
<1>4. v \in {FinishIfReadyLocked(i, u), CancelLocked(i, u), u}
  BY DEF v
<1> HIDE DEF v
<1>5. /\ v \in InvocationType
      /\ v.busy = inv[i].busy /\ v.active = inv[i].active
      /\ v.failed = inv[i].failed
      /\ inv[i].cancelled => v.cancelled
      /\ inv[i].completed => v.completed
      /\ \/ v.next = inv[i].next
         \/ v.next = Items[i] /\ v.cancelled
      /\ v.completed /\ ~inv[i].completed =>
            v.active = 0 /\ (v.cancelled \/ v.failed \/ v.next = Items[i])
  <2>1. CASE v = FinishIfReadyLocked(i, u)
    BY <1>2, <1>3, <2>1, FinishEffect
  <2>2. CASE v = CancelLocked(i, u)
    BY <1>2, <1>3, <2>2, CancelEffect
  <2>3. CASE v = u
    BY <1>3, <2>3
  <2>4. QED
    BY <1>4, <2>1, <2>2, <2>3
<1>6. /\ inv' \in [Invocations -> InvocationType]
      /\ inv'[i] = v
      /\ \A j \in Invocations \ {i} : inv'[j] = inv[j]
      /\ ready' \in [Priorities -> Seq(Invocations)]
      /\ \A r \in Priorities : \A m \in DOMAIN ready'[r] :
            \/ ready'[r][m] = i
            \/ \E l \in DOMAIN ready[r] : ready'[r][m] = ready[r][l]
      /\ lastGroup' \in [Priorities -> Nat]
      /\ cycleIndex' \in 0..6
  BY <1>0, <1>1, <1>5, SelectsEffect
<1>7. TypeOK'
  BY <1>1, <1>6 DEF TypeOK
<1>8. InPool(i) \/ inv[i].completed
  BY <1>0, <1>1 DEF RunnerInv, QueuedRunsWait
<1>9. /\ InPool(i)' \/ v.completed
      /\ caller'[i] = caller[i]
      /\ caller'[i] \in {"idle", "submitting"} => v = Fresh
  <2>1. caller'[i] \notin {"idle", "submitting"}
    BY <1>1, <1>2, <1>8 DEF InPool, RunnerInv, QueuedRunsWait, Fresh
  <2>2. InPool(i)' <=> InPool(i)
    BY <1>1 DEF InPool
  <2>3. QED
    BY <1>1, <1>5, <1>8, <2>1, <2>2
<1>10. UNCHANGED <<pc, chunk, called>>
  BY <1>1
<1>11. \A j \in Invocations \ {i} : inv'[j] = inv[j] /\ caller'[j] = caller[j]
  BY <1>1, <1>6
<1>12. v \in InvocationType /\ Evolves(i, v)
  BY <1>5 DEF Evolves
<1>13. CallerAgrees(i, v)
  BY <1>9 DEF CallerAgrees
<1>14. QED
  BY <1>1, <1>6, <1>7, <1>10, <1>11, <1>12, <1>13, InvocationStep

LEMMA DispatchPreserves ==
    ASSUME RunnerInv, NEW w \in Workers, NEW n \in 1..7, NEW p \in Priorities,
           NEW k \in Positions, Dispatch(w, n, p, k)
    PROVE  RunnerInv'
<1>0. PICK i \in Invocations : i = ready[p][k]
  BY QueueMembers DEF Dispatch, RunnerInv
<1> DEFINE first == inv[i].next
           end == ChunkEnd(i)
<1>1. PICK lane \in Lanes(i) \ inv[i].busy :
         /\ Selects(w, n, p, k,
               QueueLocked(i, [inv[i] EXCEPT !.queued = FALSE,
                                             !.busy = @ \cup {lane},
                                             !.active = @ + 1,
                                             !.next = end]))
         /\ chunk' = [chunk EXCEPT ![w] = [inv |-> i, value |-> first, end |-> end,
                                           lane |-> lane]]
  BY <1>0 DEF Dispatch
<1> DEFINE u == [inv[i] EXCEPT !.queued = FALSE, !.busy = @ \cup {lane},
                               !.active = @ + 1, !.next = end]
           v == QueueLocked(i, u)
<1>2. /\ TypeOK
      /\ k \in DOMAIN ready[p]
      /\ Dispatchable(i)
      /\ Selects(w, n, p, k, v)
      /\ pc[w] = "taking"
      /\ pc' \in NotifyOne([pc EXCEPT ![w] = "calling"])
      /\ mutex' = None
      /\ UNCHANGED <<stop, caller, expired, called>>
  BY <1>0, <1>1 DEF Dispatch, RunnerInv, Selects
<1>3. /\ inv[i] \in InvocationType
      /\ Items[i] \in Nat
      /\ first \in Nat
      /\ lane \in Nat /\ lane \in Lanes(i) /\ lane \notin inv[i].busy
  <2>1. inv[i] \in InvocationType /\ Items[i] \in Nat
    BY <1>2, SharedRunnerAssumption DEF TypeOK
  <2>2. lane \in Nat
    BY DEF Lanes
  <2>3. QED
    BY <2>1, <2>2 DEF InvocationType
<1>4. first < Items[i] /\ ~Dead(inv[i])
  BY <1>2 DEF Dispatchable
<1>5. end \in Nat /\ first < end /\ end <= Items[i]
  BY <1>3, <1>4, SharedRunnerAssumption DEF Lesser, ChunkEnd
<1> HIDE DEF first, end
<1>6. /\ u \in InvocationType
      /\ u.next = end /\ u.busy = inv[i].busy \cup {lane}
      /\ u.active = inv[i].active + 1
      /\ u.cancelled = inv[i].cancelled /\ u.failed = inv[i].failed
      /\ u.completed = inv[i].completed
  <2>1. inv[i].busy \cup {lane} \in SUBSET Nat /\ inv[i].active + 1 \in Nat
    BY <1>3 DEF InvocationType
  <2>2. QED
    BY <1>3, <1>5, <2>1 DEF InvocationType
<1> HIDE DEF u
<1>7. /\ v \in InvocationType
      /\ v.next = end /\ v.busy = inv[i].busy \cup {lane}
      /\ v.active = inv[i].active + 1
      /\ ~v.cancelled /\ ~v.failed /\ ~v.completed
  BY <1>3, <1>4, <1>6, QueueLockedEffect DEF Dead
<1> HIDE DEF v
<1>8. /\ inv' \in [Invocations -> InvocationType]
      /\ inv'[i] = v
      /\ \A j \in Invocations \ {i} : inv'[j] = inv[j]
      /\ ready' \in [Priorities -> Seq(Invocations)]
      /\ \A r \in Priorities : \A m \in DOMAIN ready'[r] :
            \/ ready'[r][m] = i
            \/ \E l \in DOMAIN ready[r] : ready'[r][m] = ready[r][l]
      /\ lastGroup' \in [Priorities -> Nat]
      /\ cycleIndex' \in 0..6
  BY <1>0, <1>2, <1>7, SelectsEffect
<1>9. /\ pc' \in [Workers -> PcState]
      /\ pc'[w] = "calling"
      /\ \A x \in Workers \ {w} : pc'[x] = pc[x]
            \/ (pc[x] = "waiting" /\ pc'[x] = "checking")
  <2>1. [pc EXCEPT ![w] = "calling"] \in [Workers -> PcState]
    BY <1>2 DEF TypeOK, PcState, InFlight
  <2>2. /\ pc' \in [Workers -> PcState]
        /\ \A x \in Workers : \/ pc'[x] = [pc EXCEPT ![w] = "calling"][x]
                              \/ /\ [pc EXCEPT ![w] = "calling"][x] = "waiting"
                                 /\ pc'[x] = "checking"
    BY <1>2, <2>1, NotifyOneEffect
  <2>3. QED
    BY <1>2, <2>2 DEF TypeOK
<1>10. /\ chunk'[w] = [inv |-> i, value |-> first, end |-> end, lane |-> lane]
       /\ \A x \in Workers \ {w} : chunk'[x] = chunk[x]
  BY <1>1, <1>2 DEF TypeOK, first, end
<1>11. TypeOK'
  <2>1. chunk' \in [Workers -> [inv : Invocations \cup {None}, value : Nat,
                                end : Nat, lane : Nat]]
    <3>1. [inv |-> i, value |-> first, end |-> end, lane |-> lane] \in
             [inv : Invocations \cup {None}, value : Nat, end : Nat, lane : Nat]
      BY <1>3, <1>5
    <3>2. QED
      BY <1>1, <1>2, <3>1 DEF TypeOK, first, end
  <2>2. QED
    BY <1>2, <1>8, <1>9, <2>1 DEF TypeOK, PcState
<1>12. InPool(i) /\ InPool(i)'
  BY <1>0, <1>2, <1>4 DEF RunnerInv, QueuedRunsWait, InPool, Dead
<1>13. /\ WorksOn(w, i)'
       /\ \A j \in Invocations : ~WorksOn(w, j)
       /\ \A j \in Invocations \ {i} : ~WorksOn(w, j)'
       /\ \A x \in Workers \ {w}, j \in Invocations : WorksOn(x, j)' <=> WorksOn(x, j)
  BY <1>2, <1>9, <1>10 DEF WorksOn, InFlight
<1>14. /\ Holders(i)' = Holders(i) \cup {w}
       /\ w \notin Holders(i)
       /\ \A j \in Invocations \ {i} : Holders(j)' = Holders(j)
  BY <1>3, <1>13 DEF Holders
<1>15. /\ \A x : Owes(w, i, x)' <=> first <= x /\ x < end
       /\ \A j \in Invocations \ {i} : \A x : ~Owes(w, j, x)'
       /\ \A y \in Workers \ {w} : \A j, x : Owes(y, j, x)' <=> Owes(y, j, x)
       /\ \A j, x : ~Owes(w, j, x)
  BY <1>2, <1>9, <1>10 DEF Owes
<1>16. ChunksBelowNext'
  <2>1. \A j \in Invocations : inv'[j].next <= Items[j] /\ inv'[j].next >= inv[j].next
    <3>1. \A j \in Invocations : inv[j].next \in Nat /\ inv[j].next <= Items[j]
      BY <1>2 DEF RunnerInv, TypeOK, InvocationType, ChunksBelowNext
    <3>2. inv'[i].next = end /\ first <= end
      BY <1>3, <1>5, <1>7, <1>8
    <3>3. ASSUME NEW j \in Invocations, j # i
          PROVE  inv'[j].next <= Items[j] /\ inv'[j].next >= inv[j].next
      <4>1. inv'[j] = inv[j]
        BY <1>8, <3>3
      <4>2. QED
        BY <3>1, <4>1
    <3>4. inv'[i].next <= Items[i] /\ inv'[i].next >= inv[i].next
      BY <1>3, <1>5, <3>2 DEF first
    <3>5. QED
      BY <3>3, <3>4
  <2>2. ASSUME NEW x \in Workers, pc'[x] \in InFlight
        PROVE  /\ chunk'[x].inv \in Invocations
               /\ chunk'[x].value <= chunk'[x].end
               /\ chunk'[x].end <= inv'[chunk'[x].inv].next
    <3>1. CASE x = w
      BY <1>3, <1>5, <1>7, <1>8, <1>10, <3>1
    <3>2. CASE x # w
      <4>1. /\ chunk'[x] = chunk[x]
            /\ chunk[x].inv \in Invocations
            /\ chunk[x].value <= chunk[x].end
            /\ chunk[x].end <= inv[chunk[x].inv].next
        BY <1>9, <1>10, <2>2, <3>2 DEF RunnerInv, ChunksBelowNext, InFlight
      <4>2. /\ chunk[x].end \in Nat
            /\ inv[chunk[x].inv].next \in Nat
            /\ inv'[chunk[x].inv].next \in Nat
        BY <1>2, <1>8, <4>1 DEF TypeOK, InvocationType
      <4>3. QED
        BY <2>1, <4>1, <4>2
    <3>3. QED
      BY <3>1, <3>2
  <2>3. QED
    BY <2>1, <2>2 DEF ChunksBelowNext
<1>17. LanesMatchWorkers'
  <2>1. ASSUME NEW j \in Invocations, j # i
        PROVE  /\ inv'[j].busy = {chunk'[x].lane : x \in Holders(j)'}
               /\ inv'[j].active = Cardinality(Holders(j)')
               /\ inv'[j].busy \subseteq Lanes(j)
               /\ \A x, y \in Holders(j)' : chunk'[x].lane = chunk'[y].lane => x = y
    <3>1. Holders(j)' = Holders(j) /\ inv'[j] = inv[j]
      BY <1>8, <1>14, <2>1
    <3>2. \A x \in Holders(j) : chunk'[x] = chunk[x]
      BY <1>10, <1>13 DEF Holders
    <3>3. QED
      BY <3>1, <3>2 DEF RunnerInv, LanesMatchWorkers
  <2>2. /\ inv'[i].busy = {chunk'[x].lane : x \in Holders(i)'}
        /\ inv'[i].active = Cardinality(Holders(i)')
        /\ inv'[i].busy \subseteq Lanes(i)
        /\ \A x, y \in Holders(i)' : chunk'[x].lane = chunk'[y].lane => x = y
    <3>1. /\ \A x \in Holders(i) : chunk'[x] = chunk[x]
          /\ chunk'[w].lane = lane
      BY <1>10, <1>14 DEF Holders
    <3>2. /\ inv[i].busy = {chunk[x].lane : x \in Holders(i)}
          /\ inv[i].active = Cardinality(Holders(i))
          /\ inv[i].busy \subseteq Lanes(i)
          /\ \A x, y \in Holders(i) : chunk[x].lane = chunk[y].lane => x = y
      BY <1>3 DEF RunnerInv, LanesMatchWorkers
    <3>3. inv'[i].busy = {chunk'[x].lane : x \in Holders(i)'}
      <4>1. {chunk'[x].lane : x \in Holders(i) \cup {w}}
               = {chunk[x].lane : x \in Holders(i)} \cup {lane}
        BY <3>1
      <4>2. QED
        BY <1>7, <1>8, <1>14, <3>2, <4>1
    <3>4. inv'[i].active = Cardinality(Holders(i)')
      <4>1. IsFiniteSet(Holders(i))
        BY HoldersFinite
      <4>2. Cardinality(Holders(i) \cup {w}) = Cardinality(Holders(i)) + 1
        BY <1>14, <4>1, FS_AddElement
      <4>3. QED
        BY <1>7, <1>8, <1>14, <3>2, <4>2
    <3>5. inv'[i].busy \subseteq Lanes(i)
      BY <1>3, <1>7, <1>8, <3>2
    <3>6. \A x, y \in Holders(i)' : chunk'[x].lane = chunk'[y].lane => x = y
      BY <1>3, <1>14, <3>1, <3>2
    <3>7. QED
      BY <3>3, <3>4, <3>5, <3>6
  <2>3. QED
    BY <2>1, <2>2 DEF LanesMatchWorkers, Lanes, LaneCount
<1>18. NoWorkAfterReturn'
  BY <1>2, <1>12, <1>14 DEF RunnerInv, NoWorkAfterReturn, InPool
<1>19. EveryValueOnce'
  <2>1. \A j \in Invocations : \A x \in Workers, y \in called[j] : ~Owes(x, j, y)'
    <3>1. \A y \in called[i] : y \in Nat /\ y < first
      BY <1>2, <1>3 DEF RunnerInv, ValuesAccountedFor, TypeOK, first
    <3>2. QED
      BY <1>3, <1>15, <3>1 DEF RunnerInv, EveryValueOnce
  <2>2. \A j \in Invocations, x, y \in Workers : \A z \in 0 .. Items[j] - 1 :
            Owes(x, j, z)' /\ Owes(y, j, z)' => x = y
    <3>1. ASSUME NEW x \in Workers \ {w}, NEW z \in 0 .. Items[i] - 1, Owes(x, i, z)
          PROVE  z < first
      <4>1. /\ pc[x] = "calling" /\ chunk[x].inv = i /\ z < chunk[x].end
            /\ chunk[x].end \in Nat
        BY <1>2, <3>1 DEF Owes, TypeOK
      <4>2. chunk[x].end <= first
        BY <4>1 DEF RunnerInv, ChunksBelowNext, InFlight, first
      <4>3. z \in Int
        BY <1>3
      <4>4. QED
        BY <1>3, <4>1, <4>2, <4>3
    <3>2. ASSUME NEW x \in Workers \ {w}, NEW z \in 0 .. Items[i] - 1
          PROVE  ~(Owes(w, i, z)' /\ Owes(x, i, z)')
      <4>1. z \in Int
        BY <1>3
      <4>2. QED
        BY <1>3, <1>15, <3>1, <4>1
    <3>3. QED
      BY <1>15, <3>2 DEF RunnerInv, EveryValueOnce
  <2>3. QED
    BY <1>2, <2>1, <2>2 DEF RunnerInv, EveryValueOnce
<1>20. ValuesAccountedFor'
  <2>1. \A y \in called[i] : y < end
    BY <1>2, <1>3, <1>5 DEF RunnerInv, ValuesAccountedFor, TypeOK, first
  <2>2. ASSUME ~Interrupted(i)', NEW x \in 0 .. end - 1
        PROVE  x \in called[i] \/ \E y \in Workers : Owes(y, i, x)'
    <3>1. CASE x < first
      <4>1. ~Interrupted(i)
        <5>1. \A y \in Holders(i) : pc'[y] = pc[y]
          BY <1>9, <1>14 DEF Holders, WorksOn, InFlight
        <5>2. ~\E y \in Holders(i) : pc[y] \in {"sawCancel", "threw"}
          BY <1>14, <2>2, <5>1 DEF Interrupted
        <5>3. QED
          BY <1>4, <5>2 DEF Interrupted, Dead
      <4>2. x \in 0 .. first - 1
        BY <1>3, <1>5, <3>1
      <4>3. x \in called[i] \/ \E y \in Workers : Owes(y, i, x)
        BY <1>3, <4>1, <4>2 DEF RunnerInv, ValuesAccountedFor, first
      <4>4. QED
        BY <1>15, <4>3
    <3>2. CASE first <= x
      <4>1. x < end
        BY <1>5
      <4>2. QED
        BY <1>15, <3>2, <4>1
    <3>3. QED
      BY <1>3, <1>5, <3>1, <3>2
  <2>3. ASSUME NEW j \in Invocations, j # i
        PROVE  /\ \A y \in called[j] : y < inv'[j].next
               /\ ~Interrupted(j)' => \A y \in 0 .. inv'[j].next - 1 :
                     y \in called[j] \/ \E x \in Workers : Owes(x, j, y)'
    <3>1. inv'[j] = inv[j] /\ Holders(j)' = Holders(j)
      BY <1>8, <1>14, <2>3
    <3>2. \A y \in Holders(j) : pc'[y] = pc[y]
      BY <1>9, <1>13 DEF Holders, WorksOn, InFlight
    <3>3. Interrupted(j)' <=> Interrupted(j)
      BY <3>1, <3>2 DEF Interrupted
    <3>4. \A x \in Workers : \A y : Owes(x, j, y)' <=> Owes(x, j, y)
      BY <1>15, <2>3
    <3>5. QED
      BY <3>1, <3>3, <3>4 DEF RunnerInv, ValuesAccountedFor
  <2>4. QED
    BY <1>2, <1>7, <1>8, <2>1, <2>2, <2>3 DEF ValuesAccountedFor
<1>21. CompletionIsFinal'
  BY <1>7, <1>8 DEF RunnerInv, CompletionIsFinal
<1>22. QueuedRunsWait'
  <2>1. \A j \in Invocations : caller'[j] \in {"idle", "submitting"} => inv'[j] = Fresh
    BY <1>2, <1>8, <1>12 DEF RunnerInv, QueuedRunsWait, InPool, Fresh
  <2>2. ASSUME NEW r \in Priorities, NEW m \in DOMAIN ready'[r]
        PROVE  \/ caller'[ready'[r][m]] \in {"notifying", "polling"}
               \/ inv'[ready'[r][m]].completed
    <3>1. CASE ready'[r][m] = i
      BY <1>12, <3>1 DEF InPool
    <3>2. CASE ready'[r][m] # i
      <4>1. PICK l \in DOMAIN ready[r] : ready'[r][m] = ready[r][l]
        BY <1>8, <3>2
      <4>2. /\ ready[r][l] \in Invocations \ {i}
            /\ InPool(ready[r][l]) \/ inv[ready[r][l]].completed
        BY <1>2, <3>2, <4>1, QueueMembers DEF RunnerInv, QueuedRunsWait
      <4>3. QED
        BY <1>2, <1>8, <4>1, <4>2 DEF InPool
    <3>3. QED
      BY <3>1, <3>2
  <2>3. QED
    BY <2>1, <2>2 DEF QueuedRunsWait, InPool
<1>23. QED
  BY <1>11, <1>16, <1>17, <1>18, <1>19, <1>20, <1>21, <1>22 DEF RunnerInv

-----------------------------------------------------------------------------
(* The chunk of a worker.                                                   *)

\* A worker moves on inside its chunk: it gives up only values that it has
\* called, unless it was interrupted.
LEMMA ChunkStep ==
    ASSUME RunnerInv, TypeOK', UNCHANGED <<inv, ready, caller>>,
           NEW w \in Workers, NEW i \in Invocations,
           pc[w] = "calling", chunk[w].inv = i,
           pc'[w] \in InFlight,
           chunk'[w].inv = i, chunk'[w].lane = chunk[w].lane,
           chunk'[w].end = chunk[w].end,
           chunk[w].value <= chunk'[w].value, chunk'[w].value <= chunk[w].end,
           \A x \in Workers \ {w} : pc'[x] = pc[x] /\ chunk'[x] = chunk[x],
           \A j \in Invocations \ {i} : called'[j] = called[j],
           called[i] \subseteq called'[i],
           \A y \in called'[i] \ called[i] : Owes(w, i, y) /\ ~Owes(w, i, y)',
           \/ pc'[w] \in {"sawCancel", "threw"}
           \/ \A y \in Nat : Owes(w, i, y) => Owes(w, i, y)' \/ y \in called'[i]
    PROVE  RunnerInv'
<1>1. TypeOK
  BY DEF RunnerInv
<1>2. /\ chunk[w].value \in Nat /\ chunk[w].end \in Nat /\ chunk'[w].value \in Nat
      /\ Items[i] \in Nat
      /\ inv[i].next \in Nat
      /\ chunk[w].end <= inv[i].next /\ inv[i].next <= Items[i]
  BY <1>1, SharedRunnerAssumption
     DEF RunnerInv, TypeOK, ChunksBelowNext, InvocationType, InFlight
<1>3. \A x \in Workers, j \in Invocations : WorksOn(x, j)' <=> WorksOn(x, j)
  BY DEF WorksOn, InFlight
<1>4. \A j \in Invocations : Holders(j)' = Holders(j)
  BY <1>3 DEF Holders
<1>5. \A x \in Workers, j \in Invocations : \A y \in Nat :
          Owes(x, j, y)' => Owes(x, j, y)
  <2>1. \A x \in Workers \ {w}, j \in Invocations : \A y \in Nat :
            Owes(x, j, y)' <=> Owes(x, j, y)
    BY DEF Owes
  <2>2. \A j \in Invocations : \A y \in Nat : Owes(w, j, y)' => Owes(w, j, y)
    BY <1>2 DEF Owes
  <2>3. QED
    BY <2>1, <2>2
<1>6. InPool(i) /\ w \in Holders(i)
  BY DEF RunnerInv, NoWorkAfterReturn, Holders, WorksOn, InFlight
<1>7. ChunksBelowNext'
  <2>1. \A x \in Workers \ {w} : pc'[x] \in InFlight =>
            /\ chunk'[x].inv \in Invocations
            /\ chunk'[x].value <= chunk'[x].end
            /\ chunk'[x].end <= inv'[chunk'[x].inv].next
    BY DEF RunnerInv, ChunksBelowNext
  <2>2. /\ chunk'[w].inv \in Invocations
        /\ chunk'[w].value <= chunk'[w].end
        /\ chunk'[w].end <= inv'[chunk'[w].inv].next
    BY <1>2
  <2>3. \A j \in Invocations : inv'[j].next <= Items[j]
    BY DEF RunnerInv, ChunksBelowNext
  <2>4. QED
    BY <2>1, <2>2, <2>3 DEF ChunksBelowNext
<1>8. LanesMatchWorkers'
  <2>1. \A x \in Workers : chunk'[x].lane = chunk[x].lane
    OBVIOUS
  <2>2. \A j \in Invocations : {chunk'[x].lane : x \in Holders(j)}
                                  = {chunk[x].lane : x \in Holders(j)}
    BY <2>1 DEF Holders
  <2>3. \A j \in Invocations : \A x \in Holders(j) : chunk'[x].lane = chunk[x].lane
    BY <2>1 DEF Holders
  <2>4. QED
    BY <1>4, <2>2, <2>3 DEF RunnerInv, LanesMatchWorkers, Lanes, LaneCount
<1>9. NoWorkAfterReturn'
  BY <1>4 DEF RunnerInv, NoWorkAfterReturn, InPool
<1>10. EveryValueOnce'
  <2>1. ASSUME NEW j \in Invocations, NEW x \in Workers, NEW y \in called'[j]
        PROVE  ~Owes(x, j, y)'
    <3>1. y \in Nat
      BY DEF TypeOK
    <3>2. CASE y \in called[j]
      BY <1>5, <3>1, <3>2 DEF RunnerInv, EveryValueOnce
    <3>3. CASE y \notin called[j]
      <4>1. j = i /\ Owes(w, i, y) /\ ~Owes(w, i, y)'
        BY <3>3
      <4>2. y \in 0 .. Items[i] - 1
        BY <1>2, <3>1, <4>1 DEF Owes
      <4>3. x # w => ~Owes(x, i, y)
        BY <4>1, <4>2 DEF RunnerInv, EveryValueOnce
      <4>4. QED
        BY <1>5, <3>1, <4>1, <4>3
    <3>4. QED
      BY <3>2, <3>3
  <2>2. ASSUME NEW j \in Invocations, NEW x \in Workers, NEW z \in Workers,
               NEW y \in 0 .. Items[j] - 1, Owes(x, j, y)', Owes(z, j, y)'
        PROVE  x = z
    <3>1. y \in Nat
      BY SharedRunnerAssumption
    <3>2. Owes(x, j, y) /\ Owes(z, j, y)
      BY <1>5, <2>2, <3>1
    <3>3. QED
      BY <3>2 DEF RunnerInv, EveryValueOnce
  <2>3. ASSUME NEW j \in Invocations, caller'[j] = "success"
        PROVE  called'[j] = 0 .. Items[j] - 1
    <3>1. j # i
      BY <1>6, <2>3 DEF InPool
    <3>2. QED
      BY <2>3, <3>1 DEF RunnerInv, EveryValueOnce
  <2>4. QED
    BY <2>1, <2>2, <2>3 DEF EveryValueOnce
<1>11. ValuesAccountedFor'
  <2>1. ASSUME NEW j \in Invocations, NEW y \in called'[j]
        PROVE  y < inv'[j].next
    <3>1. CASE y \in called[j]
      BY <3>1 DEF RunnerInv, ValuesAccountedFor
    <3>2. CASE y \notin called[j]
      <4>1. j = i /\ Owes(w, i, y) /\ y \in Nat
        BY <3>2 DEF TypeOK
      <4>2. y < chunk[w].end
        BY <4>1 DEF Owes
      <4>3. QED
        BY <1>2, <4>1, <4>2
    <3>3. QED
      BY <3>1, <3>2
  <2>2. ASSUME NEW j \in Invocations, ~Interrupted(j)', NEW y \in 0 .. inv'[j].next - 1
        PROVE  y \in called'[j] \/ \E x \in Workers : Owes(x, j, y)'
    <3>1. y \in Nat
      BY DEF TypeOK, InvocationType
    <3>2. ~Interrupted(j)
      <4>1. \A x \in Holders(j) : x # w => pc'[x] = pc[x]
        BY DEF Holders
      <4>2. QED
        BY <1>4, <2>2, <4>1 DEF Interrupted
    <3>3. y \in called[j] \/ \E x \in Workers : Owes(x, j, y)
      BY <3>2 DEF RunnerInv, ValuesAccountedFor
    <3>4. CASE y \in called[j]
      BY <3>4
    <3>5. ASSUME NEW x \in Workers, Owes(x, j, y)
          PROVE  y \in called'[j] \/ Owes(x, j, y)'
      <4>1. CASE x # w
        BY <3>5, <4>1 DEF Owes
      <4>2. CASE x = w
        <5>1. j = i
          BY <3>5, <4>2 DEF Owes
        <5>2. pc'[w] \notin {"sawCancel", "threw"}
          BY <1>4, <1>6, <2>2, <5>1 DEF Interrupted
        <5>3. QED
          BY <3>1, <3>5, <4>2, <5>1, <5>2
      <4>3. QED
        BY <4>1, <4>2
    <3>6. QED
      BY <3>3, <3>4, <3>5
  <2>3. QED
    BY <2>1, <2>2 DEF ValuesAccountedFor
<1>12. CompletionIsFinal'
  BY DEF RunnerInv, CompletionIsFinal
<1>13. QueuedRunsWait'
  BY DEF RunnerInv, QueuedRunsWait, InPool, Fresh
<1>14. QED
  BY <1>7, <1>8, <1>9, <1>10, <1>11, <1>12, <1>13 DEF RunnerInv

LEMMA CallFunctionPreserves ==
    ASSUME RunnerInv, NEW w \in Workers, CallFunction(w)
    PROVE  RunnerInv'
<1>0. PICK c : c = chunk[w]
  OBVIOUS
<1>1. /\ TypeOK
      /\ pc[w] = "calling" /\ c.value < c.end
      /\ UNCHANGED <<inv, poolVars, caller, expired>>
  BY <1>0 DEF CallFunction, RunnerInv
<1>2. PICK i \in Invocations : chunk[w].inv = i
  BY <1>1 DEF RunnerInv, ChunksBelowNext, InFlight
<1>3. /\ c \in [inv : Invocations \cup {None}, value : Nat, end : Nat, lane : Nat]
      /\ c.value \in Nat /\ c.end \in Nat
  BY <1>0, <1>1 DEF TypeOK
<1>4. /\ called'[i] = called[i] \cup {c.value}
      /\ \A j \in Invocations \ {i} : called'[j] = called[j]
      /\ called' \in [Invocations -> SUBSET Nat]
  BY <1>0, <1>1, <1>2, <1>3 DEF CallFunction, TypeOK
<1>5. Owes(w, i, c.value)
  BY <1>0, <1>1, <1>2, <1>3 DEF Owes
<1>6. CASE chunk' = [chunk EXCEPT ![w].value = @ + 1] /\ UNCHANGED pc
  <2>1. /\ chunk'[w] = [c EXCEPT !.value = @ + 1]
        /\ \A x \in Workers \ {w} : chunk'[x] = chunk[x]
    BY <1>0, <1>1, <1>6 DEF TypeOK
  <2>2. /\ chunk'[w].inv = i /\ chunk'[w].lane = c.lane
        /\ chunk'[w].end = c.end /\ chunk'[w].value = c.value + 1
    BY <1>0, <1>2, <1>3, <2>1
  <2>3. TypeOK'
    <3>1. chunk'[w] \in [inv : Invocations \cup {None}, value : Nat, end : Nat,
                         lane : Nat]
      BY <1>3, <2>1
    <3>2. chunk' \in [Workers -> [inv : Invocations \cup {None}, value : Nat,
                                  end : Nat, lane : Nat]]
      BY <1>1, <1>6, <3>1 DEF TypeOK
    <3>3. QED
      BY <1>1, <1>4, <1>6, <3>2 DEF TypeOK, poolVars
  <2>4. ~Owes(w, i, c.value)'
    BY <1>3, <2>2 DEF Owes
  <2>5. \A y \in Nat : Owes(w, i, y) => Owes(w, i, y)' \/ y \in called'[i]
    BY <1>0, <1>3, <1>4, <1>6, <2>2 DEF Owes
  <2>6. c.value <= chunk'[w].value /\ chunk'[w].value <= c.end
    BY <1>1, <1>3, <2>2
  <2>7. \A y \in called'[i] \ called[i] : Owes(w, i, y) /\ ~Owes(w, i, y)'
    BY <1>4, <1>5, <2>4
  <2>8. pc'[w] \in InFlight /\ \A x \in Workers \ {w} : pc'[x] = pc[x]
    BY <1>1, <1>6 DEF InFlight
  <2>9. UNCHANGED <<inv, ready, caller>>
    BY <1>1 DEF poolVars
  <2>10. QED
    BY <1>0, <1>1, <1>2, <1>4, <2>1, <2>2, <2>3, <2>5, <2>6, <2>7, <2>8, <2>9,
       ChunkStep
<1>7. CASE pc' = [pc EXCEPT ![w] = "threw"] /\ UNCHANGED chunk
  <2>1. /\ pc'[w] = "threw"
        /\ \A x \in Workers \ {w} : pc'[x] = pc[x]
        /\ chunk' = chunk
    BY <1>1, <1>7 DEF TypeOK
  <2>2. TypeOK'
    <3>1. pc' \in [Workers -> {"checking", "waiting", "taking", "exited"} \cup InFlight]
      BY <1>1, <1>7 DEF TypeOK, InFlight
    <3>2. QED
      BY <1>1, <1>4, <2>1, <3>1 DEF TypeOK, poolVars
  <2>3. \A y \in called'[i] \ called[i] : Owes(w, i, y) /\ ~Owes(w, i, y)'
    BY <1>4, <1>5, <2>1 DEF Owes
  <2>4. pc'[w] \in InFlight
    BY <2>1 DEF InFlight
  <2>5. UNCHANGED <<inv, ready, caller>>
    BY <1>1 DEF poolVars
  <2>6. c.value <= c.value /\ c.value <= c.end
    BY <1>1, <1>3
  <2>7. QED
    BY <1>0, <1>1, <1>2, <1>4, <2>1, <2>2, <2>3, <2>4, <2>5, <2>6, ChunkStep
<1>8. QED
  BY <1>1, <1>6, <1>7 DEF CallFunction

LEMMA EndChunkPreserves ==
    ASSUME RunnerInv, NEW w \in Workers, EndChunk(w)
    PROVE  RunnerInv'
<1>1. /\ TypeOK
      /\ pc[w] = "calling"
      /\ UNCHANGED <<inv, poolVars, chunk, caller, expired, called>>
  BY DEF EndChunk, RunnerInv
<1>2. PICK i \in Invocations : chunk[w].inv = i
  BY <1>1 DEF RunnerInv, ChunksBelowNext, InFlight
<1>3. /\ pc'[w] = IF chunk[w].value < chunk[w].end THEN "sawCancel" ELSE "ran"
      /\ \A x \in Workers \ {w} : pc'[x] = pc[x]
      /\ pc' \in [Workers -> {"checking", "waiting", "taking", "exited"} \cup InFlight]
  BY <1>1 DEF EndChunk, TypeOK, InFlight
<1>4. TypeOK'
  BY <1>1, <1>3 DEF TypeOK, poolVars
<1>5. pc'[w] \in InFlight
  BY <1>3 DEF InFlight
<1>6. /\ chunk[w].value \in Nat /\ chunk[w].end \in Nat
      /\ chunk[w].value <= chunk[w].end
  BY <1>1 DEF TypeOK, RunnerInv, ChunksBelowNext, InFlight
<1>7. \/ pc'[w] \in {"sawCancel", "threw"}
      \/ \A y \in Nat : Owes(w, i, y) => Owes(w, i, y)' \/ y \in called'[i]
  BY <1>3, <1>6 DEF Owes
<1>8. /\ UNCHANGED <<inv, ready, caller>>
      /\ chunk' = chunk
      /\ called' = called
      /\ chunk[w].value <= chunk[w].value
  BY <1>1, <1>6 DEF poolVars
<1>9. QED
  BY <1>1, <1>2, <1>3, <1>4, <1>5, <1>6, <1>7, <1>8, ChunkStep

-----------------------------------------------------------------------------
(* CompleteChunk: a lane is given back.                                     *)

\* What AfterChunk makes of the invocation.
LEMMA AfterChunkEffect ==
    ASSUME RunnerInv, NEW w \in Workers, NEW i \in Invocations,
           chunk[w].inv = i, pc[w] \in InFlight
    PROVE  /\ AfterChunk(w) \in InvocationType
           /\ AfterChunk(w).busy = inv[i].busy \ {chunk[w].lane}
           /\ AfterChunk(w).active = inv[i].active - 1
           /\ AfterChunk(w).cancelled = (inv[i].cancelled \/ pc[w] = "sawCancel")
           /\ AfterChunk(w).failed = (inv[i].failed \/ pc[w] = "threw")
           /\ \/ AfterChunk(w).next = inv[i].next
              \/ /\ AfterChunk(w).next = Items[i]
                 /\ AfterChunk(w).cancelled \/ AfterChunk(w).failed
           /\ AfterChunk(w).completed =>
                 /\ AfterChunk(w).active = 0
                 /\ \/ AfterChunk(w).cancelled \/ AfterChunk(w).failed
                    \/ AfterChunk(w).next = Items[i]
<1> DEFINE u == [inv[i] EXCEPT !.busy = @ \ {chunk[w].lane},
                               !.active = @ - 1,
                               !.cancelled = @ \/ pc[w] = "sawCancel",
                               !.failed = @ \/ pc[w] = "threw"]
           v == IF u.cancelled \/ u.failed
                THEN [u EXCEPT !.next = Items[i], !.queued = FALSE]
                ELSE QueueLocked(i, u)
<1>1. AfterChunk(w) = FinishIfReadyLocked(i, v)
  BY DEF AfterChunk
<1>2. /\ inv[i] \in InvocationType /\ Items[i] \in Nat
      /\ inv[i].next \in Nat /\ inv[i].next <= Items[i]
  BY SharedRunnerAssumption DEF RunnerInv, TypeOK, InvocationType, ChunksBelowNext
<1>3. w \in Holders(i) /\ inv[i].active = Cardinality(Holders(i))
  BY DEF Holders, WorksOn, RunnerInv, LanesMatchWorkers
<1>4. inv[i].active \in Nat \ {0}
  <2>1. Cardinality(Holders(i)) # 0
    BY <1>3, HoldersFinite, FS_EmptySet
  <2>2. QED
    BY <1>2, <1>3, <2>1 DEF InvocationType
<1>5. ~inv[i].completed
  BY <1>4 DEF RunnerInv, CompletionIsFinal
<1>6. /\ u \in InvocationType
      /\ u.next = inv[i].next /\ u.busy = inv[i].busy \ {chunk[w].lane}
      /\ u.active = inv[i].active - 1
      /\ u.cancelled = (inv[i].cancelled \/ pc[w] = "sawCancel")
      /\ u.failed = (inv[i].failed \/ pc[w] = "threw")
      /\ ~u.completed
  <2>1. /\ inv[i].busy \ {chunk[w].lane} \in SUBSET Nat
        /\ inv[i].active - 1 \in Nat
        /\ (inv[i].cancelled \/ pc[w] = "sawCancel") \in BOOLEAN
        /\ (inv[i].failed \/ pc[w] = "threw") \in BOOLEAN
    BY <1>2, <1>4 DEF InvocationType
  <2>2. QED
    BY <1>2, <1>5, <2>1 DEF InvocationType
<1> HIDE DEF u
<1>7. /\ v \in InvocationType
      /\ v.busy = u.busy /\ v.active = u.active
      /\ v.cancelled = u.cancelled /\ v.failed = u.failed
      /\ ~v.completed
      /\ \/ v.next = inv[i].next
         \/ v.next = Items[i] /\ (v.cancelled \/ v.failed)
  <2>1. CASE u.cancelled \/ u.failed
    <3>1. v = [u EXCEPT !.next = Items[i], !.queued = FALSE]
      BY <2>1
    <3> HIDE DEF v
    <3>2. QED
      BY <1>2, <1>6, <2>1, <3>1 DEF InvocationType
  <2>2. CASE ~(u.cancelled \/ u.failed)
    <3>1. v = QueueLocked(i, u)
      BY <2>2
    <3> HIDE DEF v
    <3>2. QED
      BY <1>6, <3>1, QueueLockedEffect
  <2>3. QED
    BY <2>1, <2>2
<1> HIDE DEF v
<1>8. v.next \in Nat /\ v.next <= Items[i]
  BY <1>2, <1>7
<1>9. /\ FinishIfReadyLocked(i, v) \in InvocationType
      /\ FinishIfReadyLocked(i, v).next = v.next
      /\ FinishIfReadyLocked(i, v).busy = v.busy
      /\ FinishIfReadyLocked(i, v).active = v.active
      /\ FinishIfReadyLocked(i, v).cancelled = v.cancelled
      /\ FinishIfReadyLocked(i, v).failed = v.failed
      /\ FinishIfReadyLocked(i, v).completed =>
            v.active = 0 /\ (v.cancelled \/ v.failed \/ v.next >= Items[i])
  BY <1>2, <1>7, FinishEffect
<1>10. QED
  BY <1>1, <1>2, <1>6, <1>7, <1>8, <1>9

LEMMA CompleteChunkPreserves ==
    ASSUME RunnerInv, NEW w \in Workers, CompleteChunk(w)
    PROVE  RunnerInv'
<1>1. /\ TypeOK
      /\ pc[w] \in InFlight /\ pc[w] # "calling"
      /\ UNCHANGED <<lastGroup, cycleIndex, stop, mutex, caller, expired, called>>
  BY DEF CompleteChunk, RunnerInv, InFlight
<1>2. PICK i \in Invocations : chunk[w].inv = i
  BY <1>1 DEF RunnerInv, ChunksBelowNext
<1>3. PICK v : v = AfterChunk(w)
  OBVIOUS
<1>4. /\ v \in InvocationType
      /\ v.busy = inv[i].busy \ {chunk[w].lane}
      /\ v.active = inv[i].active - 1
      /\ v.cancelled = (inv[i].cancelled \/ pc[w] = "sawCancel")
      /\ v.failed = (inv[i].failed \/ pc[w] = "threw")
      /\ \/ v.next = inv[i].next
         \/ v.next = Items[i] /\ (v.cancelled \/ v.failed)
      /\ v.completed => /\ v.active = 0
                        /\ v.cancelled \/ v.failed \/ v.next = Items[i]
  BY <1>1, <1>2, <1>3, AfterChunkEffect
<1>5. /\ inv' \in [Invocations -> InvocationType]
      /\ inv'[i] = v
      /\ \A j \in Invocations \ {i} : inv'[j] = inv[j]
      /\ ready' \in [Priorities -> Seq(Invocations)]
      /\ \A p \in Priorities : \A k \in DOMAIN ready'[p] :
            \/ ready'[p][k] = i
            \/ \E m \in DOMAIN ready[p] : ready'[p][k] = ready[p][m]
  <2>1. Store(i, v) /\ Priority[i] \in Priorities
    BY <1>2, <1>3, SharedRunnerAssumption DEF CompleteChunk, Priorities
  <2>2. QED
    BY <1>1, <1>4, <2>1, StoreEffect
<1>6. /\ pc' \in [Workers -> PcState]
      /\ pc'[w] = "checking"
      /\ \A x \in Workers \ {w} : \/ pc'[x] = pc[x]
                                  \/ pc[x] = "waiting" /\ pc'[x] = "checking"
  <2>1. [pc EXCEPT ![w] = "checking"] \in [Workers -> PcState]
    BY <1>1 DEF TypeOK, PcState
  <2>2. /\ pc' \in [Workers -> PcState]
        /\ \A x \in Workers : \/ pc'[x] = [pc EXCEPT ![w] = "checking"][x]
                              \/ /\ [pc EXCEPT ![w] = "checking"][x] = "waiting"
                                 /\ pc'[x] = "checking"
    BY <2>1, NotifyAllEffect DEF CompleteChunk
  <2>3. QED
    BY <1>1, <2>2 DEF TypeOK
<1>7. \A x \in Workers \ {w} : chunk'[x] = chunk[x]
  BY <1>1 DEF CompleteChunk, TypeOK
<1>8. TypeOK'
  <2>1. chunk' \in [Workers -> [inv : Invocations \cup {None}, value : Nat,
                                end : Nat, lane : Nat]]
    BY <1>1 DEF CompleteChunk, TypeOK, NoChunk
  <2>2. QED
    BY <1>1, <1>5, <1>6, <2>1 DEF TypeOK, PcState
<1>9. /\ \A x \in Workers \ {w}, j \in Invocations : WorksOn(x, j)' <=> WorksOn(x, j)
      /\ \A j \in Invocations : ~WorksOn(w, j)'
      /\ \A j \in Invocations : WorksOn(w, j) <=> j = i
  BY <1>1, <1>2, <1>6, <1>7 DEF WorksOn, InFlight
<1>10. /\ w \in Holders(i)
       /\ Holders(i)' = Holders(i) \ {w}
       /\ \A j \in Invocations \ {i} : Holders(j)' = Holders(j)
       /\ \A j \in Invocations : w \notin Holders(j)'
  BY <1>9 DEF Holders
<1>11. \A x \in Workers : \A j, y : Owes(x, j, y)' <=> Owes(x, j, y)
  BY <1>1, <1>6, <1>7 DEF Owes
<1>12. InPool(i) /\ InPool(i)'
  BY <1>1, <1>10 DEF RunnerInv, NoWorkAfterReturn, InPool
<1>13. \A x \in Workers : pc'[x] \in InFlight =>
            x # w /\ pc'[x] = pc[x] /\ chunk'[x] = chunk[x]
  BY <1>6, <1>7 DEF InFlight
<1>14. /\ \A j \in Invocations : /\ inv[j].next \in Nat /\ inv'[j].next \in Nat
                                 /\ Items[j] \in Nat
                                 /\ inv[j].next <= Items[j]
       /\ \A j \in Invocations : /\ inv[j].next <= inv'[j].next
                                 /\ inv'[j].next <= Items[j]
  <2>1. \A j \in Invocations : /\ inv[j].next \in Nat /\ inv'[j].next \in Nat
                               /\ Items[j] \in Nat
                               /\ inv[j].next <= Items[j]
    BY <1>1, <1>5, SharedRunnerAssumption
       DEF RunnerInv, ChunksBelowNext, TypeOK, InvocationType
  <2>2. ASSUME NEW j \in Invocations
        PROVE  inv[j].next <= inv'[j].next /\ inv'[j].next <= Items[j]
    <3>1. inv'[j].next = inv[j].next \/ inv'[j].next = Items[j]
      BY <1>4, <1>5
    <3>2. QED
      BY <2>1, <3>1
  <2>3. QED
    BY <2>1, <2>2
<1>15. ChunksBelowNext'
  <2>1. ASSUME NEW x \in Workers, pc'[x] \in InFlight
        PROVE  /\ chunk'[x].inv \in Invocations
               /\ chunk'[x].value <= chunk'[x].end
               /\ chunk'[x].end <= inv'[chunk'[x].inv].next
    <3>1. /\ chunk'[x] = chunk[x]
          /\ chunk[x].inv \in Invocations
          /\ chunk[x].value <= chunk[x].end
          /\ chunk[x].end <= inv[chunk[x].inv].next
      BY <1>13, <2>1 DEF RunnerInv, ChunksBelowNext
    <3>2. chunk[x].end \in Nat
      BY <1>1 DEF TypeOK
    <3>3. QED
      BY <1>14, <3>1, <3>2
  <2>2. QED
    BY <1>14, <2>1 DEF ChunksBelowNext
<1>16. LanesMatchWorkers'
  <2>1. ASSUME NEW j \in Invocations, j # i
        PROVE  /\ inv'[j].busy = {chunk'[x].lane : x \in Holders(j)'}
               /\ inv'[j].active = Cardinality(Holders(j)')
               /\ inv'[j].busy \subseteq Lanes(j)
               /\ \A x, y \in Holders(j)' : chunk'[x].lane = chunk'[y].lane => x = y
    <3>1. Holders(j)' = Holders(j) /\ inv'[j] = inv[j]
      BY <1>5, <1>10, <2>1
    <3>2. \A x \in Holders(j) : chunk'[x] = chunk[x]
      BY <1>7, <1>10, <3>1 DEF Holders
    <3>3. QED
      BY <3>1, <3>2 DEF RunnerInv, LanesMatchWorkers
  <2>2. /\ inv'[i].busy = {chunk'[x].lane : x \in Holders(i)'}
        /\ inv'[i].active = Cardinality(Holders(i)')
        /\ inv'[i].busy \subseteq Lanes(i)
        /\ \A x, y \in Holders(i)' : chunk'[x].lane = chunk'[y].lane => x = y
    <3>1. \A x \in Holders(i) \ {w} : chunk'[x] = chunk[x]
      BY <1>7 DEF Holders
    <3>2. /\ inv[i].busy = {chunk[x].lane : x \in Holders(i)}
          /\ inv[i].active = Cardinality(Holders(i))
          /\ inv[i].busy \subseteq Lanes(i)
          /\ \A x, y \in Holders(i) : chunk[x].lane = chunk[y].lane => x = y
      BY DEF RunnerInv, LanesMatchWorkers
    <3>3. inv'[i].busy = {chunk'[x].lane : x \in Holders(i)'}
      <4>1. {chunk'[x].lane : x \in Holders(i) \ {w}}
               = {chunk[x].lane : x \in Holders(i) \ {w}}
        BY <3>1
      <4>2. {chunk[x].lane : x \in Holders(i) \ {w}}
               = {chunk[x].lane : x \in Holders(i)} \ {chunk[w].lane}
        BY <1>10, <3>2
      <4>3. QED
        BY <1>4, <1>5, <1>10, <3>2, <4>1, <4>2
    <3>4. inv'[i].active = Cardinality(Holders(i)')
      <4>1. IsFiniteSet(Holders(i))
        BY HoldersFinite
      <4>2. Cardinality(Holders(i) \ {w}) = Cardinality(Holders(i)) - 1
        BY <1>10, <4>1, FS_RemoveElement
      <4>3. QED
        BY <1>4, <1>5, <1>10, <3>2, <4>2
    <3>5. inv'[i].busy \subseteq Lanes(i)
      BY <1>4, <1>5, <3>2
    <3>6. \A x, y \in Holders(i)' : chunk'[x].lane = chunk'[y].lane => x = y
      BY <1>10, <3>1, <3>2
    <3>7. QED
      BY <3>3, <3>4, <3>5, <3>6
  <2>3. QED
    BY <2>1, <2>2 DEF LanesMatchWorkers, Lanes, LaneCount
<1>17. NoWorkAfterReturn'
  BY <1>1, <1>10, <1>12 DEF RunnerInv, NoWorkAfterReturn, InPool
<1>18. EveryValueOnce'
  BY <1>1, <1>11 DEF RunnerInv, EveryValueOnce
<1>19. ValuesAccountedFor'
  <2>1. ASSUME NEW j \in Invocations, NEW y \in called[j]
        PROVE  y < inv'[j].next
    <3>1. y \in Nat /\ y < inv[j].next
      BY <1>1 DEF RunnerInv, ValuesAccountedFor, TypeOK
    <3>2. QED
      BY <1>14, <3>1
  <2>2. ASSUME NEW j \in Invocations, ~Interrupted(j)'
        PROVE  ~Interrupted(j) /\ inv'[j].next = inv[j].next
    <3>1. \A x \in Holders(j) : x # w => x \in Holders(j)' /\ pc'[x] = pc[x]
      <4>1. \A x \in Holders(j) : x # w => x \in Holders(j)'
        BY <1>9 DEF Holders
      <4>2. \A x \in Holders(j) : x # w => pc'[x] = pc[x]
        BY <1>6 DEF Holders, WorksOn, InFlight
      <4>3. QED
        BY <4>1, <4>2
    <3>2. ~inv'[j].cancelled /\ ~inv'[j].failed
      BY <2>2 DEF Interrupted
    <3>3. \A x \in Holders(j) : x # w => pc[x] \notin {"sawCancel", "threw"}
      BY <2>2, <3>1 DEF Interrupted
    <3>4. CASE j = i
      BY <1>4, <1>5, <3>2, <3>3, <3>4 DEF Interrupted
    <3>5. CASE j # i
      <4>1. inv'[j] = inv[j] /\ w \notin Holders(j)
        BY <1>5, <1>10, <3>5
      <4>2. QED
        BY <3>2, <3>3, <4>1 DEF Interrupted
    <3>6. QED
      BY <3>4, <3>5
  <2>3. ASSUME NEW j \in Invocations, ~Interrupted(j)',
               NEW y \in 0 .. inv'[j].next - 1
        PROVE  y \in called[j] \/ \E x \in Workers : Owes(x, j, y)'
    <3>1. ~Interrupted(j) /\ y \in 0 .. inv[j].next - 1
      BY <2>2, <2>3
    <3>2. QED
      BY <1>11, <3>1 DEF RunnerInv, ValuesAccountedFor
  <2>4. QED
    BY <1>1, <2>1, <2>3 DEF ValuesAccountedFor
<1>20. CompletionIsFinal'
  BY <1>4, <1>5 DEF RunnerInv, CompletionIsFinal
<1>21. QueuedRunsWait'
  <2>1. \A j \in Invocations : caller'[j] \in {"idle", "submitting"} => inv'[j] = Fresh
    BY <1>1, <1>5, <1>12 DEF RunnerInv, QueuedRunsWait, InPool, Fresh
  <2>2. ASSUME NEW r \in Priorities, NEW m \in DOMAIN ready'[r]
        PROVE  \/ caller'[ready'[r][m]] \in {"notifying", "polling"}
               \/ inv'[ready'[r][m]].completed
    <3>1. CASE ready'[r][m] = i
      BY <1>12, <3>1 DEF InPool
    <3>2. CASE ready'[r][m] # i
      <4>1. PICK l \in DOMAIN ready[r] : ready'[r][m] = ready[r][l]
        BY <1>5, <3>2
      <4>2. /\ ready[r][l] \in Invocations \ {i}
            /\ InPool(ready[r][l]) \/ inv[ready[r][l]].completed
        BY <1>1, <3>2, <4>1, QueueMembers DEF RunnerInv, QueuedRunsWait
      <4>3. QED
        BY <1>1, <1>5, <4>1, <4>2 DEF InPool
    <3>3. QED
      BY <3>1, <3>2
  <2>3. QED
    BY <2>1, <2>2 DEF QueuedRunsWait, InPool
<1>22. QED
  BY <1>8, <1>15, <1>16, <1>17, <1>18, <1>19, <1>20, <1>21 DEF RunnerInv

-----------------------------------------------------------------------------
(* The theorems.                                                            *)

LEMMA NextPreserves ==
    ASSUME RunnerInv, [Next]_vars
    PROVE  RunnerInv'
<1>1. ASSUME NEW i \in Invocations, Enter(i)
      PROVE  RunnerInv'
  BY <1>1, EnterPreserves
<1>2. ASSUME NEW i \in Invocations, CallerStep(i)
      PROVE  RunnerInv'
  BY <1>2, SubmitPreserves, NotifyPreserves, PollPreserves DEF CallerStep
<1>3. ASSUME NEW w \in Workers, Take(w)
      PROVE  RunnerInv'
  BY <1>3, DispatchPreserves, DiscardPreserves, WakePreserves DEF Take
<1>4. ASSUME NEW w \in Workers, WorkerStep(w) \/ WakeSpuriously(w)
      PROVE  RunnerInv'
  BY <1>3, <1>4, CheckWorkPreserves, CallFunctionPreserves, EndChunkPreserves,
     CompleteChunkPreserves, WakePreserves DEF WorkerStep
<1>5. CASE \/ \E i \in Invocations : Expire(i)
           \/ BeginStop \/ NotifyStop \/ Join
           \/ UNCHANGED vars
  BY <1>5, EnvironmentPreserves
<1>6. QED
  BY <1>1, <1>2, <1>4, <1>5 DEF Next, StopStep

\* Whatever the pool's size, the calls, their priorities and groups, the chunk
\* size, and whichever callbacks expire or throw, the inductive invariant of
\* shared_parallel_runner.cc holds in every reachable state.
THEOREM RunnerInvariant == Spec => []RunnerInv
<1>1. Init => RunnerInv
  BY InitEstablishes
<1>2. RunnerInv /\ [Next]_vars => RunnerInv'
  BY NextPreserves
<1>3. QED
  BY <1>1, <1>2, PTL DEF Spec

\* The scheduler's state keeps its types.
THEOREM TypeCorrect == Spec => []TypeOK
<1>1. RunnerInv => TypeOK
  BY DEF RunnerInv
<1>2. QED
  BY <1>1, RunnerInvariant, PTL

\* lane_busy and active_chunks always describe the chunks in flight: no two
\* workers are on one lane of an invocation, no lane leaks, and the counter
\* that decides when Run may return is never wrong.
THEOREM LanesAreExclusive == Spec => []LanesMatchWorkers
<1>1. RunnerInv => LanesMatchWorkers
  BY DEF RunnerInv
<1>2. QED
  BY <1>1, RunnerInvariant, PTL

\* No worker touches the opaque pointers of a Run that has returned.
THEOREM NothingOutlivesRun == Spec => []NoWorkAfterReturn
<1>1. RunnerInv => NoWorkAfterReturn
  BY DEF RunnerInv
<1>2. QED
  BY <1>1, RunnerInvariant, PTL

\* Each value of a range is handed to one worker once, and a Run that reports
\* success has called its function with all of them.
THEOREM ValuesHandedOutOnce == Spec => []EveryValueOnce
<1>1. RunnerInv => EveryValueOnce
  BY DEF RunnerInv
<1>2. QED
  BY <1>1, RunnerInvariant, PTL

-----------------------------------------------------------------------------
(* The queues and the queued flags.                                         *)

\* The deques list the invocations that are flagged, each once.
QueuesMatch ==
    /\ \A p \in Priorities :
          /\ Distinct(ready[p])
          /\ \A i : InQueue(ready[p], i) => Priority[i] = p
    /\ \A i \in Invocations : inv[i].queued <=> InQueue(ready[Priority[i]], i)

\* An invocation that ought to be queued, and one whose flag says so.
Wanted(i, v) == ~Dead(v) /\ v.next < Items[i] /\ v.active < LaneCount(i)

Exact(i, v) == v.queued <=> Wanted(i, v)

\* A flag is right while Run waits, and down before and after.
FlagsExact ==
    \A i \in Invocations : IF InPool(i) THEN Exact(i, inv[i]) ELSE ~inv[i].queued

LEMMA InvocationConstants ==
    ASSUME NEW i \in Invocations
    PROVE  Priority[i] \in Priorities /\ Items[i] \in Nat /\ LaneCount(i) \in Nat
<1>1. Cardinality(Workers) \in Nat /\ Items[i] \in Nat
  BY SharedRunnerAssumption, FS_CardinalityType
<1>2. QED
  BY <1>1, SharedRunnerAssumption DEF Priorities, LaneCount, Lesser

\* QueueLocked raises a flag that is not wrong already to what it ought to be.
LEMMA QueueLockedExact ==
    ASSUME NEW i \in Invocations, NEW v \in InvocationType, v.queued => Wanted(i, v)
    PROVE  Exact(i, QueueLocked(i, v))
<1>1. /\ v.next \in Nat /\ v.active \in Nat /\ v.queued \in BOOLEAN
      /\ LaneCount(i) \in Nat /\ Items[i] \in Nat
  BY InvocationConstants DEF InvocationType
<1>2. CASE v.queued \/ ~Wanted(i, v)
  <2>1. QueueLocked(i, v) = v
    BY <1>1, <1>2 DEF QueueLocked, Wanted
  <2>2. QED
    BY <1>2, <2>1 DEF Exact
<1>3. CASE ~v.queued /\ Wanted(i, v)
  <2>1. QueueLocked(i, v) = [v EXCEPT !.queued = TRUE]
    BY <1>1, <1>3 DEF QueueLocked, Wanted
  <2>2. QueueLocked(i, v).queued
    BY <2>1 DEF InvocationType
  <2>3. Wanted(i, QueueLocked(i, v))
    BY <1>3, QueueLockedEffect DEF Wanted, Dead
  <2>4. QED
    BY <2>2, <2>3 DEF Exact
<1>4. QED
  BY <1>2, <1>3

LEMMA FinishExact ==
    ASSUME NEW i \in Invocations, NEW v \in InvocationType, Exact(i, v)
    PROVE  Exact(i, FinishIfReadyLocked(i, v))
<1>1. \/ FinishIfReadyLocked(i, v) = v
      \/ FinishIfReadyLocked(i, v) = [v EXCEPT !.completed = TRUE, !.queued = FALSE]
  BY DEF FinishIfReadyLocked
<1>2. QED
  BY <1>1 DEF Exact, Wanted, Dead, InvocationType

LEMMA CancelExact ==
    ASSUME NEW i \in Invocations, NEW v \in InvocationType
    PROVE  Exact(i, CancelLocked(i, v))
<1> DEFINE u == [v EXCEPT !.cancelled = TRUE, !.next = Items[i], !.queued = FALSE]
<1>1. u \in InvocationType /\ u.cancelled /\ ~u.queued
  BY InvocationConstants DEF InvocationType
<1>2. CancelLocked(i, v) = FinishIfReadyLocked(i, u)
  BY DEF CancelLocked
<1> HIDE DEF u
<1>3. Exact(i, u)
  BY <1>1 DEF Exact, Wanted, Dead
<1>4. QED
  BY <1>1, <1>2, <1>3, FinishExact

\* Storing an invocation keeps its queue in step with its flag.
LEMMA StoreMatches ==
    ASSUME TypeOK, QueuesMatch, NEW i \in Invocations, NEW v \in InvocationType,
           Store(i, v)
    PROVE  QueuesMatch'
<1>1. Priority[i] \in Priorities
  BY InvocationConstants
<1> DEFINE q == ready[Priority[i]]
           r == IF v.queued /\ ~inv[i].queued THEN Append(q, i)
                ELSE IF ~v.queued THEN RemoveFirst(q, i)
                ELSE q
<1>2. q \in Seq(Invocations) /\ Distinct(q) /\ (inv[i].queued <=> InQueue(q, i))
  BY <1>1 DEF TypeOK, QueuesMatch
<1>3. ready' = [ready EXCEPT ![Priority[i]] = r] /\ inv' = [inv EXCEPT ![i] = v]
  BY DEF Store
<1>4. /\ Distinct(r)
      /\ \A x : InQueue(r, x) <=> IF x = i THEN v.queued ELSE InQueue(q, x)
  <2>1. v.queued \in BOOLEAN
    BY DEF InvocationType
  <2>2. CASE v.queued /\ ~inv[i].queued
    <3>1. r = Append(q, i)
      BY <2>2
    <3> HIDE DEF q, r
    <3>2. QED
      BY <1>2, <2>2, <3>1, AppendQueue
  <2>3. CASE ~v.queued
    <3>1. r = RemoveFirst(q, i)
      BY <2>3
    <3> HIDE DEF q, r
    <3>2. QED
      BY <1>2, <2>3, <3>1, RemoveFirstQueue
  <2>4. CASE v.queued /\ inv[i].queued
    <3>1. r = q
      BY <2>4
    <3> HIDE DEF q, r
    <3>2. QED
      BY <1>2, <2>4, <3>1
  <2>5. QED
    BY <2>1, <2>2, <2>3, <2>4
<1> HIDE DEF r
<1>5. \A p \in Priorities : ready'[p] = IF p = Priority[i] THEN r ELSE ready[p]
  BY <1>1, <1>3 DEF TypeOK
<1>6. \A j \in Invocations : inv'[j] = IF j = i THEN v ELSE inv[j]
  BY <1>3 DEF TypeOK
<1>7. ASSUME NEW p \in Priorities
      PROVE  /\ Distinct(ready'[p])
             /\ \A j : InQueue(ready'[p], j) => Priority[j] = p
  <2>1. CASE p = Priority[i]
    BY <1>4, <1>5, <2>1 DEF QueuesMatch
  <2>2. CASE p # Priority[i]
    BY <1>5, <2>2 DEF QueuesMatch
  <2>3. QED
    BY <2>1, <2>2
<1>8. ASSUME NEW j \in Invocations
      PROVE  inv'[j].queued <=> InQueue(ready'[Priority[j]], j)
  <2>1. Priority[j] \in Priorities
    BY InvocationConstants
  <2>2. CASE j = i
    BY <1>1, <1>4, <1>5, <1>6, <2>2
  <2>3. CASE j # i /\ Priority[j] = Priority[i]
    BY <1>1, <1>4, <1>5, <1>6, <2>3 DEF QueuesMatch
  <2>4. CASE Priority[j] # Priority[i]
    BY <1>5, <1>6, <2>1, <2>4 DEF QueuesMatch
  <2>5. QED
    BY <2>2, <2>3, <2>4
<1>9. QED
  BY <1>7, <1>8 DEF QueuesMatch

\* A turn of TakeWorkLocked's loop does, too.
LEMMA SelectsMatches ==
    ASSUME TypeOK, QueuesMatch, NEW w \in Workers, NEW n \in 1..7, NEW p \in Priorities,
           NEW k \in DOMAIN ready[p], NEW v \in InvocationType, Selects(w, n, p, k, v)
    PROVE  QueuesMatch'
<1>1. PICK i \in Invocations : i = ready[p][k]
  BY QueueMembers
<1> DEFINE q == ready[p]
           r == IF v.queued THEN Append(RemoveAt(q, k), i) ELSE RemoveAt(q, k)
<1>2. q \in Seq(Invocations) /\ Distinct(q) /\ k \in DOMAIN q /\ q[k] = i
  BY <1>1 DEF TypeOK, QueuesMatch
<1>3. ready' = [ready EXCEPT ![p] = r] /\ inv' = [inv EXCEPT ![i] = v]
  BY <1>1 DEF Selects
<1>4. InQueue(ready[p], i) /\ Priority[i] = p
  BY <1>1 DEF InQueue, QueuesMatch
<1> HIDE DEF q
<1>5. /\ RemoveAt(q, k) \in Seq(Invocations) /\ Distinct(RemoveAt(q, k))
      /\ \A x : InQueue(RemoveAt(q, k), x) <=> InQueue(q, x) /\ x # i
  BY <1>2, RemoveAtQueue
<1>6. /\ Distinct(r)
      /\ \A x : InQueue(r, x) <=> IF x = i THEN v.queued ELSE InQueue(q, x)
  <2>1. CASE v.queued
    <3>1. r = Append(RemoveAt(q, k), i)
      BY <2>1
    <3> HIDE DEF r
    <3>2. QED
      BY <1>5, <2>1, <3>1, AppendQueue
  <2>2. CASE ~v.queued
    <3>1. r = RemoveAt(q, k)
      BY <2>2
    <3> HIDE DEF r
    <3>2. QED
      BY <1>5, <2>2, <3>1
  <2>3. QED
    BY <2>1, <2>2
<1> HIDE DEF r
<1>7. \A s \in Priorities : ready'[s] = IF s = p THEN r ELSE ready[s]
  BY <1>3 DEF TypeOK
<1>8. \A j \in Invocations : inv'[j] = IF j = i THEN v ELSE inv[j]
  BY <1>3 DEF TypeOK
<1>9. ASSUME NEW s \in Priorities
      PROVE  /\ Distinct(ready'[s])
             /\ \A j : InQueue(ready'[s], j) => Priority[j] = s
  <2>1. CASE s = p
    BY <1>4, <1>6, <1>7, <2>1 DEF QueuesMatch, q
  <2>2. CASE s # p
    BY <1>7, <2>2 DEF QueuesMatch
  <2>3. QED
    BY <2>1, <2>2
<1>10. ASSUME NEW j \in Invocations
       PROVE  inv'[j].queued <=> InQueue(ready'[Priority[j]], j)
  <2>1. Priority[j] \in Priorities
    BY InvocationConstants
  <2>2. CASE j = i
    BY <1>4, <1>6, <1>7, <1>8, <2>2
  <2>3. CASE j # i /\ Priority[j] = p
    BY <1>6, <1>7, <1>8, <2>3 DEF QueuesMatch, q
  <2>4. CASE Priority[j] # p
    BY <1>4, <1>7, <1>8, <2>1, <2>4 DEF QueuesMatch
  <2>5. QED
    BY <2>2, <2>3, <2>4
<1>11. QED
  BY <1>9, <1>10 DEF QueuesMatch

-----------------------------------------------------------------------------
(* The steps.                                                               *)

QueueInv == QueuesMatch /\ FlagsExact

\* An invocation with fewer chunks in flight than lanes has a free lane.
LEMMA LaneIsFree ==
    ASSUME RunnerInv, NEW i \in Invocations, inv[i].active < LaneCount(i)
    PROVE  Lanes(i) \ inv[i].busy # {}
<1> DEFINE H == Holders(i)
           L == Lanes(i)
           f == [l \in L |-> CHOOSE w \in H : chunk[w].lane = l]
<1>1. IsFiniteSet(H) /\ inv[i].active = Cardinality(H) /\ inv[i].busy = {chunk[w].lane : w \in H}
  BY HoldersFinite DEF RunnerInv, LanesMatchWorkers
<1>2. IsFiniteSet(L) /\ Cardinality(L) = LaneCount(i)
  BY InvocationConstants, FS_Interval DEF Lanes
<1>3. SUFFICES ASSUME L \subseteq inv[i].busy
               PROVE  FALSE
  OBVIOUS
<1>4. ASSUME NEW l \in L
      PROVE  f[l] \in H /\ chunk[f[l]].lane = l
  BY <1>1, <1>3
<1>5. f \in [L -> H]
  BY <1>4
<1> HIDE DEF f, H, L
<1>6. \E x, y \in L : x # y /\ f[x] = f[y]
  BY <1>1, <1>2, <1>5, FS_PigeonHole
<1>7. QED
  BY <1>4, <1>6

\* A step that rewrites one invocation, or none.
LEMMA FlagStep ==
    ASSUME FlagsExact, NEW i \in Invocations,
           IF InPool(i)' THEN Exact(i, inv'[i]) ELSE ~inv'[i].queued,
           \A j \in Invocations \ {i} : inv'[j] = inv[j] /\ (InPool(j)' <=> InPool(j))
    PROVE  FlagsExact'
  BY DEF FlagsExact, Exact, Wanted, Dead

LEMMA NoQueueTouched ==
    ASSUME QueueInv, UNCHANGED <<inv, ready>>,
           \A j \in Invocations : InPool(j)' <=> InPool(j)
    PROVE  QueueInv'
<1>1. QueuesMatch'
  BY DEF QueueInv, QueuesMatch
<1>2. FlagsExact'
  BY DEF QueueInv, FlagsExact, Exact, Wanted, Dead
<1>3. QED
  BY <1>1, <1>2 DEF QueueInv

LEMMA EnterQueues ==
    ASSUME RunnerInv, QueueInv, NEW i \in Invocations, Enter(i)
    PROVE  QueueInv'
<1>1. \A j \in Invocations : InPool(j)' <=> InPool(j)
  BY DEF Enter, InPool, RunnerInv, TypeOK
<1>2. QED
  BY <1>1, NoQueueTouched DEF Enter, poolVars

LEMMA SubmitQueues ==
    ASSUME RunnerInv, QueueInv, NEW i \in Invocations, Submit(i)
    PROVE  QueueInv'
<1> USE DEF RunnerInv, QueueInv
<1>1. \A j \in Invocations \ {i} : InPool(j)' <=> InPool(j)
  BY DEF Submit, InPool, TypeOK
<1>2. ~InPool(i)
  BY DEF Submit, InPool
<1>3. CASE Stopping
  <2>1. UNCHANGED <<inv, ready>> /\ ~InPool(i)'
    BY <1>3 DEF Submit, InPool, TypeOK
  <2>2. QED
    BY <1>1, <1>2, <2>1, NoQueueTouched
<1>4. CASE ~Stopping
  <2>1. PICK v \in InvocationType : v = QueueLocked(i, Fresh)
    BY FreshIsInvocation, QueueLockedEffect
  <2>2. Store(i, v) /\ InPool(i)'
    BY <1>4, <2>1 DEF Submit, InPool, TypeOK
  <2>3. Exact(i, v)
    <3>1. ~Fresh.queued
      BY DEF Fresh
    <3>2. QED
      BY <2>1, <3>1, FreshIsInvocation, QueueLockedExact
  <2>4. inv'[i] = v /\ \A j \in Invocations \ {i} : inv'[j] = inv[j]
    BY <2>2 DEF Store, TypeOK
  <2>5. FlagsExact'
    BY <1>1, <2>2, <2>3, <2>4, FlagStep
  <2>6. QED
    BY <2>2, <2>5, StoreMatches
<1>5. QED
  BY <1>3, <1>4

LEMMA PollQueues ==
    ASSUME RunnerInv, QueueInv, NEW i \in Invocations, Poll(i)
    PROVE  QueueInv'
<1> USE DEF RunnerInv, QueueInv
<1>1. inv[i] \in InvocationType /\ Items[i] \in Nat
  BY InvocationConstants DEF TypeOK
<1>2. PICK v : v = IF expired[i] /\ ~inv[i].completed THEN CancelLocked(i, inv[i]) ELSE inv[i]
  OBVIOUS
<1>3. v \in InvocationType
  BY <1>1, <1>2, CancelEffect
<1>4. /\ Store(i, v) /\ caller[i] = "polling"
      /\ caller' = [caller EXCEPT ![i] =
                            IF ~v.completed THEN "polling"
                            ELSE IF v.cancelled \/ v.failed THEN "error"
                            ELSE "success"]
  BY <1>2 DEF Poll
<1>5. Exact(i, v)
  <2>1. Exact(i, inv[i])
    BY <1>4 DEF FlagsExact, InPool
  <2>2. QED
    BY <1>1, <1>2, <2>1, CancelExact
<1>6. v.completed => ~v.queued
  BY <1>5 DEF Exact, Wanted, Dead
<1>7. (InPool(i)' <=> ~v.completed) /\ \A j \in Invocations \ {i} : InPool(j)' <=> InPool(j)
  BY <1>4 DEF InPool, TypeOK
<1>8. inv'[i] = v /\ \A j \in Invocations \ {i} : inv'[j] = inv[j]
  BY <1>4 DEF Store, TypeOK
<1>9. FlagsExact'
  BY <1>5, <1>6, <1>7, <1>8, FlagStep
<1>10. QED
  BY <1>3, <1>4, <1>9, StoreMatches

LEMMA CompleteChunkQueues ==
    ASSUME RunnerInv, QueueInv, NEW w \in Workers, CompleteChunk(w)
    PROVE  QueueInv'
<1> USE DEF RunnerInv, QueueInv
<1>1. pc[w] \in InFlight /\ pc[w] \in {"ran", "sawCancel", "threw"}
  BY DEF CompleteChunk, InFlight
<1>2. PICK i \in Invocations : i = chunk[w].inv
  BY <1>1 DEF ChunksBelowNext
<1>3. /\ AfterChunk(w) \in InvocationType /\ AfterChunk(w).active = inv[i].active - 1
  BY <1>1, <1>2, AfterChunkEffect
<1>4. w \in Holders(i) /\ InPool(i)
  <2>1. w \in Holders(i)
    BY <1>1, <1>2 DEF Holders, WorksOn
  <2>2. QED
    BY <2>1 DEF NoWorkAfterReturn
<1>5. Exact(i, AfterChunk(w))
  <2> DEFINE u == [inv[i] EXCEPT !.busy = @ \ {chunk[w].lane},
                                 !.active = @ - 1,
                                 !.cancelled = @ \/ pc[w] = "sawCancel",
                                 !.failed = @ \/ pc[w] = "threw"]
  <2>1. inv[i] \in InvocationType /\ Exact(i, inv[i]) /\ LaneCount(i) \in Nat /\ Items[i] \in Nat
    BY <1>4, InvocationConstants DEF FlagsExact, TypeOK
  <2>2. inv[i].active \in Nat \ {0}
    <3>1. inv[i].active \in Nat /\ IsFiniteSet(Holders(i))
      BY <2>1, HoldersFinite DEF InvocationType
    <3>2. QED
      BY <1>4, <3>1, InactiveIsFree
  <2>3. /\ u \in InvocationType /\ u.queued = inv[i].queued /\ u.next = inv[i].next
        /\ u.active = inv[i].active - 1 /\ u.completed = inv[i].completed
        /\ u.cancelled = (inv[i].cancelled \/ pc[w] = "sawCancel")
        /\ u.failed = (inv[i].failed \/ pc[w] = "threw")
    <3>1. /\ inv[i].busy \ {chunk[w].lane} \in SUBSET Nat
          /\ inv[i].active - 1 \in Nat
          /\ (inv[i].cancelled \/ pc[w] = "sawCancel") \in BOOLEAN
          /\ (inv[i].failed \/ pc[w] = "threw") \in BOOLEAN
      BY <2>1, <2>2 DEF InvocationType
    <3>2. QED
      BY <2>1, <3>1 DEF InvocationType
  <2>4. AfterChunk(w) = FinishIfReadyLocked(i,
              IF u.cancelled \/ u.failed
              THEN [u EXCEPT !.next = Items[i], !.queued = FALSE]
              ELSE QueueLocked(i, u))
    BY <1>2 DEF AfterChunk
  <2> HIDE DEF u
  <2>5. CASE u.cancelled \/ u.failed
    <3>1. PICK v : v = [u EXCEPT !.next = Items[i], !.queued = FALSE]
      OBVIOUS
    <3>2. v \in InvocationType /\ ~v.queued /\ (v.cancelled \/ v.failed)
      BY <2>1, <2>3, <2>5, <3>1 DEF InvocationType
    <3>3. Exact(i, v)
      BY <3>2 DEF Exact, Wanted, Dead
    <3>4. QED
      BY <2>4, <2>5, <3>1, <3>2, <3>3, FinishExact
  <2>6. CASE ~(u.cancelled \/ u.failed)
    <3>1. u.queued => Wanted(i, u)
      <4>1. SUFFICES ASSUME u.queued
                     PROVE  Wanted(i, u)
        OBVIOUS
      <4>2. Wanted(i, inv[i])
        BY <2>1, <2>3, <4>1 DEF Exact
      <4>3. u.active < LaneCount(i) /\ u.next < Items[i]
        BY <2>1, <2>2, <2>3, <4>2 DEF Wanted
      <4>4. QED
        BY <2>3, <2>6, <4>2, <4>3 DEF Wanted, Dead
    <3>2. Exact(i, QueueLocked(i, u)) /\ QueueLocked(i, u) \in InvocationType
      BY <2>3, <3>1, QueueLockedExact, QueueLockedEffect
    <3>3. QED
      BY <2>4, <2>6, <3>2, FinishExact
  <2>7. QED
    BY <2>5, <2>6
<1>6. Store(i, AfterChunk(w)) /\ UNCHANGED caller
  BY <1>2 DEF CompleteChunk
<1>7. inv'[i] = AfterChunk(w) /\ \A j \in Invocations \ {i} : inv'[j] = inv[j]
  BY <1>6 DEF Store, TypeOK
<1>8. \A j \in Invocations : InPool(j)' <=> InPool(j)
  BY <1>6 DEF InPool
<1>9. FlagsExact'
  BY <1>4, <1>5, <1>7, <1>8, FlagStep
<1>10. QED
  BY <1>3, <1>6, <1>9, StoreMatches

\* The entry that a turn of the loop takes.
LEMMA EntryIsWanted ==
    ASSUME RunnerInv, QueueInv, NEW p \in Priorities, NEW k \in DOMAIN ready[p],
           NEW i, i = ready[p][k]
    PROVE  /\ i \in Invocations /\ InPool(i) /\ inv[i] \in InvocationType
           /\ Wanted(i, inv[i]) /\ Lanes(i) \ inv[i].busy # {}
<1> USE DEF RunnerInv, QueueInv
<1>1. i \in Invocations /\ Priority[i] = p
  BY QueueMembers DEF QueuesMatch, InQueue
<1>2. inv[i].queued
  BY <1>1 DEF QueuesMatch, InQueue
<1>3. InPool(i) /\ Wanted(i, inv[i])
  BY <1>1, <1>2 DEF FlagsExact, Exact
<1>4. Lanes(i) \ inv[i].busy # {}
  BY <1>1, <1>3, LaneIsFree DEF Wanted
<1>5. QED
  BY <1>1, <1>3, <1>4 DEF TypeOK

LEMMA SelectsQueues ==
    ASSUME RunnerInv, QueueInv, NEW w \in Workers, NEW n \in 1..7, NEW p \in Priorities,
           NEW k \in DOMAIN ready[p], NEW v \in InvocationType, Selects(w, n, p, k, v),
           Exact(ready[p][k], v), UNCHANGED caller
    PROVE  QueueInv'
<1> USE DEF RunnerInv, QueueInv
<1>1. PICK i \in Invocations : i = ready[p][k] /\ InPool(i)
  BY EntryIsWanted
<1>2. inv'[i] = v /\ \A j \in Invocations \ {i} : inv'[j] = inv[j]
  BY <1>1, SelectsEffect
<1>3. \A j \in Invocations : InPool(j)' <=> InPool(j)
  BY DEF InPool
<1>4. FlagsExact'
  BY <1>1, <1>2, <1>3, FlagStep
<1>5. QED
  BY <1>4, SelectsMatches

LEMMA DispatchSelects ==
    ASSUME RunnerInv, QueueInv, NEW w \in Workers, NEW n \in 1..7, NEW p \in Priorities,
           NEW k, Dispatch(w, n, p, k)
    PROVE  /\ k \in DOMAIN ready[p] /\ UNCHANGED caller
           /\ \E v \in InvocationType : Exact(ready[p][k], v) /\ Selects(w, n, p, k, v)
<1>1. k \in DOMAIN ready[p] /\ UNCHANGED caller
  BY DEF Dispatch
<1>2. PICK i : i = ready[p][k]
  OBVIOUS
<1>3. i \in Invocations /\ inv[i] \in InvocationType /\ Items[i] \in Nat
  BY <1>1, <1>2, EntryIsWanted, InvocationConstants
<1>4. PICK lane \in Lanes(i) \ inv[i].busy :
         Selects(w, n, p, k, QueueLocked(i, [inv[i] EXCEPT !.queued = FALSE,
                                                  !.busy = @ \cup {lane},
                                                  !.active = @ + 1,
                                                  !.next = ChunkEnd(i)]))
  BY <1>2 DEF Dispatch
<1>5. PICK u : u = [inv[i] EXCEPT !.queued = FALSE, !.busy = @ \cup {lane},
                                  !.active = @ + 1, !.next = ChunkEnd(i)]
  OBVIOUS
<1>6. u \in InvocationType /\ ~u.queued
  <2>1. lane \in Nat
    BY <1>3, InvocationConstants DEF Lanes
  <2>2. ChunkEnd(i) \in Nat
    BY <1>3, SharedRunnerAssumption DEF ChunkEnd, Lesser, InvocationType
  <2>3. /\ inv[i].busy \cup {lane} \in SUBSET Nat /\ inv[i].active + 1 \in Nat
    BY <1>3, <2>1 DEF InvocationType
  <2>4. QED
    BY <1>3, <1>5, <2>2, <2>3 DEF InvocationType
<1>7. QueueLocked(i, u) \in InvocationType /\ Exact(i, QueueLocked(i, u))
  BY <1>3, <1>6, QueueLockedEffect, QueueLockedExact
<1>8. Selects(w, n, p, k, QueueLocked(i, u))
  BY <1>4, <1>5
<1>9. QED
  BY <1>1, <1>2, <1>7, <1>8

\* An entry gives no work only because its caller has been cancelled.
LEMMA DiscardSelects ==
    ASSUME RunnerInv, QueueInv, NEW w \in Workers, NEW n \in 1..7, NEW p \in Priorities,
           NEW k, Discard(w, n, p, k)
    PROVE  /\ k \in DOMAIN ready[p] /\ UNCHANGED caller
           /\ \E v \in InvocationType : Exact(ready[p][k], v) /\ Selects(w, n, p, k, v)
<1>1. k \in DOMAIN ready[p] /\ UNCHANGED caller /\ ~Dispatchable(ready[p][k])
  BY DEF Discard
<1>2. PICK i : i = ready[p][k]
  OBVIOUS
<1>3. /\ i \in Invocations /\ inv[i] \in InvocationType /\ Items[i] \in Nat
      /\ Wanted(i, inv[i]) /\ Lanes(i) \ inv[i].busy # {}
  BY <1>1, <1>2, EntryIsWanted, InvocationConstants
<1>4. expired[i]
  BY <1>1, <1>2, <1>3 DEF Dispatchable, Wanted
<1>5. PICK u : u = [inv[i] EXCEPT !.queued = FALSE]
  OBVIOUS
<1>6. u \in InvocationType /\ ~Dead(u)
  BY <1>3, <1>5 DEF InvocationType, Wanted, Dead
<1>7. Selects(w, n, p, k, CancelLocked(i, u))
  BY <1>2, <1>4, <1>5, <1>6 DEF Discard
<1>8. CancelLocked(i, u) \in InvocationType /\ Exact(i, CancelLocked(i, u))
  BY <1>3, <1>6, CancelEffect, CancelExact
<1>9. QED
  BY <1>1, <1>2, <1>7, <1>8

LEMMA QueueStep ==
    ASSUME RunnerInv, QueueInv, [Next]_vars
    PROVE  QueueInv'
<1>1. ASSUME UNCHANGED <<inv, ready, caller>>
      PROVE  QueueInv'
  BY <1>1, NoQueueTouched DEF InPool
<1>2. ASSUME NEW i \in Invocations, Notify(i)
      PROVE  QueueInv'
  <2>1. \A j \in Invocations : InPool(j)' <=> InPool(j)
    BY <1>2 DEF Notify, InPool, RunnerInv, TypeOK
  <2>2. QED
    BY <1>2, <2>1, NoQueueTouched DEF Notify, poolVars
<1>3. ASSUME NEW w \in Workers,
             \/ CheckWork(w) \/ TakeNothing(w) \/ CallFunction(w)
             \/ EndChunk(w) \/ WakeSpuriously(w)
      PROVE  QueueInv'
  BY <1>1, <1>3 DEF CheckWork, TakeNothing, CallFunction, EndChunk, WakeSpuriously, poolVars
<1>4. ASSUME NEW i \in Invocations, Expire(i)
      PROVE  QueueInv'
  BY <1>1, <1>4 DEF Expire, poolVars
<1>5. CASE BeginStop \/ NotifyStop \/ Join \/ UNCHANGED vars
  BY <1>1, <1>5 DEF BeginStop, NotifyStop, Join, vars
<1>6. QED
  BY <1>2, <1>3, <1>4, <1>5, EnterQueues, SubmitQueues, PollQueues, CompleteChunkQueues,
     DispatchSelects, DiscardSelects, SelectsQueues DEF Next, CallerStep, WorkerStep, Take, StopStep

\* What a sleeping worker relies on survives every step.
LEMMA WakeupStep ==
    ASSUME RunnerInv, QueueInv, NoLostWakeup, [Next]_vars
    PROVE  NoLostWakeup'
<1> USE DEF RunnerInv
<1> DEFINE Awake == \E w \in Workers : pc[w] \in {"checking", "taking"}
           Asleep == \E w \in Workers : pc[w] = "waiting"
           Notifying == \E i \in Invocations : caller[i] = "notifying"
<1>1. NoLostWakeup <=> (HasReady /\ Asleep => Awake \/ Notifying)
  BY DEF NoLostWakeup
<1>2. NoLostWakeup' <=> (HasReady' /\ Asleep' => Awake' \/ Notifying')
  BY DEF NoLostWakeup
<1>3. pc \in [Workers -> PcState]
  BY DEF TypeOK, PcState
<1>4. ASSUME UNCHANGED <<ready, caller>>, Asleep' => Asleep, Awake => Awake'
      PROVE  NoLostWakeup'
  BY <1>1, <1>2, <1>4 DEF HasReady
<1>5. ASSUME NEW q \in [Workers -> PcState], pc' \in NotifyOne(q)
      PROVE  Asleep' => Awake'
  <2>1. CASE {w \in Workers : q[w] = "waiting"} = {}
    BY <1>5, <2>1 DEF NotifyOne
  <2>2. CASE {w \in Workers : q[w] = "waiting"} # {}
    <3>1. PICK w \in Workers : pc' = [q EXCEPT ![w] = "checking"]
      BY <1>5, <2>2 DEF NotifyOne
    <3>2. pc'[w] = "checking"
      BY <3>1
    <3>3. QED
      BY <3>2
  <2>3. QED
    BY <2>1, <2>2
<1>6. ASSUME NEW q, pc' = NotifyAll(q)
      PROVE  ~Asleep'
  BY <1>6 DEF NotifyAll
<1>7. ASSUME NEW i \in Invocations, Enter(i)
      PROVE  NoLostWakeup'
  <2>1. UNCHANGED <<ready, pc>> /\ (Notifying => Notifying')
    BY <1>7 DEF Enter, poolVars, TypeOK
  <2>2. QED
    BY <1>1, <1>2, <2>1 DEF HasReady
<1>8. ASSUME NEW i \in Invocations, Submit(i)
      PROVE  NoLostWakeup'
  <2>1. CASE Stopping
    <3>1. UNCHANGED <<ready, pc>> /\ (Notifying => Notifying')
      BY <1>8, <2>1 DEF Submit, TypeOK
    <3>2. QED
      BY <1>1, <1>2, <3>1 DEF HasReady
  <2>2. CASE ~Stopping
    <3>1. Notifying'
      BY <1>8, <2>2 DEF Submit, TypeOK
    <3>2. QED
      BY <1>2, <3>1
  <2>3. QED
    BY <2>1, <2>2
<1>9. ASSUME NEW i \in Invocations, Notify(i)
      PROVE  NoLostWakeup'
  BY <1>2, <1>3, <1>5, <1>9 DEF Notify
<1>10. ASSUME NEW i \in Invocations, Poll(i)
       PROVE  NoLostWakeup'
  <2>1. PICK v : v = IF expired[i] /\ ~inv[i].completed THEN CancelLocked(i, inv[i])
                ELSE inv[i]
    OBVIOUS
  <2>2. /\ Store(i, v) /\ UNCHANGED pc /\ caller[i] = "polling"
        /\ \A j \in Invocations \ {i} : caller'[j] = caller[j]
    BY <1>10, <2>1 DEF Poll, TypeOK
  <2>3. ~(v.queued /\ ~inv[i].queued)
    <3>1. inv[i] \in InvocationType /\ Items[i] \in Nat
      BY InvocationConstants DEF TypeOK
    <3>2. CancelLocked(i, inv[i]).cancelled /\ Exact(i, CancelLocked(i, inv[i]))
      BY <3>1, CancelEffect, CancelExact
    <3>3. ~CancelLocked(i, inv[i]).queued
      BY <3>2 DEF Exact, Wanted, Dead
    <3>4. QED
      BY <2>1, <3>3
  <2>4. HasReady' => HasReady
    <3>1. /\ Priority[i] \in Priorities
          /\ ready' = [ready EXCEPT ![Priority[i]] = IF ~v.queued THEN RemoveFirst(@, i) ELSE @]
      BY <2>2, <2>3, InvocationConstants DEF Store
    <3>2. ready[Priority[i]] \in Seq(Invocations) /\ Distinct(ready[Priority[i]])
      BY <3>1 DEF TypeOK, QueueInv, QueuesMatch
    <3>3. ASSUME ready[Priority[i]] = <<>>
          PROVE  RemoveFirst(ready[Priority[i]], i) = <<>>
      <4>1. \A x : ~InQueue(ready[Priority[i]], x)
        BY <3>2, <3>3, EmptyQueue
      <4>2. /\ RemoveFirst(ready[Priority[i]], i) \in Seq(Invocations)
            /\ \A x : ~InQueue(RemoveFirst(ready[Priority[i]], i), x)
        BY <3>2, <4>1, RemoveFirstQueue
      <4>3. QED
        BY <4>2, EmptyQueue
    <3>4. \A p \in Priorities : ready[p] = <<>> => ready'[p] = <<>>
      BY <3>1, <3>3 DEF TypeOK
    <3>5. QED
      BY <3>4 DEF HasReady
  <2>5. Notifying => Notifying'
    BY <2>2
  <2>6. QED
    BY <1>1, <1>2, <2>2, <2>4, <2>5
<1>11. ASSUME NEW w \in Workers, CheckWork(w)
       PROVE  NoLostWakeup'
  <2>1. CASE HasReady
    <3>1. pc'[w] = "taking"
      BY <1>11, <2>1, <1>3 DEF CheckWork
    <3>2. QED
      BY <1>2, <3>1
  <2>2. CASE ~HasReady
    <3>1. ~HasReady'
      BY <1>11, <2>2 DEF CheckWork, HasReady
    <3>2. QED
      BY <1>2, <3>1
  <2>3. QED
    BY <2>1, <2>2
<1>12. ASSUME NEW w \in Workers, TakeNothing(w) \/ WakeSpuriously(w)
       PROVE  NoLostWakeup'
  <2>1. pc'[w] = "checking"
    BY <1>3, <1>12 DEF TakeNothing, WakeSpuriously
  <2>2. QED
    BY <1>2, <2>1
<1>13. ASSUME NEW w \in Workers, CallFunction(w) \/ EndChunk(w)
       PROVE  NoLostWakeup'
  <2>1. /\ pc[w] = "calling" /\ UNCHANGED <<ready, caller>>
        /\ pc'[w] # "waiting" /\ \A u \in Workers \ {w} : pc'[u] = pc[u]
    BY <1>3, <1>13 DEF CallFunction, EndChunk, poolVars
  <2>2. (Asleep' => Asleep) /\ (Awake => Awake')
    BY <2>1
  <2>3. QED
    BY <1>4, <2>1, <2>2
<1>14. ASSUME NEW w \in Workers, CompleteChunk(w)
       PROVE  NoLostWakeup'
  BY <1>2, <1>6, <1>14 DEF CompleteChunk
<1>15. ASSUME NEW w \in Workers, NEW n, NEW p, NEW k, Dispatch(w, n, p, k)
       PROVE  NoLostWakeup'
  <2>1. [pc EXCEPT ![w] = "calling"] \in [Workers -> PcState]
    BY <1>3 DEF PcState, InFlight
  <2>2. pc' \in NotifyOne([pc EXCEPT ![w] = "calling"])
    BY <1>15 DEF Dispatch
  <2>3. QED
    BY <1>2, <1>5, <2>1, <2>2
<1>16. ASSUME NEW w \in Workers, NEW n, NEW p, NEW k, Discard(w, n, p, k)
       PROVE  NoLostWakeup'
  <2>1. pc'[w] = "taking"
    BY <1>16 DEF Discard, Selects
  <2>2. QED
    BY <1>2, <2>1
<1>17. ASSUME NEW i \in Invocations, Expire(i)
       PROVE  NoLostWakeup'
  BY <1>4, <1>17 DEF Expire, poolVars
<1>18. CASE BeginStop \/ Join \/ UNCHANGED vars
  BY <1>4, <1>18 DEF BeginStop, Join, vars
<1>19. CASE NotifyStop
  BY <1>2, <1>6, <1>19 DEF NotifyStop
<1>20. QED
  BY <1>7, <1>8, <1>9, <1>10, <1>11, <1>12, <1>13, <1>14, <1>15, <1>16, <1>17, <1>18,
     <1>19 DEF Next, CallerStep, WorkerStep, Take, StopStep

-----------------------------------------------------------------------------
(* The theorems.                                                            *)

LEMMA QueuesInvariant == Spec => [](RunnerInv /\ QueueInv /\ NoLostWakeup)
<1>1. Init => QueueInv /\ NoLostWakeup
  <2>1. SUFFICES ASSUME Init
                 PROVE  QueueInv /\ NoLostWakeup
    OBVIOUS
  <2>2. /\ \A p \in Priorities : ready[p] = <<>>
        /\ \A i \in Invocations : ~inv[i].queued /\ ~InPool(i)
        /\ \A w \in Workers : pc[w] = "checking"
    BY <2>1 DEF Init, Fresh, InPool
  <2>3. Distinct(<<>>) /\ \A x : ~InQueue(<<>>, x)
    BY DEF Distinct, InQueue
  <2>4. QueuesMatch /\ FlagsExact
    BY <2>2, <2>3, InvocationConstants DEF QueuesMatch, FlagsExact
  <2>5. QED
    BY <2>2, <2>4 DEF QueueInv, NoLostWakeup
<1>2. RunnerInv /\ QueueInv /\ NoLostWakeup /\ [Next]_vars => QueueInv' /\ NoLostWakeup'
  BY QueueStep, WakeupStep
<1>3. QED
  BY <1>1, <1>2, RunnerInvariant, PTL DEF Spec

\* QueueLocked, RemoveReadyLocked and TakeWorkLocked keep queued and the ready
\* queues in step, and nothing without work or without a free lane is queued.
THEOREM QueuesAlwaysHoldWork == Spec => []QueuesHoldWork
<1>1. RunnerInv /\ QueueInv => QueuesHoldWork
  <2>1. SUFFICES ASSUME RunnerInv, QueueInv
                 PROVE  QueuesHoldWork
    OBVIOUS
  <2>2. ASSUME NEW p \in Priorities
        PROVE  /\ \A j, k \in DOMAIN ready[p] : ready[p][j] = ready[p][k] => j = k
               /\ \A k \in DOMAIN ready[p] : Priority[ready[p][k]] = p
    BY <2>1 DEF QueueInv, QueuesMatch, Distinct, InQueue
  <2>3. ASSUME NEW i \in Invocations
        PROVE  LET listed == \E k \in DOMAIN ready[Priority[i]] :
                            ready[Priority[i]][k] = i
               IN  /\ inv[i].queued <=> listed
                   /\ listed => /\ ~Dead(inv[i])
                                /\ inv[i].next < Items[i]
                                /\ inv[i].active < LaneCount(i)
    <3>1. inv[i].queued <=> InQueue(ready[Priority[i]], i)
      BY <2>1 DEF QueueInv, QueuesMatch
    <3>2. inv[i].queued => Wanted(i, inv[i])
      BY <2>1 DEF QueueInv, FlagsExact, Exact
    <3>3. QED
      BY <3>1, <3>2 DEF InQueue, Wanted
  <2>4. QED
    BY <2>2, <2>3 DEF QueuesHoldWork
<1>2. QED
  BY <1>1, QueuesInvariant, PTL

\* Every place that frees a lane or brings values calls QueueLocked: work that
\* could be done is queued.
THEOREM WorkNeverForgotten == Spec => []NoWorkForgotten
<1>1. QueueInv => NoWorkForgotten
  BY DEF QueueInv, FlagsExact, Exact, Wanted, NoWorkForgotten
<1>2. QED
  BY <1>1, QueuesInvariant, PTL

\* The notify_one of Run and of TakeWorkLocked and the notify_all of
\* CompleteChunk are enough for the workers that wait on ready_condition_.
THEOREM WakeupsNeverLost == Spec => []NoLostWakeup
  BY QueuesInvariant, PTL

-----------------------------------------------------------------------------
(* SharedRunner implements ParallelFor.                                     *)

\* A run is cancelled only when its caller's callback said so.
CancelledByCaller ==
    /\ \A i \in Invocations : inv[i].cancelled => expired[i]
    /\ \A w \in Workers : pc[w] = "sawCancel" => expired[chunk[w].inv]

\* The step changes nothing that a caller of Run can tell.
Same(i) ==
    /\ Status(i)' = Status(i)
    /\ inv'[i].busy = inv[i].busy
    /\ Threw(i)' = Threw(i)

LEMMA AllSame ==
    ASSUME \A i \in Invocations : Same(i), UNCHANGED <<called, expired>>,
           Stopping' <=> Stopping
    PROVE  UNCHANGED Promise!vars
<1>1. [i \in Invocations |-> Status(i)]' = [i \in Invocations |-> Status(i)]
  BY DEF Same
<1>2. [i \in Invocations |-> inv[i].busy]' = [i \in Invocations |-> inv[i].busy]
  BY DEF Same
<1>3. [i \in Invocations |-> Threw(i)]' = [i \in Invocations |-> Threw(i)]
  BY DEF Same
<1>4. Stopping' = Stopping
  BY DEF Stopping, Running
<1>5. QED
  BY <1>1, <1>2, <1>3, <1>4 DEF Promise!vars

\* A caller's step that changes the status of one run.
LEMMA StatusChange ==
    ASSUME NEW i \in Invocations, NEW x, Status(i)' = x,
           \A j \in Invocations \ {i} : Status(j)' = Status(j),
           \A j \in Invocations : inv'[j].busy = inv[j].busy /\ Threw(j)' = Threw(j),
           UNCHANGED <<called, expired, stop>>
    PROVE  /\ [j \in Invocations |-> Status(j)]'
                 = [[j \in Invocations |-> Status(j)] EXCEPT ![i] = x]
           /\ [j \in Invocations |-> inv[j].busy]' = [j \in Invocations |-> inv[j].busy]
           /\ [j \in Invocations |-> Threw(j)]' = [j \in Invocations |-> Threw(j)]
           /\ UNCHANGED <<called, expired, Stopping>>
  BY DEF Stopping, Running

LEMMA ThrewKept ==
    ASSUME NEW i \in Invocations, inv'[i].failed = inv[i].failed,
           \A w \in Workers : pc'[w] = "threw" <=> pc[w] = "threw", UNCHANGED chunk
    PROVE  Threw(i)' = Threw(i)
  BY DEF Threw, WorksOn, InFlight

LEMMA EnterIsBegin ==
    ASSUME RunnerInv, NEW i \in Invocations, Enter(i)
    PROVE  Promise!Begin(i)
<1> USE DEF RunnerInv
<1>1. PICK x : /\ x \in {"error", "success", "submitting"}
               /\ x = "success" => Items[i] = 0 /\ ~expired[i]
               /\ x = "submitting" => Items[i] # 0 /\ ~expired[i]
               /\ caller' = [caller EXCEPT ![i] = x]
  BY DEF Enter
<1>2. /\ UNCHANGED <<inv, stop, pc, chunk, expired, called>> /\ caller[i] = "idle"
      /\ Items[i] \in Nat
  BY InvocationConstants DEF Enter, poolVars
<1>3. /\ Status(i)' = IF x = "submitting" THEN "active" ELSE x
      /\ \A j \in Invocations \ {i} : Status(j)' = Status(j)
  BY <1>1 DEF Status, TypeOK
<1>4. \A j \in Invocations : inv'[j].busy = inv[j].busy /\ Threw(j)' = Threw(j)
  BY <1>2, ThrewKept
<1>5. Status(i) = "idle"
  BY <1>2 DEF Status
<1>6. PICK y : y = Status(i)'
  OBVIOUS
<1>7. /\ [j \in Invocations |-> Status(j)]'
                 = [[j \in Invocations |-> Status(j)] EXCEPT ![i] = y]
      /\ [j \in Invocations |-> inv[j].busy]' = [j \in Invocations |-> inv[j].busy]
      /\ [j \in Invocations |-> Threw(j)]' = [j \in Invocations |-> Threw(j)]
      /\ UNCHANGED <<called, expired, Stopping>>
  BY <1>2, <1>3, <1>4, <1>6, StatusChange
<1>8. \/ Items[i] > 0 /\ ~expired[i] /\ y = "active"
      \/ Items[i] = 0 /\ ~expired[i] /\ y = "success"
      \/ y = "error"
  BY <1>1, <1>2, <1>3, <1>6
<1>9. QED
  BY <1>5, <1>7, <1>8 DEF Promise!Begin

\* Run returns.
LEMMA ReturnInPromise ==
    ASSUME RunnerInv, NEW i \in Invocations,
           caller[i] \in {"submitting", "notifying", "polling"},
           \A j \in Invocations \ {i} : caller'[j] = caller[j],
           \A j \in Invocations : inv'[j].busy = inv[j].busy /\ inv'[j].failed = inv[j].failed,
           UNCHANGED <<pc, chunk, called, expired, stop>>,
           inv[i].active = 0,
           \/ /\ caller'[i] = "success"
              /\ called[i] = 0 .. Items[i] - 1 /\ ~inv[i].failed
           \/ caller'[i] = "error" /\ (expired[i] \/ inv[i].failed \/ Stopping)
    PROVE  Promise!Return(i)
<1> USE DEF RunnerInv
<1>0. PICK x : x = caller'[i]
  OBVIOUS
<1>1. Holders(i) = {} /\ inv[i].busy = {}
  BY InactiveIsFree DEF LanesMatchWorkers
<1>2. Threw(i) <=> inv[i].failed
  BY <1>1 DEF Threw, Holders
<1>3. /\ Status(i) = "active" /\ Status(i)' = x
      /\ \A j \in Invocations \ {i} : Status(j)' = Status(j)
  BY <1>0 DEF Status
<1>4. \A j \in Invocations : Threw(j)' = Threw(j)
  BY ThrewKept
<1>5. /\ [j \in Invocations |-> Status(j)]'
                 = [[j \in Invocations |-> Status(j)] EXCEPT ![i] = x]
      /\ [j \in Invocations |-> inv[j].busy]' = [j \in Invocations |-> inv[j].busy]
      /\ [j \in Invocations |-> Threw(j)]' = [j \in Invocations |-> Threw(j)]
      /\ UNCHANGED <<called, expired, Stopping>>
  BY <1>3, <1>4, StatusChange
<1>6. QED
  BY <1>1, <1>2, <1>3, <1>5, <1>0 DEF Promise!Return, Promise!Values

LEMMA SubmitRefines ==
    ASSUME RunnerInv, NEW i \in Invocations, Submit(i)
    PROVE  Promise!Return(i) \/ UNCHANGED Promise!vars
<1> USE DEF RunnerInv
<1>1. /\ caller[i] = "submitting" /\ inv[i] = Fresh
      /\ UNCHANGED <<pc, chunk, called, expired, stop>>
  BY DEF Submit, QueuedRunsWait
<1>2. CASE Stopping
  <2>1. inv' = inv /\ caller' = [caller EXCEPT ![i] = "error"] /\ inv[i].active = 0
    BY <1>1, <1>2 DEF Submit, Fresh
  <2>2. caller'[i] = "error" /\ \A j \in Invocations \ {i} : caller'[j] = caller[j]
    BY <2>1 DEF TypeOK
  <2>3. \A j \in Invocations : inv'[j].busy = inv[j].busy /\ inv'[j].failed = inv[j].failed
    BY <2>1
  <2>4. caller[i] \in {"submitting", "notifying", "polling"}
    BY <1>1
  <2> HIDE DEF RunnerInv
  <2>5. QED
    BY <1>1, <1>2, <2>1, <2>2, <2>3, <2>4, ReturnInPromise
<1>3. CASE ~Stopping
  <2>1. PICK v \in InvocationType : v = QueueLocked(i, Fresh)
    BY FreshIsInvocation, QueueLockedEffect
  <2>2. Store(i, v) /\ caller' = [caller EXCEPT ![i] = "notifying"]
    BY <1>3, <2>1 DEF Submit
  <2>3. v.busy = inv[i].busy /\ v.failed = inv[i].failed
    BY <1>1, <2>1, FreshIsInvocation, QueueLockedEffect
  <2>4. \A j \in Invocations : inv'[j].busy = inv[j].busy /\ inv'[j].failed = inv[j].failed
    BY <2>2, <2>3 DEF Store, TypeOK
  <2>5. \A j \in Invocations : Status(j)' = Status(j)
    BY <1>1, <2>2 DEF Status, TypeOK
  <2>6. \A j \in Invocations : Same(j)
    BY <1>1, <2>4, <2>5, ThrewKept DEF Same
  <2>7. QED
    BY <1>1, <2>6, AllSame DEF Stopping, Running
<1>4. QED
  BY <1>2, <1>3

LEMMA PollRefines ==
    ASSUME RunnerInv, RunnerInv', CancelledByCaller, NEW i \in Invocations, Poll(i)
    PROVE  Promise!Return(i) \/ UNCHANGED Promise!vars
<1> USE DEF RunnerInv
<1>1. /\ inv[i] \in InvocationType /\ Items[i] \in Nat /\ caller[i] = "polling"
      /\ UNCHANGED <<pc, chunk, called, expired, stop>>
  BY InvocationConstants DEF TypeOK, Poll
<1>2. PICK v : v = IF expired[i] /\ ~inv[i].completed THEN CancelLocked(i, inv[i]) ELSE inv[i]
  OBVIOUS
<1>3. /\ Store(i, v)
      /\ caller' = [caller EXCEPT ![i] =
                            IF ~v.completed THEN "polling"
                            ELSE IF v.cancelled \/ v.failed THEN "error"
                            ELSE "success"]
  BY <1>2 DEF Poll
<1>4. v.busy = inv[i].busy /\ v.failed = inv[i].failed /\ v.active = inv[i].active
  BY <1>1, <1>2, CancelEffect
<1>5. v.cancelled => expired[i]
  BY <1>2 DEF CancelledByCaller
<1>6. /\ inv'[i] = v
      /\ \A j \in Invocations : inv'[j].busy = inv[j].busy /\ inv'[j].failed = inv[j].failed
  BY <1>3, <1>4 DEF Store, TypeOK
<1>7. CASE ~v.completed
  <2>1. UNCHANGED caller
    BY <1>1, <1>3, <1>7 DEF TypeOK
  <2>2. \A j \in Invocations : Same(j)
    BY <1>1, <1>6, <2>1, ThrewKept DEF Same, Status
  <2>3. QED
    BY <1>1, <2>2, AllSame DEF Stopping, Running
<1>8. CASE v.completed
  <2>1. PICK x : x = IF v.cancelled \/ v.failed THEN "error" ELSE "success"
    OBVIOUS
  <2>2. caller'[i] = x /\ \A j \in Invocations \ {i} : caller'[j] = caller[j]
    BY <1>3, <1>8, <2>1 DEF TypeOK
  <2>3. inv[i].active = 0
    BY <1>4, <1>6, <1>8 DEF CompletionIsFinal
  <2>4. \/ x = "success" /\ called[i] = 0 .. Items[i] - 1 /\ ~inv[i].failed
        \/ x = "error" /\ (expired[i] \/ inv[i].failed \/ Stopping)
    <3>1. CASE v.cancelled \/ v.failed
      BY <1>4, <1>5, <2>1, <3>1
    <3>2. CASE ~(v.cancelled \/ v.failed)
      <4>1. x = "success" /\ caller'[i] = "success"
        BY <2>1, <2>2, <3>2
      <4>2. called'[i] = 0 .. Items[i] - 1
        BY <4>1 DEF EveryValueOnce
      <4>3. QED
        BY <1>1, <1>4, <3>2, <4>1, <4>2
    <3>3. QED
      BY <3>1, <3>2
  <2>5. caller[i] \in {"submitting", "notifying", "polling"}
    BY <1>1
  <2> HIDE DEF RunnerInv
  <2>6. QED
    BY <1>1, <1>6, <2>2, <2>3, <2>4, <2>5, ReturnInPromise
<1>9. QED
  BY <1>7, <1>8

LEMMA DispatchIsLend ==
    ASSUME RunnerInv, QueueInv, NEW w \in Workers, NEW n \in 1..7, NEW p \in Priorities,
           NEW k, Dispatch(w, n, p, k)
    PROVE  \E i \in Invocations : Promise!Lend(i)
<1> USE DEF RunnerInv
<1>1. PICK i : i = ready[p][k]
  OBVIOUS
<1>2. /\ k \in DOMAIN ready[p] /\ Dispatchable(i) /\ pc[w] = "taking"
      /\ UNCHANGED <<stop, caller, expired, called>>
      /\ pc' \in NotifyOne([pc EXCEPT ![w] = "calling"])
      /\ \E c : chunk' = [chunk EXCEPT ![w] = c]
  BY <1>1 DEF Dispatch, Selects
<1>3. i \in Invocations /\ InPool(i) /\ inv[i] \in InvocationType /\ Items[i] \in Nat
  BY <1>1, <1>2, EntryIsWanted, InvocationConstants
<1>4. PICK lane \in Lanes(i) \ inv[i].busy :
         Selects(w, n, p, k, QueueLocked(i, [inv[i] EXCEPT !.queued = FALSE,
                                                  !.busy = @ \cup {lane},
                                                  !.active = @ + 1,
                                                  !.next = ChunkEnd(i)]))
  BY <1>1 DEF Dispatch
<1>5. PICK u : u = [inv[i] EXCEPT !.queued = FALSE, !.busy = @ \cup {lane},
                                  !.active = @ + 1, !.next = ChunkEnd(i)]
  OBVIOUS
<1>6. u \in InvocationType /\ u.busy = inv[i].busy \cup {lane} /\ u.failed = inv[i].failed
  <2>1. lane \in Nat
    BY <1>3, InvocationConstants DEF Lanes
  <2>2. ChunkEnd(i) \in Nat
    BY <1>3, SharedRunnerAssumption DEF ChunkEnd, Lesser, InvocationType
  <2>3. /\ inv[i].busy \cup {lane} \in SUBSET Nat /\ inv[i].active + 1 \in Nat
    BY <1>3, <2>1 DEF InvocationType
  <2>4. QED
    BY <1>3, <1>5, <2>2, <2>3 DEF InvocationType
<1>7. PICK v : v = QueueLocked(i, u)
  OBVIOUS
<1>8. v \in InvocationType /\ v.busy = inv[i].busy \cup {lane} /\ v.failed = inv[i].failed
  BY <1>3, <1>6, <1>7, QueueLockedEffect
<1>9. Selects(w, n, p, k, v)
  BY <1>4, <1>5, <1>7
<1>10. inv'[i] = v /\ \A j \in Invocations \ {i} : inv'[j] = inv[j]
  BY <1>1, <1>2, <1>8, <1>9, SelectsEffect
<1>11. \A u2 \in Workers : pc'[u2] = "threw" <=> pc[u2] = "threw"
  <2>1. [pc EXCEPT ![w] = "calling"] \in [Workers -> PcState]
    BY DEF TypeOK, PcState, InFlight
  <2>2. \A u2 \in Workers : pc'[u2] = "threw" <=> [pc EXCEPT ![w] = "calling"][u2] = "threw"
    BY <1>2, <2>1, NotifyOneEffect
  <2>3. QED
    BY <1>2, <2>2 DEF TypeOK
<1>12. \A u2 \in Workers : pc[u2] = "threw" => chunk'[u2] = chunk[u2]
  BY <1>2 DEF TypeOK
<1>13. \A j \in Invocations : Threw(j)' = Threw(j)
  BY <1>8, <1>10, <1>11, <1>12 DEF Threw, WorksOn, InFlight
<1>14. \A j \in Invocations : Status(j)' = Status(j)
  BY <1>2 DEF Status
<1>15. Status(i) = "active" /\ ~expired[i]
  BY <1>2, <1>3 DEF Status, InPool, Dispatchable
<1>16. [j \in Invocations |-> inv[j].busy]'
          = [[j \in Invocations |-> inv[j].busy] EXCEPT ![i] = @ \cup {lane}]
  BY <1>3, <1>8, <1>10
<1>17. lane \in (0 .. LaneCount(i) - 1) \ inv[i].busy
  BY DEF Lanes
<1>18. Promise!Lend(i)
  <2>1. /\ [j \in Invocations |-> Status(j)]' = [j \in Invocations |-> Status(j)]
        /\ [j \in Invocations |-> Threw(j)]' = [j \in Invocations |-> Threw(j)]
        /\ UNCHANGED <<called, expired, Stopping>>
    BY <1>2, <1>13, <1>14 DEF Stopping, Running
  <2>2. QED
    BY <1>3, <1>15, <1>16, <1>17, <2>1 DEF Promise!Lend
<1>19. QED
  BY <1>3, <1>18

LEMMA DiscardStutters ==
    ASSUME RunnerInv, QueueInv, NEW w \in Workers, NEW n \in 1..7, NEW p \in Priorities,
           NEW k, Discard(w, n, p, k)
    PROVE  UNCHANGED Promise!vars
<1> USE DEF RunnerInv
<1>1. /\ k \in DOMAIN ready[p] /\ ~Dispatchable(ready[p][k])
      /\ UNCHANGED <<stop, pc, chunk, caller, expired, called>>
  BY DEF Discard
<1>2. PICK i : i = ready[p][k]
  OBVIOUS
<1>3. /\ i \in Invocations /\ inv[i] \in InvocationType /\ Items[i] \in Nat
  BY <1>1, <1>2, EntryIsWanted, InvocationConstants
<1>4. PICK u : u = [inv[i] EXCEPT !.queued = FALSE]
  OBVIOUS
<1>5. u \in InvocationType /\ u.busy = inv[i].busy /\ u.failed = inv[i].failed
  BY <1>3, <1>4 DEF InvocationType
<1>6. PICK v : /\ Selects(w, n, p, k, v)
               /\ v \in {u, FinishIfReadyLocked(i, u), CancelLocked(i, u)}
  BY <1>2, <1>4 DEF Discard
<1>7. v \in InvocationType /\ v.busy = inv[i].busy /\ v.failed = inv[i].failed
  BY <1>3, <1>5, <1>6, FinishEffect, CancelEffect
<1>8. inv'[i] = v /\ \A j \in Invocations \ {i} : inv'[j] = inv[j]
  BY <1>1, <1>2, <1>6, <1>7, SelectsEffect
<1>9. \A j \in Invocations : Same(j)
  BY <1>1, <1>7, <1>8, ThrewKept DEF Same, Status
<1>10. QED
  BY <1>1, <1>9, AllSame DEF Stopping, Running

LEMMA FunctionIsCall ==
    ASSUME RunnerInv, NEW w \in Workers, CallFunction(w)
    PROVE  \E i \in Invocations : Promise!Call(i)
<1> USE DEF RunnerInv
<1>1. PICK i : i = chunk[w].inv
  OBVIOUS
<1>2. PICK value : value = chunk[w].value
  OBVIOUS
<1>3. /\ pc[w] = "calling" /\ value < chunk[w].end /\ ~expired[i]
      /\ called' = [called EXCEPT ![i] = @ \cup {value}]
      /\ UNCHANGED <<inv, stop, caller, expired>>
  BY <1>1, <1>2 DEF CallFunction, poolVars
<1>4. i \in Invocations /\ chunk[w].end <= inv[i].next /\ inv[i].next <= Items[i]
  BY <1>1, <1>3 DEF ChunksBelowNext, InFlight
<1>5. value \in Nat /\ chunk[w].end \in Nat /\ inv[i].next \in Nat /\ Items[i] \in Nat
  BY <1>2, <1>4, InvocationConstants DEF TypeOK, InvocationType
<1>6. value \in Promise!Values(i) \ called[i]
  <2>1. value \in 0 .. Items[i] - 1
    BY <1>3, <1>4, <1>5
  <2>2. Owes(w, i, value)
    BY <1>1, <1>2, <1>3, <1>5 DEF Owes
  <2>3. value \notin called[i]
    BY <1>4, <2>2 DEF EveryValueOnce
  <2>4. QED
    BY <2>1, <2>3 DEF Promise!Values
<1>7. inv[i].busy # {}
  <2>1. w \in Holders(i)
    BY <1>1, <1>3 DEF Holders, WorksOn, InFlight
  <2>2. QED
    BY <1>4, <2>1 DEF LanesMatchWorkers
<1>8. PICK fails \in BOOLEAN : pc' = IF fails THEN [pc EXCEPT ![w] = "threw"] ELSE pc
  BY DEF CallFunction
<1>9. \A u \in Workers : chunk'[u].inv = chunk[u].inv
  <2>1. chunk' = [chunk EXCEPT ![w].value = @ + 1] \/ chunk' = chunk
    BY DEF CallFunction
  <2>2. QED
    BY <2>1 DEF TypeOK
<1>10. \A u \in Workers : pc'[u] = "threw" <=> pc[u] = "threw" \/ (u = w /\ fails)
  BY <1>3, <1>8 DEF TypeOK
<1>11. ASSUME NEW j \in Invocations
       PROVE  Threw(j)' = (Threw(j) \/ (j = i /\ fails))
  BY <1>1, <1>3, <1>9, <1>10 DEF Threw, WorksOn, InFlight
<1>12. [j \in Invocations |-> Threw(j)]'
          = [[j \in Invocations |-> Threw(j)] EXCEPT ![i] = @ \/ fails]
  <2>1. \A j \in Invocations : Threw(j)' = IF j = i THEN Threw(i) \/ fails ELSE Threw(j)
    <3>1. \A j \in Invocations : Threw(j) \in BOOLEAN
      BY DEF Threw
    <3>2. QED
      BY <1>11, <3>1
  <2>2. QED
    BY <1>4, <2>1
<1>13. /\ [j \in Invocations |-> Status(j)]' = [j \in Invocations |-> Status(j)]
       /\ [j \in Invocations |-> inv[j].busy]' = [j \in Invocations |-> inv[j].busy]
       /\ UNCHANGED <<expired, Stopping>>
  BY <1>3 DEF Status, Stopping, Running
<1>14. Promise!Call(i)
  BY <1>3, <1>4, <1>6, <1>7, <1>12, <1>13 DEF Promise!Call
<1>15. QED
  BY <1>4, <1>14

LEMMA CompleteIsGiveBack ==
    ASSUME RunnerInv, NEW w \in Workers, CompleteChunk(w)
    PROVE  \E i \in Invocations : Promise!GiveBack(i)
<1> USE DEF RunnerInv
<1>1. pc[w] \in InFlight /\ pc[w] \in {"ran", "sawCancel", "threw"}
  BY DEF CompleteChunk, InFlight
<1>2. PICK i \in Invocations : i = chunk[w].inv
  BY <1>1 DEF ChunksBelowNext
<1>3. PICK v : v = AfterChunk(w)
  OBVIOUS
<1>4. /\ v \in InvocationType /\ v.busy = inv[i].busy \ {chunk[w].lane}
      /\ v.failed = (inv[i].failed \/ pc[w] = "threw")
  BY <1>1, <1>2, <1>3, AfterChunkEffect
<1>5. Store(i, v) /\ UNCHANGED <<caller, called, expired, stop>>
  BY <1>2, <1>3 DEF CompleteChunk
<1>6. inv'[i] = v /\ \A j \in Invocations \ {i} : inv'[j] = inv[j]
  BY <1>5 DEF Store, TypeOK
<1>7. chunk[w].lane \in inv[i].busy
  <2>1. w \in Holders(i)
    BY <1>1, <1>2 DEF Holders, WorksOn
  <2>2. QED
    BY <2>1 DEF LanesMatchWorkers
<1>8. \A u \in Workers : pc'[u] = "threw" <=> pc[u] = "threw" /\ u # w
  BY DEF CompleteChunk, NotifyAll, TypeOK
<1>9. \A u \in Workers \ {w} : chunk'[u] = chunk[u]
  BY DEF CompleteChunk, TypeOK
<1>10. ASSUME NEW j \in Invocations
       PROVE  Threw(j)' = Threw(j)
  <2>1. Threw(j)' <=> Threw(j)
    BY <1>2, <1>4, <1>6, <1>8, <1>9 DEF Threw, WorksOn, InFlight
  <2>2. Threw(j) \in BOOLEAN /\ Threw(j)' \in BOOLEAN
    BY DEF Threw
  <2>3. QED
    BY <2>1, <2>2
<1>11. [j \in Invocations |-> inv[j].busy]'
          = [[j \in Invocations |-> inv[j].busy] EXCEPT ![i] = @ \ {chunk[w].lane}]
  BY <1>4, <1>6
<1>12. /\ [j \in Invocations |-> Status(j)]' = [j \in Invocations |-> Status(j)]
       /\ [j \in Invocations |-> Threw(j)]' = [j \in Invocations |-> Threw(j)]
       /\ UNCHANGED <<called, expired, Stopping>>
  BY <1>5, <1>10 DEF Status, Stopping, Running
<1>13. Promise!GiveBack(i)
  BY <1>7, <1>11, <1>12 DEF Promise!GiveBack
<1>14. QED
  BY <1>13

\* A step outside the critical sections that only moves the pool's threads.
LEMMA ThreadsStutter ==
    ASSUME UNCHANGED <<inv, chunk, caller, called, expired, stop>>,
           \A w \in Workers : pc'[w] = "threw" <=> pc[w] = "threw"
    PROVE  UNCHANGED Promise!vars
<1>1. \A i \in Invocations : Same(i)
  BY ThrewKept DEF Same, Status
<1>2. QED
  BY <1>1, AllSame DEF Stopping, Running

LEMMA RunnerStepRefines ==
    ASSUME RunnerInv, RunnerInv', QueueInv, CancelledByCaller, [Next]_vars
    PROVE  [Promise!Next]_(Promise!vars)
<1>1. TypeOK /\ pc \in [Workers -> PcState]
  BY DEF RunnerInv, TypeOK, PcState
<1>2. ASSUME NEW i \in Invocations, Notify(i)
      PROVE  UNCHANGED Promise!vars
  <2>1. UNCHANGED <<inv, chunk, called, expired, stop>>
    BY <1>2 DEF Notify, poolVars
  <2>2. \A w \in Workers : pc'[w] = "threw" <=> pc[w] = "threw"
    BY <1>1, <1>2, NotifyOneEffect DEF Notify
  <2>3. \A j \in Invocations : Status(j)' = Status(j)
    BY <1>1, <1>2 DEF Notify, Status, TypeOK
  <2>4. \A j \in Invocations : Same(j)
    BY <2>1, <2>2, <2>3, ThrewKept DEF Same
  <2>5. QED
    BY <2>1, <2>4, AllSame DEF Stopping, Running
<1>3. ASSUME NEW w \in Workers,
             CheckWork(w) \/ TakeNothing(w) \/ EndChunk(w) \/ WakeSpuriously(w)
      PROVE  UNCHANGED Promise!vars
  <2>1. UNCHANGED <<inv, chunk, caller, called, expired, stop>>
    BY <1>3 DEF CheckWork, TakeNothing, EndChunk, WakeSpuriously, poolVars
  <2>2. \A u \in Workers : pc'[u] = "threw" <=> pc[u] = "threw"
    BY <1>1, <1>3 DEF CheckWork, TakeNothing, EndChunk, WakeSpuriously
  <2>3. QED
    BY <2>1, <2>2, ThreadsStutter
<1>4. ASSUME NEW i \in Invocations, Expire(i)
      PROVE  Promise!Expire(i)
  <2>1. /\ expired' = [expired EXCEPT ![i] = TRUE]
        /\ UNCHANGED <<inv, chunk, caller, called, pc, stop>>
    BY <1>4 DEF Expire, poolVars
  <2>2. \A j \in Invocations : Threw(j)' = Threw(j)
    BY <2>1, ThrewKept
  <2>3. /\ [j \in Invocations |-> Status(j)]' = [j \in Invocations |-> Status(j)]
        /\ [j \in Invocations |-> inv[j].busy]' = [j \in Invocations |-> inv[j].busy]
        /\ [j \in Invocations |-> Threw(j)]' = [j \in Invocations |-> Threw(j)]
        /\ UNCHANGED <<called, Stopping>>
    BY <2>1, <2>2 DEF Status, Stopping, Running
  <2>4. QED
    BY <2>1, <2>3 DEF Promise!Expire
<1>5. ASSUME BeginStop
      PROVE  Promise!Close
  <2>1. UNCHANGED <<inv, chunk, caller, called, expired, pc>> /\ Stopping' = TRUE
    BY <1>5 DEF BeginStop, Stopping, Running
  <2>2. \A j \in Invocations : Threw(j)' = Threw(j)
    BY <2>1, ThrewKept
  <2>3. /\ [j \in Invocations |-> Status(j)]' = [j \in Invocations |-> Status(j)]
        /\ [j \in Invocations |-> inv[j].busy]' = [j \in Invocations |-> inv[j].busy]
        /\ [j \in Invocations |-> Threw(j)]' = [j \in Invocations |-> Threw(j)]
    BY <2>1, <2>2 DEF Status
  <2>4. QED
    BY <2>1, <2>3 DEF Promise!Close
<1>6. ASSUME StopStep
      PROVE  UNCHANGED Promise!vars
  <2>1. UNCHANGED <<inv, chunk, caller, called, expired>>
    BY <1>6 DEF StopStep, NotifyStop, Join
  <2>2. \A w \in Workers : pc'[w] = "threw" <=> pc[w] = "threw"
    BY <1>1, <1>6, NotifyAllEffect DEF StopStep, NotifyStop, Join
  <2>3. Stopping' <=> Stopping
    BY <1>6 DEF StopStep, NotifyStop, Join, Stopping, Running
  <2>4. \A i \in Invocations : Same(i)
    BY <2>1, <2>2, ThrewKept DEF Same, Status
  <2>5. QED
    BY <2>1, <2>3, <2>4, AllSame
<1>7. CASE UNCHANGED vars
  BY <1>7, ThreadsStutter DEF vars, poolVars
<1>8. ASSUME NEW w \in Workers, WorkerStep(w)
      PROVE  \/ \E i \in Invocations : Promise!Lend(i) \/ Promise!Call(i) \/ Promise!GiveBack(i)
             \/ UNCHANGED Promise!vars
  BY <1>3, <1>8, DispatchIsLend, DiscardStutters, FunctionIsCall, CompleteIsGiveBack
     DEF WorkerStep, Take
<1>9. ASSUME NEW i \in Invocations, CallerStep(i)
      PROVE  Promise!Return(i) \/ UNCHANGED Promise!vars
  BY <1>2, <1>9, SubmitRefines, PollRefines DEF CallerStep
<1>10. QED
  BY <1>3, <1>4, <1>5, <1>6, <1>7, <1>8, <1>9, EnterIsBegin DEF Next, Promise!Next

LEMMA CancelledStep ==
    ASSUME RunnerInv, QueueInv, CancelledByCaller, [Next]_vars
    PROVE  CancelledByCaller'
<1> USE DEF RunnerInv
<1>1. pc \in [Workers -> PcState] /\ expired \in [Invocations -> BOOLEAN]
  BY DEF TypeOK, PcState
<1>2. ASSUME UNCHANGED <<inv, chunk>>,
             \A i \in Invocations : expired[i] => expired'[i],
             \A w \in Workers : pc'[w] = "sawCancel" =>
                  pc[w] = "sawCancel" \/ (pc[w] = "calling" /\ expired[chunk[w].inv])
      PROVE  CancelledByCaller'
  <2>1. \A w \in Workers : pc[w] \in {"sawCancel", "calling"} => chunk[w].inv \in Invocations
    BY DEF ChunksBelowNext, InFlight
  <2>2. QED
    BY <1>2, <2>1 DEF CancelledByCaller
<1>3. ASSUME NEW i \in Invocations, inv'[i].cancelled => expired[i],
             \A j \in Invocations \ {i} : inv'[j] = inv[j], UNCHANGED expired,
             \A w \in Workers : pc'[w] = "sawCancel" =>
                  pc[w] = "sawCancel" /\ chunk'[w] = chunk[w]
      PROVE  CancelledByCaller'
  BY <1>3 DEF CancelledByCaller
<1>4. ASSUME NEW i \in Invocations, Enter(i) \/ Notify(i) \/ Expire(i)
      PROVE  CancelledByCaller'
  <2>1. UNCHANGED <<inv, chunk>> /\ \A j \in Invocations : expired[j] => expired'[j]
    BY <1>1, <1>4 DEF Enter, Notify, Expire, poolVars
  <2>2. \A w \in Workers : pc'[w] = "sawCancel" => pc[w] = "sawCancel"
    BY <1>1, <1>4, NotifyOneEffect DEF Enter, Notify, Expire
  <2>3. QED
    BY <1>2, <2>1, <2>2
<1>5. ASSUME NEW w \in Workers,
             CheckWork(w) \/ TakeNothing(w) \/ EndChunk(w) \/ WakeSpuriously(w)
      PROVE  CancelledByCaller'
  <2>1. UNCHANGED <<inv, chunk, expired>>
    BY <1>5 DEF CheckWork, TakeNothing, EndChunk, WakeSpuriously, poolVars
  <2>2. \A u \in Workers : pc'[u] = "sawCancel" =>
            pc[u] = "sawCancel" \/ (pc[u] = "calling" /\ expired[chunk[u].inv])
    BY <1>1, <1>5 DEF CheckWork, TakeNothing, EndChunk, WakeSpuriously
  <2>3. QED
    BY <1>2, <2>1, <2>2
<1>6. ASSUME NEW i \in Invocations, Submit(i)
      PROVE  CancelledByCaller'
  <2>1. QueueLocked(i, Fresh).cancelled = FALSE /\ QueueLocked(i, Fresh) \in InvocationType
    BY FreshIsInvocation, QueueLockedEffect DEF Fresh
  <2>2. /\ inv'[i].cancelled => inv[i].cancelled
        /\ \A j \in Invocations \ {i} : inv'[j] = inv[j]
    BY <1>6, <2>1 DEF Submit, Store, TypeOK
  <2>3. UNCHANGED <<pc, chunk, expired>>
    BY <1>6 DEF Submit
  <2>4. QED
    BY <1>3, <2>2, <2>3 DEF CancelledByCaller
<1>7. ASSUME NEW i \in Invocations, Poll(i)
      PROVE  CancelledByCaller'
  <2>1. PICK v : v = IF expired[i] /\ ~inv[i].completed THEN CancelLocked(i, inv[i])
                ELSE inv[i]
    OBVIOUS
  <2>2. Store(i, v) /\ UNCHANGED <<pc, chunk, expired>>
    BY <1>7, <2>1 DEF Poll
  <2>3. v.cancelled => expired[i]
    BY <2>1 DEF CancelledByCaller
  <2>4. inv'[i] = v /\ \A j \in Invocations \ {i} : inv'[j] = inv[j]
    BY <2>2 DEF Store, TypeOK
  <2>5. QED
    BY <1>3, <2>2, <2>3, <2>4
<1>8. ASSUME NEW w \in Workers, CallFunction(w)
      PROVE  CancelledByCaller'
  <2>1. UNCHANGED <<inv, expired>> /\ pc[w] = "calling"
    BY <1>8 DEF CallFunction, poolVars
  <2>2. \A u \in Workers : pc'[u] = "sawCancel" => pc[u] = "sawCancel" /\ chunk'[u] = chunk[u]
    BY <1>1, <1>8 DEF CallFunction, TypeOK
  <2>3. QED
    BY <2>1, <2>2 DEF CancelledByCaller
<1>9. ASSUME NEW w \in Workers, CompleteChunk(w)
      PROVE  CancelledByCaller'
  <2>1. pc[w] \in InFlight /\ pc[w] \in {"ran", "sawCancel", "threw"}
    BY <1>9 DEF CompleteChunk, InFlight
  <2>2. PICK i \in Invocations : i = chunk[w].inv
    BY <2>1 DEF ChunksBelowNext
  <2>3. /\ AfterChunk(w) \in InvocationType
        /\ AfterChunk(w).cancelled = (inv[i].cancelled \/ pc[w] = "sawCancel")
    BY <2>1, <2>2, AfterChunkEffect
  <2>4. AfterChunk(w).cancelled => expired[i]
    BY <2>2, <2>3 DEF CancelledByCaller
  <2>5. Store(i, AfterChunk(w)) /\ UNCHANGED expired
    BY <1>9, <2>2 DEF CompleteChunk
  <2>6. inv'[i] = AfterChunk(w) /\ \A j \in Invocations \ {i} : inv'[j] = inv[j]
    BY <2>5 DEF Store, TypeOK
  <2>7. \A u \in Workers : pc'[u] = "sawCancel" => pc[u] = "sawCancel" /\ chunk'[u] = chunk[u]
    BY <1>1, <1>9 DEF CompleteChunk, NotifyAll, TypeOK
  <2>8. QED
    BY <1>3, <2>4, <2>5, <2>6, <2>7
<1>10. ASSUME NEW w \in Workers, NEW n \in 1..7, NEW p \in Priorities, NEW k,
              Dispatch(w, n, p, k)
       PROVE  CancelledByCaller'
  <2>1. PICK i : i = ready[p][k]
    OBVIOUS
  <2>2. k \in DOMAIN ready[p] /\ UNCHANGED expired
    BY <1>10 DEF Dispatch
  <2>3. i \in Invocations /\ inv[i] \in InvocationType
    BY <2>1, <2>2, EntryIsWanted
  <2>4. PICK v : inv' = [inv EXCEPT ![i] = v] /\ v.cancelled = inv[i].cancelled
    <3>1. PICK lane :
         Selects(w, n, p, k, QueueLocked(i, [inv[i] EXCEPT !.queued = FALSE,
                                                  !.busy = @ \cup {lane},
                                                  !.active = @ + 1,
                                                  !.next = ChunkEnd(i)]))
      BY <1>10, <2>1 DEF Dispatch
    <3>2. PICK u : u = [inv[i] EXCEPT !.queued = FALSE, !.busy = @ \cup {lane},
                                  !.active = @ + 1, !.next = ChunkEnd(i)]
      OBVIOUS
    <3>3. inv' = [inv EXCEPT ![i] = QueueLocked(i, u)]
      BY <2>1, <3>1, <3>2 DEF Selects
    <3>4. u.cancelled = inv[i].cancelled /\ DOMAIN u = DOMAIN inv[i]
      BY <2>3, <3>2 DEF InvocationType
    <3>5. QueueLocked(i, u).cancelled = u.cancelled
      BY <2>3, <3>2, <3>4 DEF QueueLocked, InvocationType
    <3>6. QED
      BY <3>3, <3>4, <3>5
  <2>5. \A u \in Workers : pc'[u] = "sawCancel" => pc[u] = "sawCancel" /\ u # w
    <3>1. [pc EXCEPT ![w] = "calling"] \in [Workers -> PcState]
      BY <1>1 DEF PcState, InFlight
    <3>2. pc' \in NotifyOne([pc EXCEPT ![w] = "calling"])
      BY <1>10 DEF Dispatch
    <3>3. QED
      BY <1>1, <3>1, <3>2, NotifyOneEffect
  <2>6. \A u \in Workers \ {w} : chunk'[u] = chunk[u]
    BY <1>10 DEF Dispatch, TypeOK
  <2>7. /\ inv'[i].cancelled = inv[i].cancelled
        /\ \A j \in Invocations \ {i} : inv'[j] = inv[j]
    BY <2>3, <2>4 DEF TypeOK
  <2>8. inv'[i].cancelled => expired[i]
    BY <2>3, <2>7 DEF CancelledByCaller
  <2>9. QED
    BY <1>3, <2>2, <2>3, <2>5, <2>6, <2>7, <2>8
<1>11. ASSUME NEW w \in Workers, NEW n \in 1..7, NEW p \in Priorities, NEW k,
              Discard(w, n, p, k)
       PROVE  CancelledByCaller'
  <2>1. PICK i : i = ready[p][k]
    OBVIOUS
  <2>2. /\ k \in DOMAIN ready[p] /\ UNCHANGED <<expired, pc, chunk>>
        /\ ~Dispatchable(i)
    BY <1>11, <2>1 DEF Discard
  <2>3. /\ i \in Invocations /\ inv[i] \in InvocationType
        /\ Wanted(i, inv[i]) /\ Lanes(i) \ inv[i].busy # {}
    BY <2>1, <2>2, EntryIsWanted
  <2>4. expired[i]
    BY <2>2, <2>3 DEF Dispatchable, Wanted
  <2>5. PICK v : inv' = [inv EXCEPT ![i] = v]
    BY <1>11, <2>1 DEF Discard, Selects
  <2>6. \A j \in Invocations \ {i} : inv'[j] = inv[j]
    BY <2>5 DEF TypeOK
  <2>7. QED
    BY <1>3, <2>2, <2>3, <2>4, <2>6
<1>12. CASE BeginStop \/ NotifyStop \/ Join \/ UNCHANGED vars
  <2>1. UNCHANGED <<inv, chunk, expired>>
    BY <1>12 DEF BeginStop, NotifyStop, Join, vars
  <2>2. \A w \in Workers : pc'[w] = "sawCancel" => pc[w] = "sawCancel"
    BY <1>1, <1>12, NotifyAllEffect DEF BeginStop, NotifyStop, Join, vars
  <2>3. QED
    BY <1>2, <2>1, <2>2
<1>13. QED
  BY <1>4, <1>5, <1>6, <1>7, <1>8, <1>9, <1>10, <1>11, <1>12
     DEF Next, CallerStep, WorkerStep, Take, StopStep

\* Whatever libjxl runs on the pool, the pool does only what ParallelFor allows:
\* each value at most once, no lane shared, no return while a lane is in use,
\* success only for a complete range, an error only for a reason.
THEOREM RunnerImplementsParallelFor == Spec => ImplementsParallelFor
<1>1. Init => Promise!Init /\ CancelledByCaller
  <2>1. SUFFICES ASSUME Init
                 PROVE  Promise!Init /\ CancelledByCaller
    OBVIOUS
  <2>2. ASSUME NEW i \in Invocations
        PROVE  /\ Status(i) = "idle" /\ inv[i].busy = {} /\ Threw(i) = FALSE
               /\ ~inv[i].cancelled
    BY <2>1 DEF Init, Fresh, Status, Threw, WorksOn, InFlight
  <2>3. /\ Stopping = FALSE /\ \A w \in Workers : pc[w] = "checking"
        /\ called = [i \in Invocations |-> {}] /\ expired = [i \in Invocations |-> FALSE]
    BY <2>1 DEF Init, Stopping, Running
  <2>4. QED
    BY <2>2, <2>3 DEF Promise!Init, CancelledByCaller
<1>2. RunnerInv /\ QueueInv /\ CancelledByCaller /\ [Next]_vars => CancelledByCaller'
  BY CancelledStep
<1>3. RunnerInv /\ RunnerInv' /\ QueueInv /\ CancelledByCaller /\ [Next]_vars
          => [Promise!Next]_(Promise!vars)
  BY RunnerStepRefines
<1>4. QED
  BY <1>1, <1>2, <1>3, QueuesInvariant, PTL
     DEF Spec, ImplementsParallelFor, Promise!Spec
=============================================================================
