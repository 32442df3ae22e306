---------------------------- MODULE SharedRunner ----------------------------
(***************************************************************************)
(* The process-wide parallel runner of the native library                  *)
(* (src/native/src/shared_parallel_runner.cc, SharedParallelScheduler).    *)
(*                                                                         *)
(* libjxl calls Run from any number of threads; each call becomes an       *)
(* Invocation whose values 0 .. Items-1 are handed out, a chunk at a time, *)
(* to one shared pool of worker threads.  Up to LaneCount chunks of an     *)
(* invocation are in flight at once, each on a lane (libjxl's thread id)   *)
(* of its own.  Ready invocations wait in one queue per priority; a fixed  *)
(* cycle shares the pool 4:2:1 between the priorities, and inside a        *)
(* priority consecutive chunks come from different request groups when     *)
(* they can.                                                               *)
(*                                                                         *)
(* A critical section is one action, guarded by a free mutex.  Only        *)
(* TakeWorkLocked keeps the mutex over several steps, one for each turn of *)
(* its loop, because the cancellation callback it calls can change its     *)
(* answer between two turns.                                               *)
(***************************************************************************)
EXTENDS Integers, FiniteSets, SequencesExt

CONSTANTS
    Workers,      \* the pool's threads
    Invocations,  \* the calls of Run
    Items,        \* Items[i]: the length of i's value range
    Priority,     \* Priority[i]: 0 low, 1 normal, 2 high
    Group,        \* Group[i]: i's request group, 0 when none was given
    ChunkSize,    \* values in one chunk, at most
    Expiring,     \* invocations whose cancellation callback may turn true
    Refusing,     \* invocations whose arguments or init callback may be bad
    Throwing,     \* invocations whose function may throw
    MayStop,      \* may the pool be destroyed?
    None          \* no worker, no invocation

ASSUME SharedRunnerAssumption ==
    /\ IsFiniteSet(Workers) /\ Workers # {}
    /\ None \notin Workers \cup Invocations
    /\ Items \in [Invocations -> Nat]
    /\ Priority \in [Invocations -> 0..2]
    /\ Group \in [Invocations -> Nat]
    /\ ChunkSize \in Nat \ {0}
    /\ Expiring \subseteq Invocations
    /\ Refusing \subseteq Invocations
    /\ Throwing \subseteq Invocations
    /\ MayStop \in BOOLEAN

VARIABLES
    inv,        \* the Invocation objects
    ready,      \* ready[p]: the deque of priority p
    lastGroup,  \* lastGroup[p]: the group that priority p served last
    cycleIndex, \* the position in PriorityCycle
    stop,       \* the progress of the destructor
    mutex,      \* the worker inside TakeWorkLocked, or None
    pc, chunk,  \* where each worker is, and the chunk it works on
    caller,     \* where each caller of Run is
    expired,    \* what the cancellation callback answers
    called      \* history: the values each function has been called with

vars == <<inv, ready, lastGroup, cycleIndex, stop, mutex, pc, chunk, caller,
          expired, called>>

poolVars == <<ready, lastGroup, cycleIndex, stop, mutex>>

-----------------------------------------------------------------------------
Priorities == 0..2

\* Fault: normal work gets as much as high work.
LevelCycle == <<2, 2, 2, 1, 1, 1, 0>>

\* kPriorityCycle.
PriorityCycle == <<2, 2, 2, 2, 1, 1, 0>>

Lesser(m, n) == IF m < n THEN m ELSE n

\* One lane for each worker, but never more lanes than values.
LaneCount(i) == Lesser(Cardinality(Workers), Items[i])

Lanes(i) == 0 .. LaneCount(i) - 1

\* A new Invocation object.
Fresh == [next |-> 0, busy |-> {}, active |-> 0, queued |-> FALSE,
          cancelled |-> FALSE, failed |-> FALSE, completed |-> FALSE]

\* An empty WorkChunk.
NoChunk == [inv |-> None, value |-> 0, end |-> 0, lane |-> 0]

Running == stop = "running"

\* The stopping_ flag is set before the workers are notified and joined.
Stopping == ~Running

HasReady == \E p \in Priorities : ready[p] # <<>>

\* The states a worker is in while its chunk's function may be called, and
\* between its last call and the end of CompleteChunk.
InFlight == {"calling", "ran", "sawCancel", "threw"}

\* Fault: a notification is never sent.
NotifyNobody(p) == {p}

\* The notify_one and notify_all of ready_condition_, whose wait set is the
\* set of workers at "waiting".  A notification finds nobody when it is empty.
NotifyOne(p) ==
    LET waiting == {w \in Workers : p[w] = "waiting"}
    IN  IF waiting = {} THEN {p}
        ELSE {[p EXCEPT ![w] = "checking"] : w \in waiting}

NotifyAll(p) ==
    [w \in Workers |-> IF p[w] = "waiting" THEN "checking" ELSE p[w]]

-----------------------------------------------------------------------------
(* The helpers named ...Locked in the code.  Each maps an Invocation to     *)
(* what it becomes; Store keeps the ready queue in step with its queued     *)
(* flag, as QueueLocked and RemoveReadyLocked do.                           *)

Dead(v) == v.completed \/ v.cancelled \/ v.failed

\* Faults: an invocation is queued though all its lanes are busy, or only while
\* two of them are free.
QueueWithoutLane(i, v) ==
    IF v.queued \/ Dead(v) \/ v.next >= Items[i]
    THEN v
    ELSE [v EXCEPT !.queued = TRUE]

QueueWithSpareLane(i, v) ==
    IF v.queued \/ Dead(v) \/ v.next >= Items[i] \/ v.active + 1 >= LaneCount(i)
    THEN v
    ELSE [v EXCEPT !.queued = TRUE]

QueueLocked(i, v) ==
    IF v.queued \/ Dead(v) \/ v.next >= Items[i] \/ v.active >= LaneCount(i)
    THEN v
    ELSE [v EXCEPT !.queued = TRUE]

\* Fault: an invocation completes while its chunks are in flight.
FinishWhileActive(i, v) ==
    IF ~v.cancelled /\ ~v.failed /\ v.next < Items[i]
    THEN v
    ELSE [v EXCEPT !.completed = TRUE, !.queued = FALSE]

FinishIfReadyLocked(i, v) ==
    IF v.active # 0 \/ (~v.cancelled /\ ~v.failed /\ v.next < Items[i])
    THEN v
    ELSE [v EXCEPT !.completed = TRUE, !.queued = FALSE]

CancelLocked(i, v) ==
    FinishIfReadyLocked(i, [v EXCEPT !.cancelled = TRUE, !.next = Items[i],
                                     !.queued = FALSE])

\* Writes v back.  An invocation is in its queue at most once, so
\* RemoveReadyLocked's erase-remove takes out its only entry.
Store(i, v) ==
    /\ inv' = [inv EXCEPT ![i] = v]
    /\ ready' = [ready EXCEPT ![Priority[i]] =
                    IF v.queued /\ ~inv[i].queued THEN Append(@, i)
                    ELSE IF ~v.queued THEN RemoveFirst(@, i)
                    ELSE @]

-----------------------------------------------------------------------------
(* The caller: Run.                                                         *)

\* Run's checks and the init callback, before it touches the pool.  A missing
\* callback, an invalid priority and an init that fails all end the call.
Enter(i) ==
    /\ caller[i] = "idle"
    /\ \E refused \in BOOLEAN :
          /\ refused => i \in Refusing
          /\ caller' = [caller EXCEPT ![i] =
                        IF expired[i] \/ refused THEN "error"
                        ELSE IF Items[i] = 0 THEN "success"
                        ELSE "submitting"]
    /\ UNCHANGED <<inv, poolVars, pc, chunk, expired, called>>

Submit(i) ==
    /\ caller[i] = "submitting"
    /\ mutex = None
    /\ IF Stopping
       THEN /\ caller' = [caller EXCEPT ![i] = "error"]
            /\ UNCHANGED <<inv, ready>>
       ELSE /\ caller' = [caller EXCEPT ![i] = "notifying"]
            /\ Store(i, QueueLocked(i, Fresh))
    /\ UNCHANGED <<lastGroup, cycleIndex, stop, mutex, pc, chunk, expired,
                   called>>

\* The notify_one that follows once the mutex is released.
Notify(i) ==
    /\ caller[i] = "notifying"
    /\ caller' = [caller EXCEPT ![i] = "polling"]
    /\ pc' \in NotifyOne(pc)
    /\ UNCHANGED <<inv, poolVars, chunk, expired, called>>

\* Fault: only workers notice a cancellation.
PollNeverCancels(i) ==
    /\ caller[i] = "polling"
    /\ mutex = None
    /\ caller' = [caller EXCEPT ![i] =
                     IF ~inv[i].completed THEN "polling"
                     ELSE IF inv[i].cancelled \/ inv[i].failed THEN "error"
                     ELSE "success"]
    /\ UNCHANGED <<inv, poolVars, pc, chunk, expired, called>>

\* One turn of the loop around wait_for(1ms), with the mutex held: the call
\* cancels its own invocation, and returns when it is complete.
Poll(i) ==
    /\ caller[i] = "polling"
    /\ mutex = None
    /\ LET v == IF expired[i] /\ ~inv[i].completed THEN CancelLocked(i, inv[i])
                ELSE inv[i]
       IN  /\ Store(i, v)
           /\ caller' = [caller EXCEPT ![i] =
                            IF ~v.completed THEN "polling"
                            ELSE IF v.cancelled \/ v.failed THEN "error"
                            ELSE "success"]
    /\ UNCHANGED <<lastGroup, cycleIndex, stop, mutex, pc, chunk, expired,
                   called>>

-----------------------------------------------------------------------------
(* A worker: WorkerLoop and TakeWorkLocked.                                 *)

\* Fault: a stopping worker leaves although work is queued.
CheckStopFirst(w) ==
    /\ pc[w] = "checking"
    /\ mutex = None
    /\ IF HasReady /\ Running
       THEN mutex' = w /\ pc' = [pc EXCEPT ![w] = "taking"]
       ELSE /\ pc' = [pc EXCEPT ![w] = IF Stopping THEN "exited" ELSE "waiting"]
            /\ UNCHANGED mutex
    /\ UNCHANGED <<inv, ready, lastGroup, cycleIndex, stop, chunk, caller,
                   expired, called>>

\* The predicate of ready_condition_.wait, evaluated with the mutex held.
CheckWork(w) ==
    /\ pc[w] = "checking"
    /\ mutex = None
    /\ IF HasReady
       THEN mutex' = w /\ pc' = [pc EXCEPT ![w] = "taking"]
       ELSE /\ pc' = [pc EXCEPT ![w] = IF Stopping THEN "exited" ELSE "waiting"]
            /\ UNCHANGED mutex
    /\ UNCHANGED <<inv, ready, lastGroup, cycleIndex, stop, chunk, caller,
                   expired, called>>

\* A condition variable may wake a thread that nobody notified.
WakeSpuriously(w) ==
    /\ pc[w] = "waiting"
    /\ pc' = [pc EXCEPT ![w] = "checking"]
    /\ UNCHANGED <<inv, poolVars, chunk, caller, expired, called>>

\* Fault: every scan begins at the start of the cycle.
SelectsStrictly(n, p) ==
    /\ PriorityCycle[n] = p
    /\ ready[p] # <<>>
    /\ \A m \in 1 .. n - 1 : ready[PriorityCycle[m]] = <<>>

\* SelectPriorityLocked: p is the first entry of the cycle, from the current
\* position, whose queue is not empty; n entries were passed to find it.
SelectsPriority(n, p) ==
    LET entry(m) == PriorityCycle[((cycleIndex + m - 1) % 7) + 1]
    IN  /\ entry(n) = p
        /\ ready[p] # <<>>
        /\ \A m \in 1 .. n - 1 : ready[entry(m)] = <<>>

\* Fault: the last candidate of another group is taken.
SelectsLastPosition(p, k) ==
    LET other == {j \in DOMAIN ready[p] : Group[ready[p][j]] # lastGroup[p]}
    IN  IF other = {} THEN k = Len(ready[p])
        ELSE k \in other /\ \A j \in other : k >= j

\* The first candidate of a group other than the last one served, or else the
\* head of the queue.
SelectsPosition(p, k) ==
    LET other == {j \in DOMAIN ready[p] : Group[ready[p][j]] # lastGroup[p]}
    IN  IF other = {} THEN k = 1
        ELSE k \in other /\ \A j \in other : k <= j

\* The position after the n-th entry was selected.
NextCycleIndex(n) == (cycleIndex + n) % 7

\* Every turn of the loop takes the entry at position k of queue p.  Its
\* invocation becomes v; it goes to the back of the queue if v is queued.
Selects(w, n, p, k, v) ==
    /\ pc[w] = "taking"
    /\ SelectsPriority(n, p)
    /\ SelectsPosition(p, k)
    /\ inv' = [inv EXCEPT ![ready[p][k]] = v]
    /\ ready' = [ready EXCEPT ![p] =
                    IF v.queued THEN Append(RemoveAt(@, k), ready[p][k])
                    ELSE RemoveAt(@, k)]
    /\ lastGroup' = [lastGroup EXCEPT ![p] = Group[ready[p][k]]]
    /\ cycleIndex' = NextCycleIndex(n)

Dispatchable(i) ==
    /\ ~Dead(inv[i])
    /\ ~expired[i]
    /\ inv[i].next < Items[i]
    /\ Lanes(i) \ inv[i].busy # {}

\* The end of the next chunk, min(end_value, next_value + chunk_size).
ChunkEnd(i) == Lesser(Items[i], inv[i].next + ChunkSize)

\* The loop ends with a chunk on the invocation's lowest free lane.
Dispatch(w, n, p, k) ==
    LET i == ready[p][k]
        end == ChunkEnd(i)
    IN  /\ k \in DOMAIN ready[p]
        /\ Dispatchable(i)
        /\ \E lane \in Lanes(i) \ inv[i].busy :
              /\ \A other \in Lanes(i) \ inv[i].busy : lane <= other
              /\ Selects(w, n, p, k,
                    QueueLocked(i, [inv[i] EXCEPT !.queued = FALSE,
                                                  !.busy = @ \cup {lane},
                                                  !.active = @ + 1,
                                                  !.next = end]))
              /\ chunk' = [chunk EXCEPT ![w] =
                    [inv |-> i, value |-> inv[i].next, end |-> end,
                     lane |-> lane]]
        /\ pc' \in NotifyOne([pc EXCEPT ![w] = "calling"])
        /\ mutex' = None
        /\ UNCHANGED <<stop, caller, expired, called>>

\* The loop's continue statements: the entry gives no work, and the worker
\* goes on with the mutex held.
Discard(w, n, p, k) ==
    LET i == ready[p][k]
        v == [inv[i] EXCEPT !.queued = FALSE]
    IN  /\ k \in DOMAIN ready[p]
        /\ ~Dispatchable(i)
        /\ Selects(w, n, p, k,
              CASE Dead(v) -> FinishIfReadyLocked(i, v)
                [] ~Dead(v) /\ expired[i] -> CancelLocked(i, v)
                [] ~Dead(v) /\ ~expired[i] /\ v.next >= Items[i] ->
                      FinishIfReadyLocked(i, v)
                [] OTHER -> v)
        /\ UNCHANGED <<stop, mutex, pc, chunk, caller, expired, called>>

\* Nothing is left: TakeWorkLocked returns false.
TakeNothing(w) ==
    /\ pc[w] = "taking"
    /\ ~HasReady
    /\ mutex' = None
    /\ pc' = [pc EXCEPT ![w] = "checking"]
    /\ UNCHANGED <<inv, ready, lastGroup, cycleIndex, stop, chunk, caller,
                   expired, called>>

\* The worker asks for cancellation before every value; then the function is
\* called with the value and the chunk's lane, and may throw.
CallFunction(w) ==
    LET held == chunk[w]
    IN  /\ pc[w] = "calling"
        /\ held.value < held.end
        /\ ~expired[held.inv]
        /\ called' = [called EXCEPT ![held.inv] = @ \cup {held.value}]
        /\ \/ /\ chunk' = [chunk EXCEPT ![w].value = @ + 1]
              /\ UNCHANGED pc
           \/ /\ held.inv \in Throwing
              /\ pc' = [pc EXCEPT ![w] = "threw"]
              /\ UNCHANGED chunk
        /\ UNCHANGED <<inv, poolVars, caller, expired>>

\* Fault: a chunk that was cut short counts as complete.
EndChunkAsRun(w) ==
    LET held == chunk[w]
    IN  /\ pc[w] = "calling"
        /\ held.value < held.end => expired[held.inv]
        /\ pc' = [pc EXCEPT ![w] = "ran"]
        /\ UNCHANGED <<inv, poolVars, chunk, caller, expired, called>>

EndChunk(w) ==
    LET held == chunk[w]
    IN  /\ pc[w] = "calling"
        /\ held.value < held.end => expired[held.inv]
        /\ pc' = [pc EXCEPT ![w] = IF held.value < held.end THEN "sawCancel"
                                   ELSE "ran"]
        /\ UNCHANGED <<inv, poolVars, chunk, caller, expired, called>>

\* Fault: the lane stays busy.
AfterChunkKeepsLane(w) ==
    LET i == chunk[w].inv
        v == [inv[i] EXCEPT !.active = @ - 1,
                            !.cancelled = @ \/ pc[w] = "sawCancel",
                            !.failed = @ \/ pc[w] = "threw"]
    IN  FinishIfReadyLocked(i,
            IF v.cancelled \/ v.failed
            THEN [v EXCEPT !.next = Items[i], !.queued = FALSE]
            ELSE QueueLocked(i, v))

\* The invocation once worker w has given its lane back.
AfterChunk(w) ==
    LET i == chunk[w].inv
        v == [inv[i] EXCEPT !.busy = @ \ {chunk[w].lane},
                            !.active = @ - 1,
                            !.cancelled = @ \/ pc[w] = "sawCancel",
                            !.failed = @ \/ pc[w] = "threw"]
    IN  FinishIfReadyLocked(i,
            IF v.cancelled \/ v.failed
            THEN [v EXCEPT !.next = Items[i], !.queued = FALSE]
            ELSE QueueLocked(i, v))

CompleteChunk(w) ==
    /\ pc[w] \in {"ran", "sawCancel", "threw"}
    /\ mutex = None
    /\ Store(chunk[w].inv, AfterChunk(w))
    /\ pc' = NotifyAll([pc EXCEPT ![w] = "checking"])
    /\ chunk' = [chunk EXCEPT ![w] = NoChunk]
    /\ UNCHANGED <<lastGroup, cycleIndex, stop, mutex, caller, expired, called>>

-----------------------------------------------------------------------------
(* The environment and the destructor.                                      *)

\* The cancellation callback turns true and stays true (DeadlineCancelled).
Expire(i) ==
    /\ i \in Expiring
    /\ ~expired[i]
    /\ expired' = [expired EXCEPT ![i] = TRUE]
    /\ UNCHANGED <<inv, poolVars, pc, chunk, caller, called>>

\* ~Impl: set stopping_, notify every worker, join them.
BeginStop ==
    /\ MayStop
    /\ Running
    /\ mutex = None
    /\ stop' = "notifying"
    /\ UNCHANGED <<inv, ready, lastGroup, cycleIndex, mutex, pc, chunk, caller,
                   expired, called>>

\* Fault: the destructor wakes no sleeping worker.
StopUnnoticed ==
    /\ stop = "notifying"
    /\ stop' = "joining"
    /\ UNCHANGED <<inv, ready, lastGroup, cycleIndex, mutex, pc, chunk, caller,
                   expired, called>>

NotifyStop ==
    /\ stop = "notifying"
    /\ stop' = "joining"
    /\ pc' = NotifyAll(pc)
    /\ UNCHANGED <<inv, ready, lastGroup, cycleIndex, mutex, chunk, caller,
                   expired, called>>

Join ==
    /\ stop = "joining"
    /\ \A w \in Workers : pc[w] = "exited"
    /\ stop' = "joined"
    /\ UNCHANGED <<inv, ready, lastGroup, cycleIndex, mutex, pc, chunk, caller,
                   expired, called>>

-----------------------------------------------------------------------------
\* A thread evaluates the wait predicate as soon as it has started.
Init ==
    /\ inv = [i \in Invocations |-> Fresh]
    /\ ready = [p \in Priorities |-> <<>>]
    /\ lastGroup = [p \in Priorities |-> 0]
    /\ cycleIndex = 0
    /\ stop = "running"
    /\ mutex = None
    /\ pc = [w \in Workers |-> "checking"]
    /\ chunk = [w \in Workers |-> NoChunk]
    /\ caller = [i \in Invocations |-> "idle"]
    /\ expired = [i \in Invocations |-> FALSE]
    /\ called = [i \in Invocations |-> {}]

Positions == 1 .. Cardinality(Invocations)

Take(w) ==
    \/ \E n \in 1..7, p \in Priorities, k \in Positions :
          Dispatch(w, n, p, k) \/ Discard(w, n, p, k)
    \/ TakeNothing(w)

CallerStep(i) == Submit(i) \/ Notify(i) \/ Poll(i)

WorkerStep(w) ==
    \/ CheckWork(w)
    \/ Take(w)
    \/ CallFunction(w)
    \/ EndChunk(w)
    \/ CompleteChunk(w)

StopStep == NotifyStop \/ Join

Next ==
    \/ \E i \in Invocations : Enter(i) \/ CallerStep(i) \/ Expire(i)
    \/ \E w \in Workers : WorkerStep(w) \/ WakeSpuriously(w)
    \/ BeginStop
    \/ StopStep

Spec == Init /\ [][Next]_vars

-----------------------------------------------------------------------------
(* What must hold.                                                          *)

\* The invocation that worker w is working on is i.
WorksOn(w, i) == pc[w] \in InFlight /\ chunk[w].inv = i

Returned(i) == caller[i] \in {"success", "error"}

InvocationType ==
    [next : Nat, busy : SUBSET Nat, active : Nat, queued : BOOLEAN,
     cancelled : BOOLEAN, failed : BOOLEAN, completed : BOOLEAN]

\* The type invariant of shared_parallel_runner.cc's scheduler state.
TypeOK ==
    /\ inv \in [Invocations -> InvocationType]
    /\ ready \in [Priorities -> Seq(Invocations)]
    /\ lastGroup \in [Priorities -> Nat]
    /\ cycleIndex \in 0..6
    /\ stop \in {"running", "notifying", "joining", "joined"}
    /\ mutex \in Workers \cup {None}
    /\ pc \in [Workers -> {"checking", "waiting", "taking", "exited"}
                             \cup InFlight]
    /\ chunk \in [Workers -> [inv : Invocations \cup {None}, value : Nat,
                              end : Nat, lane : Nat]]
    /\ caller \in [Invocations -> {"idle", "submitting", "notifying",
                                   "polling", "success", "error"}]
    /\ expired \in [Invocations -> BOOLEAN]
    /\ called \in [Invocations -> SUBSET Nat]

\* The workers in flight with a chunk of invocation i.
Holders(i) == {w \in Workers : WorksOn(w, i)}

\* lane_busy and active_chunks describe the chunks in flight: no two workers
\* are ever on the same lane of an invocation, every busy lane has its worker,
\* and the counter that decides when Run may return is their number.
LanesMatchWorkers ==
    \A i \in Invocations :
        /\ inv[i].busy = {chunk[w].lane : w \in Holders(i)}
        /\ inv[i].active = Cardinality(Holders(i))
        /\ inv[i].busy \subseteq Lanes(i)
        /\ \A u, w \in Holders(i) : chunk[u].lane = chunk[w].lane => u = w

\* While its invocation is in the pool a call of Run waits.
InPool(i) == caller[i] \in {"notifying", "polling"}

\* Once Run has returned, or before its invocation exists, no worker holds a
\* chunk of it: the opaque pointers libjxl passed live on Run's stack.
NoWorkAfterReturn ==
    \A i \in Invocations : ~InPool(i) => Holders(i) = {}

\* Worker w is still to call i's function with value v.
Owes(w, i, v) ==
    /\ pc[w] = "calling"
    /\ chunk[w].inv = i
    /\ chunk[w].value <= v
    /\ v < chunk[w].end

\* No value is handed to two workers, or to one after it was called, and a run
\* that reports success has called its function with every value of the range.
EveryValueOnce ==
    \A i \in Invocations :
        /\ \A w \in Workers, v \in called[i] : ~Owes(w, i, v)
        /\ \A u, w \in Workers : \A v \in 0 .. Items[i] - 1 :
              Owes(u, i, v) /\ Owes(w, i, v) => u = w
        /\ caller[i] = "success" => called[i] = 0 .. Items[i] - 1

\* A ready queue holds exactly the invocations flagged as queued, each once,
\* in the queue of its priority, and each of them has a value to hand out and
\* a lane to hand it to: the loop of TakeWorkLocked skips an entry only because
\* its caller's cancellation turned true while it was waiting.
QueuesHoldWork ==
    /\ \A p \in Priorities :
          /\ \A j, k \in DOMAIN ready[p] : ready[p][j] = ready[p][k] => j = k
          /\ \A k \in DOMAIN ready[p] : Priority[ready[p][k]] = p
    /\ \A i \in Invocations :
          LET listed == \E k \in DOMAIN ready[Priority[i]] :
                            ready[Priority[i]][k] = i
          IN  /\ inv[i].queued <=> listed
              /\ listed => /\ ~Dead(inv[i])
                           /\ inv[i].next < Items[i]
                           /\ inv[i].active < LaneCount(i)

\* The converse: an invocation with values left and a free lane is queued, so
\* the pool never loses track of work it could do.
NoWorkForgotten ==
    \A i \in Invocations :
        /\ InPool(i)
        /\ ~Dead(inv[i])
        /\ inv[i].next < Items[i]
        /\ inv[i].active < LaneCount(i)
        => inv[i].queued

\* No wakeup is lost: while some queue has work, a worker sleeps only if
\* another worker is on its way to the queues or a notification is due.
NoLostWakeup ==
    HasReady /\ (\E w \in Workers : pc[w] = "waiting") =>
        \/ \E w \in Workers : pc[w] \in {"checking", "taking"}
        \/ \E i \in Invocations : caller[i] = "notifying"

-----------------------------------------------------------------------------
(* What makes the properties above inductive.                               *)

\* Every chunk in flight was cut off below its invocation's next_value, which
\* never passes end_value.
ChunksBelowNext ==
    /\ \A i \in Invocations : inv[i].next <= Items[i]
    /\ \A w \in Workers : pc[w] \in InFlight =>
          /\ chunk[w].inv \in Invocations
          /\ chunk[w].value <= chunk[w].end
          /\ chunk[w].end <= inv[chunk[w].inv].next

\* Every value below next_value of an invocation that nothing has interrupted
\* has been called or is owed; none beyond it has been called.
Interrupted(i) ==
    \/ inv[i].cancelled \/ inv[i].failed
    \/ \E w \in Holders(i) : pc[w] \in {"sawCancel", "threw"}

ValuesAccountedFor ==
    \A i \in Invocations :
        /\ \A v \in called[i] : v < inv[i].next
        /\ ~Interrupted(i) => \A v \in 0 .. inv[i].next - 1 :
              v \in called[i] \/ \E w \in Workers : Owes(w, i, v)

\* An invocation is complete only when no lane is in use and nothing is left.
CompletionIsFinal ==
    \A i \in Invocations : inv[i].completed =>
        /\ inv[i].active = 0
        /\ inv[i].cancelled \/ inv[i].failed \/ inv[i].next = Items[i]

\* The queues name only invocations whose Run waits, or which are complete.
QueuedRunsWait ==
    /\ \A i \in Invocations :
          caller[i] \in {"idle", "submitting"} => inv[i] = Fresh
    /\ \A p \in Priorities : \A k \in DOMAIN ready[p] :
          InPool(ready[p][k]) \/ inv[ready[p][k]].completed

RunnerInv ==
    /\ TypeOK
    /\ ChunksBelowNext
    /\ LanesMatchWorkers
    /\ NoWorkAfterReturn
    /\ EveryValueOnce
    /\ ValuesAccountedFor
    /\ CompletionIsFinal
    /\ QueuedRunsWait

-----------------------------------------------------------------------------
(* What libjxl is promised (ParallelFor).  A lane is in use from Dispatch   *)
(* to CompleteChunk; a throw counts from the moment it happens.             *)

Threw(i) == inv[i].failed \/ \E w \in Workers : WorksOn(w, i) /\ pc[w] = "threw"

Status(i) ==
    IF caller[i] \in {"submitting", "notifying", "polling"} THEN "active"
    ELSE caller[i]

Promise == INSTANCE ParallelFor WITH
    LaneLimit <- [i \in Invocations |-> LaneCount(i)],
    status <- [i \in Invocations |-> Status(i)],
    lanes <- [i \in Invocations |-> inv[i].busy],
    threw <- [i \in Invocations |-> Threw(i)],
    closed <- Stopping

\* Every behaviour of the scheduler is one that ParallelFor allows: each value
\* at most once, no lane shared, no return while a lane is in use, success only
\* for a complete range without a throw, an error only for a reason.
ImplementsParallelFor == Promise!Spec

-----------------------------------------------------------------------------
(* Liveness.  Threads are scheduled, the mutex is not denied for ever, and  *)
(* the functions libjxl passes return.  Spurious wakeups, expiry and the    *)
(* destructor need not happen.                                              *)

CallersRun == \A i \in Invocations : WF_vars(CallerStep(i))

\* A thread that holds the mutex, or is to notify, goes on.
CriticalSectionsEnd == \A w \in Workers : WF_vars(Take(w))

FairSpec == Spec /\ CallersRun /\ CriticalSectionsEnd

\* The functions return, and the destructor goes on.
PoolRuns ==
    /\ \A w \in Workers : WF_vars(WorkerStep(w))
    /\ WF_vars(StopStep)

\* Every call of Run that reaches the pool returns, whether the pool is being
\* destroyed, a function throws or the deadline passes meanwhile.
RunReturns ==
    PoolRuns => \A i \in Invocations : caller[i] = "submitting" ~> Returned(i)

\* The destructor's joins end.
StopEnds == PoolRuns => (Stopping ~> stop = "joined")

\* A caller can give up without the pool's help: once its deadline has passed
\* and no chunk of it is in flight, Run returns even if every worker is stuck
\* in the function of another invocation.
ExpiredRunReturnsUnaided ==
    \A i \in Invocations :
        caller[i] = "polling" /\ expired[i] /\ inv[i].active = 0
            ~> Returned(i)
=============================================================================
