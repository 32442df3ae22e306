--------------------------- MODULE AdmissionWindows ---------------------------
(***************************************************************************)
(* The Windows plugin's ConversionScheduler (windows/jxl_coder_plugin.cpp).*)
(*                                                                         *)
(* Conversions wait in one queue per priority.  A queue rotates between    *)
(* the request groups that have jobs in it; the cycle 4:2:1 shares the     *)
(* workers between the priorities.  The first submission starts the        *)
(* workers and the timer that removes the jobs whose deadline passed; the  *)
(* threads wait at a gate until all of them exist.  The destructor lets    *)
(* the workers drain the queues.                                           *)
(*                                                                         *)
(* Enqueue changes a queue in several steps, and memory may run out between*)
(* them: `hollow' and `torn' keep what such a failure leaves behind.       *)
(*                                                                         *)
(* A critical section is one action, guarded by a free mutex.  The         *)
(* submission that starts the threads keeps the mutex over several steps,  *)
(* and so does the timer, which removes expired jobs one by one.           *)
(***************************************************************************)
EXTENDS Integers, FiniteSets, SequencesExt

CONSTANTS
    Jobs,          \* the submissions
    Groups,        \* the request groups
    Priority,      \* Priority[j]: 0 low, 1 normal, 2 high
    Group,         \* Group[j]: the request that j belongs to
    MaximumActive, \* effective_maximum_, the number of workers
    Expiring,      \* jobs whose deadline may pass
    Throwing,      \* jobs whose operation may throw
    Refusing,      \* jobs that may find no memory or no thread to start
    None           \* no job

ASSUME AdmissionAssumption ==
    /\ IsFiniteSet(Jobs) /\ IsFiniteSet(Groups) /\ None \notin Jobs
    /\ Priority \in [Jobs -> 0..2]
    /\ Group \in [Jobs -> Groups]
    /\ MaximumActive \in Nat \ {0}
    /\ Expiring \subseteq Jobs
    /\ Throwing \subseteq Jobs
    /\ Refusing \subseteq Jobs

VARIABLES
    groups,  \* groups[p]: groups_, the rotation of priority p
    jobs,    \* jobs[p][g]: jobs_, the deque of group g; empty when absent
    hollow,  \* the entries of jobs_ whose deque is empty, <<p, g>>
    index,   \* priority_index_
    started, \* started_
    gate,    \* StartupGate: "closed", "open" or "abandoned"
    stop,    \* the progress of the destructor
    mutex,   \* who keeps mutex_ over several steps; "undefined" after a worker
             \* has dequeued from a group without jobs
    pc,      \* where each worker and the timer is
    job,     \* job[w]: the job in w's hands
    due,     \* the queued jobs that the timer has found expired
    sweep,   \* the expired jobs in the timer's hands
    caller,  \* where each call of Submit is
    passed,  \* passed[j]: the clock has reached j's deadline
    answers, \* history: the callbacks made for each job
    torn,    \* history: the queues in which an Enqueue has failed half way
    bypassed \* history: selections of p since group g was served, while it waits

queues == <<groups, jobs, hollow, torn, index, bypassed>>

startup == <<started, gate>>

expiry == <<due, sweep>>

vars == <<queues, startup, expiry, stop, mutex, pc, job, caller, passed,
          answers>>

-----------------------------------------------------------------------------
Priorities == 0..2

\* kPriorityCycle.
PriorityCycle == <<2, 2, 2, 2, 1, 1, 0>>

Workers == 1 .. MaximumActive

\* The timer is the last thread to be created.
Timer == MaximumActive + 1

Threads == 1 .. Timer

HasJobs == \E p \in Priorities : groups[p] # <<>>

\* condition_.notify_all; the timer wakes after a millisecond anyhow.
NotifyAll(p) == [t \in Threads |-> IF p[t] = "waiting" THEN "checking" ELSE p[t]]

Queued(j) == \E k \in DOMAIN jobs[Priority[j]][Group[j]] :
                jobs[Priority[j]][Group[j]][k] = j

-----------------------------------------------------------------------------
(* The caller: Submit and StartLocked.                                      *)

\* Fault: a group enters the rotation once for each of its jobs.
EntersRotation(p, g) == TRUE

\* jobs_ has no entry for the group.
JoinsRotation(p, g) == jobs[p][g] = <<>> /\ <<p, g>> \notin hollow

\* The rest of Submit once the threads run: Enqueue and notify_all.
Accept(j) ==
    LET p == Priority[j]
        g == Group[j]
    IN  /\ groups' = [groups EXCEPT ![p] = IF JoinsRotation(p, g)
                                           THEN Append(@, g) ELSE @]
        /\ jobs' = [jobs EXCEPT ![p][g] = Append(@, j)]
        /\ hollow' = hollow \ {<<p, g>>}
        /\ caller' = [caller EXCEPT ![j] = "accepted"]
        /\ mutex' = "free"
        /\ bypassed' = [bypassed EXCEPT ![p][g] =
                           IF jobs[p][g] = <<>> THEN 0 ELSE @]
        /\ UNCHANGED <<torn, index>>

\* Nothing has been queued.
Refuse(j) ==
    /\ caller' = [caller EXCEPT ![j] = "refused"]
    /\ mutex' = "free"
    /\ UNCHANGED queues

\* Enqueue finds memory for the group's place in the rotation, but not for its
\* entry in jobs_, or for the entry but not for the job in its deque.
RefuseHalfWay(j) ==
    LET p == Priority[j]
        g == Group[j]
    IN  /\ JoinsRotation(p, g)
        /\ groups' = [groups EXCEPT ![p] = Append(@, g)]
        /\ hollow' \in {hollow, hollow \cup {<<p, g>>}}
        /\ torn' = torn \cup {p}
        /\ caller' = [caller EXCEPT ![j] = "refused"]
        /\ mutex' = "free"
        /\ UNCHANGED <<jobs, index, bypassed>>

\* Nobody submits once the process has begun to destroy its statics.
Submit(j) ==
    /\ caller[j] = "idle"
    /\ mutex = "free"
    /\ stop = "running"
    /\ \/ /\ started
          /\ Accept(j)
          /\ pc' = NotifyAll(pc)
       \/ /\ j \in Refusing
          /\ Refuse(j) \/ (started /\ RefuseHalfWay(j))
          /\ UNCHANGED pc
       \/ /\ ~started
          /\ mutex' = "submitter"
          /\ caller' = [caller EXCEPT ![j] = "starting"]
          /\ UNCHANGED <<queues, pc>>
    /\ UNCHANGED <<startup, stop, job, expiry, passed, answers>>

\* The next thread is created.  It waits at the gate.
Spawn(j) ==
    /\ caller[j] = "starting"
    /\ \E t \in Threads :
          /\ pc[t] = "none"
          /\ \A u \in 1 .. t - 1 : pc[u] # "none"
          /\ pc' = [pc EXCEPT ![t] = "gated"]
    /\ UNCHANGED <<queues, startup, stop, mutex, job, expiry, caller, passed,
                   answers>>

\* All threads exist: they are let through, and the job is queued if there is
\* memory for it.
StartupSucceeds(j) ==
    /\ caller[j] = "starting"
    /\ \A t \in Threads : pc[t] = "gated"
    /\ started' = TRUE
    /\ gate' = "open"
    /\ \/ Accept(j)
       \/ j \in Refusing /\ (Refuse(j) \/ RefuseHalfWay(j))
    /\ UNCHANGED <<stop, pc, job, expiry, passed, answers>>

\* A thread or some memory is missing: the threads so far are released.
StartupFails(j) ==
    /\ caller[j] = "starting"
    /\ j \in Refusing
    /\ gate' = "abandoned"
    /\ caller' = [caller EXCEPT ![j] = "joining"]
    /\ UNCHANGED <<queues, started, stop, mutex, pc, job, expiry, passed,
                   answers>>

\* StartLocked has joined them, and Submit returns.
StartupUndone(j) ==
    /\ caller[j] = "joining"
    /\ \A t \in Threads : pc[t] \in {"none", "left"}
    /\ gate' = "closed"
    /\ pc' = [t \in Threads |-> "none"]
    /\ Refuse(j)
    /\ UNCHANGED <<started, stop, job, expiry, passed, answers>>

\* Fault: a thread does not look at proceed.
PassGateReleased(t) ==
    /\ pc[t] = "gated"
    /\ gate # "closed"
    /\ pc' = [pc EXCEPT ![t] = IF t = Timer THEN "sleeping" ELSE "checking"]
    /\ UNCHANGED <<queues, startup, stop, mutex, job, expiry, caller, passed,
                   answers>>

PassGate(t) ==
    /\ pc[t] = "gated"
    /\ gate # "closed"
    /\ pc' = [pc EXCEPT ![t] = IF gate = "abandoned" THEN "left"
                               ELSE IF t = Timer THEN "sleeping"
                               ELSE "checking"]
    /\ UNCHANGED <<queues, startup, stop, mutex, job, expiry, caller, passed,
                   answers>>

-----------------------------------------------------------------------------
(* A worker: Run and DequeueLocked.                                         *)

\* Fault: a group with jobs left keeps its place.
TurnKept(p, g) ==
    IF Len(jobs[p][g]) = 1 THEN Tail(groups[p]) ELSE groups[p]

\* The rotation after group g, its first, has been served.
Turn(p, g) ==
    IF Len(jobs[p][g]) = 1 THEN Tail(groups[p]) ELSE Append(Tail(groups[p]), g)

NextIndex(n) == (index + n) % 7

\* The n-th entry of the cycle, from the current position.
Entry(n) == PriorityCycle[((index + n - 1) % 7) + 1]

\* That entry has the first queue that is not empty.
Selects(n) ==
    /\ groups[Entry(n)] # <<>>
    /\ \A m \in 1 .. n - 1 : groups[Entry(m)] = <<>>

\* The oldest job of the first group in the queue.
Dequeue(w, n) ==
    LET p == Entry(n)
        g == Head(groups[p])
    IN  /\ Selects(n)
        /\ jobs[p][g] # <<>>
        /\ index' = NextIndex(n)
        /\ groups' = [groups EXCEPT ![p] = Turn(p, g)]
        /\ jobs' = [jobs EXCEPT ![p][g] = Tail(@)]
        /\ job' = [job EXCEPT ![w] = Head(jobs[p][g])]
        /\ bypassed' = [bypassed EXCEPT ![p] = [h \in Groups |->
                           IF h = g \/ jobs[p][h] = <<>> THEN 0 ELSE @[h] + 1]]
        /\ UNCHANGED <<hollow, torn>>

\* Fault: a stopping worker leaves although jobs are queued.
TakeUnlessStopping(w) ==
    /\ pc[w] = "checking"
    /\ mutex = "free"
    /\ stop = "running"
    /\ \E n \in 1..7 : Dequeue(w, n)
    /\ pc' = [pc EXCEPT ![w] = "operating"]
    /\ UNCHANGED <<startup, stop, mutex, expiry, caller, passed, answers>>

TakeJob(w) ==
    /\ pc[w] = "checking"
    /\ mutex = "free"
    /\ \E n \in 1..7 : Dequeue(w, n)
    /\ pc' = [pc EXCEPT ![w] = "operating"]
    /\ UNCHANGED <<startup, stop, mutex, expiry, caller, passed, answers>>

\* Dequeue reads the first job of a group that has no entry in jobs_, or an
\* empty deque.  The build may do anything then; nothing more is said of the
\* process than that this worker keeps the mutex.
DequeueNothing(w) ==
    /\ pc[w] = "checking"
    /\ mutex = "free"
    /\ \E n \in 1..7 :
          Selects(n) /\ jobs[Entry(n)][Head(groups[Entry(n)])] = <<>>
    /\ mutex' = "undefined"
    /\ UNCHANGED <<queues, startup, stop, pc, job, expiry, caller, passed,
                   answers>>

FindNoJob(w) ==
    /\ pc[w] = "checking"
    /\ mutex = "free"
    /\ ~HasJobs
    /\ pc' = [pc EXCEPT ![w] = IF stop = "running" THEN "waiting" ELSE "exited"]
    /\ UNCHANGED <<queues, startup, stop, mutex, job, expiry, caller, passed,
                   answers>>

WakeSpuriously(w) ==
    /\ pc[w] = "waiting"
    /\ pc' = [pc EXCEPT ![w] = "checking"]
    /\ UNCHANGED <<queues, startup, stop, mutex, job, expiry, caller, passed,
                   answers>>

Answer(j, callback) == answers' = [answers EXCEPT ![j] = Append(@, callback)]

\* The operation returns, or throws.
Operate(w) ==
    /\ pc[w] = "operating"
    /\ Answer(job[w], "operation")
    /\ \/ /\ pc' = [pc EXCEPT ![w] = "checking"]
          /\ job' = [job EXCEPT ![w] = None]
       \/ /\ job[w] \in Throwing
          /\ pc' = [pc EXCEPT ![w] = "failing"]
          /\ UNCHANGED job
    /\ UNCHANGED <<queues, startup, stop, mutex, expiry, caller, passed>>

\* on_failure, whatever becomes of it.
ReportFailure(w) ==
    /\ pc[w] = "failing"
    /\ Answer(job[w], "failure")
    /\ pc' = [pc EXCEPT ![w] = "checking"]
    /\ job' = [job EXCEPT ![w] = None]
    /\ UNCHANGED <<queues, startup, stop, mutex, expiry, caller, passed>>

-----------------------------------------------------------------------------
(* The timer: ExpireQueued and RemoveExpired.                               *)

\* Fault: every queued job counts as expired.
AllQueued == {j \in Jobs : Queued(j)}

Due == {j \in Jobs : Queued(j) /\ passed[j]}

\* std::remove and erase: the entries of q that are not in G, in their order.
Purged(q, G) ==
    LET kept  == {k \in DOMAIN q : q[k] \notin G}
        order == CHOOSE f \in Bijection(1 .. Cardinality(kept), kept) :
                    \A i, k \in DOMAIN f : i < k => f[i] < f[k]
    IN  [i \in DOMAIN order |-> q[order[i]]]

HollowGroups(p) == {g \in Groups : <<p, g>> \in hollow}

\* One turn of the loop around wait_for(1ms), which reads the clock once.  The
\* entries with an empty deque go, with their groups; the expired jobs follow
\* one by one.  A turn that finds nothing changes nothing.
BeginSweep ==
    /\ pc[Timer] = "sleeping"
    /\ mutex = "free"
    /\ \/ /\ stop # "running"
          /\ pc' = [pc EXCEPT ![Timer] = "exited"]
          /\ UNCHANGED <<groups, hollow, mutex, due>>
       \/ /\ stop = "running"
          /\ Due # {} \/ hollow # {}
          /\ groups' = [p \in Priorities |-> Purged(groups[p], HollowGroups(p))]
          /\ hollow' = {}
          /\ due' = Due
          /\ IF Due = {}
             THEN UNCHANGED <<mutex, pc>>
             ELSE mutex' = "timer" /\ pc' = [pc EXCEPT ![Timer] = "erasing"]
    /\ UNCHANGED <<jobs, torn, index, bypassed, startup, stop, job, sweep, caller,
                   passed, answers>>

\* Fault: an expired job stays in its deque.
StillThere(s, j) == s

Without(s, j) == RemoveFirst(s, j)

\* The turn of RemoveExpired's loops that meets j, in the order of a hash
\* table.  A group whose last job expired leaves the rotation.  The critical
\* section ends with the last of them.
EraseExpired(j) ==
    LET p == Priority[j]
        g == Group[j]
        rest == Without(jobs[p][g], j)
    IN  /\ pc[Timer] = "erasing"
        /\ j \in due
        /\ jobs' = [jobs EXCEPT ![p][g] = rest]
        /\ groups' = [groups EXCEPT ![p] = IF rest = <<>> THEN Purged(@, {g})
                                           ELSE @]
        /\ due' = due \ {j}
        /\ sweep' = sweep \cup {j}
        /\ IF due = {j}
           THEN mutex' = "free" /\ pc' = [pc EXCEPT ![Timer] = "calling"]
           ELSE UNCHANGED <<mutex, pc>>
        /\ UNCHANGED <<hollow, torn, index, bypassed, startup, stop, job,
                       caller, passed, answers>>

\* on_expired of one of the removed jobs, outside the mutex.
CallExpired(j) ==
    /\ pc[Timer] = "calling"
    /\ j \in sweep
    /\ Answer(j, "expired")
    /\ sweep' = sweep \ {j}
    /\ pc' = [pc EXCEPT ![Timer] = IF sweep = {j} THEN "sleeping" ELSE "calling"]
    /\ UNCHANGED <<queues, startup, stop, mutex, job, due, caller, passed>>

-----------------------------------------------------------------------------
(* The clock and the destructor.                                            *)

DeadlinePasses(j) ==
    /\ j \in Expiring
    /\ ~passed[j]
    /\ passed' = [passed EXCEPT ![j] = TRUE]
    /\ UNCHANGED <<queues, startup, stop, mutex, pc, job, expiry, caller,
                   answers>>

BeginStop ==
    /\ stop = "running"
    /\ mutex = "free"
    /\ stop' = "notifying"
    /\ UNCHANGED <<queues, startup, mutex, pc, job, expiry, caller, passed,
                   answers>>

\* Fault: nobody is notified.
StopUnnoticed ==
    /\ stop = "notifying"
    /\ stop' = "joining"
    /\ UNCHANGED <<queues, startup, mutex, pc, job, expiry, caller, passed,
                   answers>>

NotifyStop ==
    /\ stop = "notifying"
    /\ stop' = "joining"
    /\ pc' = NotifyAll(pc)
    /\ UNCHANGED <<queues, startup, mutex, job, expiry, caller, passed,
                   answers>>

\* The workers are joined, then the timer.
Join ==
    /\ stop = "joining"
    /\ \A t \in Threads : pc[t] \in {"none", "exited"}
    /\ stop' = "stopped"
    /\ UNCHANGED <<queues, startup, mutex, pc, job, expiry, caller, passed,
                   answers>>

-----------------------------------------------------------------------------
Init ==
    /\ groups = [p \in Priorities |-> <<>>]
    /\ jobs = [p \in Priorities |-> [g \in Groups |-> <<>>]]
    /\ hollow = {}
    /\ torn = {}
    /\ index = 0
    /\ started = FALSE
    /\ gate = "closed"
    /\ stop = "running"
    /\ mutex = "free"
    /\ pc = [t \in Threads |-> "none"]
    /\ job = [w \in Workers |-> None]
    /\ due = {}
    /\ sweep = {}
    /\ caller = [j \in Jobs |-> "idle"]
    /\ passed = [j \in Jobs |-> FALSE]
    /\ answers = [j \in Jobs |-> <<>>]
    /\ bypassed = [p \in Priorities |-> [g \in Groups |-> 0]]

\* The rest of a call of Submit that starts the threads.
StartStep(j) ==
    Spawn(j) \/ StartupSucceeds(j) \/ StartupFails(j) \/ StartupUndone(j)

WorkerStep(w) ==
    \/ PassGate(w) \/ TakeJob(w) \/ DequeueNothing(w) \/ FindNoJob(w)
    \/ Operate(w) \/ ReportFailure(w)

TimerStep ==
    \/ PassGate(Timer)
    \/ BeginSweep
    \/ \E j \in Jobs : EraseExpired(j) \/ CallExpired(j)

StopStep == NotifyStop \/ Join

Next ==
    \/ \E j \in Jobs : Submit(j) \/ StartStep(j) \/ DeadlinePasses(j)
    \/ \E w \in Workers : WorkerStep(w) \/ WakeSpuriously(w)
    \/ TimerStep
    \/ BeginStop
    \/ StopStep

Spec == Init /\ [][Next]_vars

-----------------------------------------------------------------------------
(* What must hold.                                                          *)

Callbacks == {"operation", "failure", "expired"}

\* The type invariant of ConversionScheduler's members.
TypeOK ==
    /\ groups \in [Priorities -> Seq(Groups)]
    /\ jobs \in [Priorities -> [Groups -> Seq(Jobs)]]
    /\ hollow \subseteq Priorities \X Groups
    /\ torn \subseteq Priorities
    /\ index \in 0..6
    /\ started \in BOOLEAN
    /\ gate \in {"closed", "open", "abandoned"}
    /\ stop \in {"running", "notifying", "joining", "stopped"}
    /\ mutex \in {"free", "submitter", "timer", "undefined"}
    /\ pc \in [Threads -> {"none", "gated", "left", "checking", "waiting",
                           "operating", "failing", "sleeping", "erasing",
                           "calling", "exited"}]
    /\ job \in [Workers -> Jobs \cup {None}]
    /\ due \subseteq Jobs
    /\ sweep \subseteq Jobs
    /\ caller \in [Jobs -> {"idle", "starting", "joining", "accepted", "refused"}]
    /\ passed \in [Jobs -> BOOLEAN]
    /\ answers \in [Jobs -> Seq(Callbacks)]
    /\ bypassed \in [Priorities -> [Groups -> Nat]]

\* Whatever fails, groups_ lists every group with jobs, so none of them is
\* forgotten, and each job is in the deque of its own group, once.  As long as
\* no Enqueue has failed half way, groups_ lists nothing else and nothing
\* twice: a group gets one turn in each round whatever it submits, and no
\* worker dequeues from a group without jobs.
RotationMatchesJobs ==
    /\ \A p \in Priorities, g \in Groups :
          /\ jobs[p][g] # <<>> => \E k \in DOMAIN groups[p] : groups[p][k] = g
          /\ \A k, m \in DOMAIN jobs[p][g] :
                jobs[p][g][k] = jobs[p][g][m] => k = m
          /\ \A k \in DOMAIN jobs[p][g] :
                Priority[jobs[p][g][k]] = p /\ Group[jobs[p][g][k]] = g
    /\ \A p \in Priorities \ torn :
          /\ \A k, m \in DOMAIN groups[p] : groups[p][k] = groups[p][m] => k = m
          /\ \A k \in DOMAIN groups[p] : jobs[p][groups[p][k]] # <<>>
    /\ mutex = "undefined" => torn # {}

\* The claim that a submission refused for lack of memory leaves the scheduler
\* fit for the next one: every turn of a worker finds a job.  It fails once an
\* Enqueue has failed half way.
DequeueFindsJob == mutex # "undefined"

HeldBy(j) == {w \in Workers : job[w] = j}

Busy(j) == HeldBy(j) # {}

\* A job is in at most one place: a queue, one worker's hands or the timer's.
\* An accepted job stays in such a place until it has been answered, and it is
\* answered in one way: its operation ran, followed by the failure callback if
\* it threw, or it expired and its operation never runs.  A job that was not
\* accepted is nowhere and never answered.
OneAnswer ==
    \A j \in Jobs :
        /\ \A u, w \in HeldBy(j) : u = w
        /\ ~(Queued(j) /\ Busy(j))
        /\ ~(Queued(j) /\ j \in sweep)
        /\ ~(Busy(j) /\ j \in sweep)
        /\ LET waits == Queued(j) \/ Busy(j) \/ j \in sweep
           IN  \/ caller[j] # "accepted" /\ ~waits /\ answers[j] = <<>>
               \/ caller[j] = "accepted" /\ waits /\ answers[j] = <<>>
               \/ /\ caller[j] = "accepted"
                  /\ \E w \in HeldBy(j) : pc[w] = "failing"
                  /\ answers[j] = <<"operation">>
               \/ /\ caller[j] = "accepted" /\ ~waits
                  /\ answers[j] \in {<<"operation">>, <<"operation", "failure">>,
                                     <<"expired">>}

\* Threads are all started or none: none is past the gate unless the start
\* succeeded, and a failed start leaves no thread behind once the mutex is free.
AllOrNoThreads ==
    /\ ~started => \A t \in Threads : pc[t] \in {"none", "gated", "left"}
    /\ ~started /\ mutex = "free" => \A t \in Threads : pc[t] = "none"
    /\ started => \A t \in Threads : pc[t] \notin {"none", "left"}

\* While a group waits in a priority, the others are served before it no more
\* often than there are others: a large batch cannot delay a single conversion.
\* A queue in which an Enqueue has failed half way may list a group twice.
RotationIsFair ==
    \A p \in Priorities \ torn, g \in Groups : bypassed[p][g] < Cardinality(Groups)

-----------------------------------------------------------------------------
\* How a callback, the last one, ends a conversion.
Ending == [operation |-> "done", failure |-> "failed", expired |-> "expired"]

\* What the caller of Submit may know of a job.
Status(j) ==
    CASE caller[j] = "refused" -> "refused"
      [] caller[j] \in {"idle", "starting", "joining"} -> "idle"
      [] caller[j] = "accepted" /\ Busy(j) -> "running"
      [] caller[j] = "accepted" /\ ~Busy(j) /\ answers[j] = <<>> -> "queued"
      [] OTHER -> Ending[Last(answers[j])]

Promise == INSTANCE Admission WITH
    Limit <- MaximumActive, status <- [j \in Jobs |-> Status(j)]

\* The scheduler does only what Admission allows: at most MaximumActive
\* conversions at once, none before it was accepted, none after it expired, and
\* none expires before its deadline.
ImplementsAdmission == Promise!Spec

-----------------------------------------------------------------------------
(* Liveness.  Threads are scheduled and get the mutex in the end, and the   *)
(* operations and callbacks return.  Deadlines, exceptions, failed starts,  *)
(* submissions and the destructor need not happen.                          *)

FairSpec ==
    /\ Spec
    /\ \A j \in Jobs : WF_vars(StartStep(j))
    /\ \A w \in Workers : WF_vars(WorkerStep(w))
    /\ WF_vars(TimerStep)
    /\ WF_vars(StopStep)

\* A submission that was accepted is answered, also when the process exits
\* meanwhile: the workers drain the queues first.  Only a worker that dequeues
\* from a group without jobs, left by an Enqueue without memory, ends this.
AcceptedIsAnswered ==
    \A j \in Jobs :
        caller[j] = "accepted" ~>
            \/ answers[j] # <<>> /\ ~Busy(j)
            \/ mutex = "undefined"

\* The destructor's joins end, but for such a worker.
StopEnds == stop # "running" ~> stop = "stopped" \/ mutex = "undefined"
=============================================================================
