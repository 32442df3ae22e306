---------------------------- MODULE AdmissionApple ----------------------------
(***************************************************************************)
(* The iOS and macOS plugin's ConversionScheduler                          *)
(* (JxlCoderPlugin.swift).                                                 *)
(*                                                                         *)
(* All of its state belongs to stateQueue, a serial dispatch queue: a      *)
(* submission, a timer and the end of a conversion are blocks in it, taken *)
(* one at a time in their order.  Conversions and failure reports are      *)
(* blocks of executionQueue, a concurrent queue, in any order.  A block of *)
(* stateQueue that makes room or work goes on to drain(), which hands      *)
(* jobs over one after the other; each turn of its loop is a step here,    *)
(* because a conversion may end, and append its block, between two turns.  *)
(***************************************************************************)
EXTENDS Integers, FiniteSets, SequencesExt

CONSTANTS
    Jobs,          \* the submissions
    Groups,        \* the request groups
    Priority,      \* Priority[j]: 0 low, 1 normal, 2 high
    Group,         \* Group[j]: the request that j belongs to
    MaximumActive, \* effectiveMaximum
    Timed,         \* jobs that have a deadline
    Refusing,      \* jobs that may find that the native pool cannot be configured
    IdLimit        \* the largest job number; UInt64.max in the code

ASSUME AppleAssumption ==
    /\ IsFiniteSet(Jobs)
    /\ Priority \in [Jobs -> 0..2]
    /\ Group \in [Jobs -> Groups]
    /\ MaximumActive \in Nat \ {0}
    /\ Timed \subseteq Jobs
    /\ Refusing \subseteq Jobs
    /\ IdLimit \in Nat \ {0, 1} /\ IdLimit > Cardinality(Jobs)

VARIABLES
    groups,   \* groups[p]: the rotation of priority p
    jobs,     \* jobs[p][g]: the jobs of group g; empty when there is no entry
    index,    \* priorityIndex
    id,       \* id[j]: the number that j got, 0 before
    nextJob,  \* nextJob
    active,   \* active
    started,  \* started
    blocks,   \* stateQueue
    draining, \* the block that stateQueue executes is inside drain()
    timers,   \* the jobs whose asyncAfter has not come due
    handed,   \* executionQueue: <<job, what is done with it>>
    sent,     \* the jobs that submit was called for
    passed,   \* passed[j]: the clock has reached j's deadline
    answers   \* history: what the block of each job did

queues == <<groups, jobs, index>>
numbers == <<id, nextJob>>
clock == <<timers, passed>>
vars == <<queues, numbers, active, started, blocks, draining, clock, handed,
          sent, answers>>

-----------------------------------------------------------------------------
Priorities == 0..2

PriorityCycle == <<2, 2, 2, 2, 1, 1, 0>>

HasJobs == \E p \in Priorities : groups[p] # <<>>

Queued(j) == \E k \in DOMAIN jobs[Priority[j]][Group[j]] :
                jobs[Priority[j]][Group[j]][k] = j

\* stateQueue.async.
Dispatch(kind, j) == blocks' = Append(blocks, [kind |-> kind, job |-> j])

\* The next block of stateQueue is of this kind and begins.
Begins(kind, j) ==
    /\ ~draining
    /\ blocks # <<>>
    /\ Head(blocks) = [kind |-> kind, job |-> j]
    /\ blocks' = Tail(blocks)

HandOver(j, what) == handed' = handed \cup {<<j, what>>}

Submit(j) ==
    /\ j \notin sent
    /\ sent' = sent \cup {j}
    /\ Dispatch("submit", j)
    /\ UNCHANGED <<queues, numbers, active, started, draining, clock, handed,
                   answers>>

\* Fault: a group enters the rotation once for each of its jobs.
EntersRotation(p, g) == TRUE

JoinsRotation(p, g) == jobs[p][g] = <<>>

\* Fault: the numbers stop at the largest.
SaturatedNumber == IF nextJob = IdLimit THEN nextJob ELSE nextJob + 1

NextNumber == IF nextJob = IdLimit THEN 1 ELSE nextJob + 1

\* Fault: one timer is kept for all jobs.
SetsFirstTimer(j) == j \in Timed /\ timers = {}

SetsTimer(j) == j \in Timed

\* The job gets a number, joins its queue and sets its timer.
Enqueue(j) ==
    LET p == Priority[j]
        g == Group[j]
    IN  /\ id' = [id EXCEPT ![j] = nextJob]
        /\ nextJob' = NextNumber
        /\ groups' = [groups EXCEPT ![p] = IF JoinsRotation(p, g)
                                           THEN Append(@, g) ELSE @]
        /\ jobs' = [jobs EXCEPT ![p][g] = Append(@, j)]
        /\ timers' = IF SetsTimer(j) THEN timers \cup {j} ELSE timers
        /\ draining' = TRUE
        /\ UNCHANGED <<index, handed, passed>>

\* The block of submit: startIfNeeded may throw, and a deadline in the past is
\* reported at once.
Accept(j) ==
    /\ Begins("submit", j)
    /\ \/ /\ ~started /\ j \in Refusing
          /\ HandOver(j, "refused")
          /\ UNCHANGED <<queues, numbers, started, draining, clock>>
       \/ /\ passed[j]
          /\ started' = TRUE
          /\ HandOver(j, "late")
          /\ UNCHANGED <<queues, numbers, draining, clock>>
       \/ /\ ~passed[j]
          /\ started' = TRUE
          /\ Enqueue(j)
    /\ UNCHANGED <<active, sent, answers>>

DeadlinePasses(j) ==
    /\ j \in Timed
    /\ ~passed[j]
    /\ passed' = [passed EXCEPT ![j] = TRUE]
    /\ UNCHANGED <<queues, numbers, active, started, blocks, draining, timers,
                   handed, sent, answers>>

TimerFires(j) ==
    /\ j \in timers
    /\ passed[j]
    /\ timers' = timers \ {j}
    /\ Dispatch("timer", j)
    /\ UNCHANGED <<queues, numbers, active, started, draining, passed, handed,
                   sent, answers>>

\* Fault: the removed job is not written back.
StillThere(s, k) == s

Without(s, k) == RemoveFirst(s, k)

\* The timer's block: whatever waits in this priority under j's number is
\* removed; nothing happens when there is no such job any more.
Expire(j) ==
    LET p == Priority[j]
        found == {k \in Jobs : Priority[k] = p /\ Queued(k) /\ id[k] = id[j]}
    IN  /\ Begins("timer", j)
        /\ \/ /\ found = {}
              /\ UNCHANGED <<groups, jobs, handed>>
           \/ \E k \in found :
                LET rest == Without(jobs[p][Group[k]], k)
                IN  /\ jobs' = [jobs EXCEPT ![p][Group[k]] = rest]
                    /\ groups' = [groups EXCEPT ![p] =
                          IF rest = <<>> THEN RemoveFirst(@, Group[k]) ELSE @]
                    /\ HandOver(k, "expired")
        /\ UNCHANGED <<index, numbers, active, started, draining, clock, sent,
                       answers>>

-----------------------------------------------------------------------------
(* drain and dequeue.                                                       *)

\* The rotation after its first group has been served.
Turn(p, g) ==
    IF Len(jobs[p][g]) = 1 THEN Tail(groups[p]) ELSE Append(Tail(groups[p]), g)

\* Fault: one conversion too many.
RoomForOneMore == active <= MaximumActive

Room == active < MaximumActive

\* The n-th entry of the cycle, from the current position, has the first queue
\* that is not empty.  The cycle contains every priority, so dequeue's second
\* loop finds nothing that the first has not.
DrainTurn ==
    /\ draining
    /\ Room
    /\ \E n \in 1..7 :
          LET entry(m) == PriorityCycle[((index + m - 1) % 7) + 1]
              p == entry(n)
              g == Head(groups[p])
          IN  /\ groups[p] # <<>>
              /\ \A m \in 1 .. n - 1 : groups[entry(m)] = <<>>
              /\ index' = (index + n) % 7
              /\ groups' = [groups EXCEPT ![p] = Turn(p, g)]
              /\ jobs' = [jobs EXCEPT ![p][g] = Tail(@)]
              /\ HandOver(Head(jobs[p][g]), "operation")
    /\ active' = active + 1
    /\ UNCHANGED <<numbers, started, blocks, draining, clock, sent, answers>>

DrainEnds ==
    /\ draining
    /\ ~Room \/ ~HasJobs
    /\ draining' = FALSE
    /\ UNCHANGED <<queues, numbers, active, started, blocks, clock, handed,
                   sent, answers>>

\* executionQueue executes a block; a conversion's goes on to stateQueue.
Execute(j, what) ==
    /\ <<j, what>> \in handed
    /\ handed' = handed \ {<<j, what>>}
    /\ answers' = [answers EXCEPT ![j] = Append(@, what)]
    /\ IF what = "operation" THEN Dispatch("finished", j) ELSE UNCHANGED blocks
    /\ UNCHANGED <<queues, numbers, active, started, draining, clock, sent>>

\* Fault: the freed capacity is not offered to the next job.
FinishedQuietly(j) ==
    /\ Begins("finished", j)
    /\ active' = active - 1
    /\ UNCHANGED <<queues, numbers, started, draining, clock, handed, sent,
                   answers>>

Finished(j) ==
    /\ Begins("finished", j)
    /\ active' = active - 1
    /\ draining' = TRUE
    /\ UNCHANGED <<queues, numbers, started, clock, handed, sent, answers>>

-----------------------------------------------------------------------------
Outcomes == {"operation", "refused", "late", "expired"}

\* The first number, or one before which the process has run for long.
Init ==
    /\ groups = [p \in Priorities |-> <<>>]
    /\ jobs = [p \in Priorities |-> [g \in Groups |-> <<>>]]
    /\ index = 0
    /\ id = [j \in Jobs |-> 0]
    /\ nextJob \in {1, IdLimit - 1}
    /\ active = 0
    /\ started = FALSE
    /\ blocks = <<>>
    /\ draining = FALSE
    /\ timers = {}
    /\ handed = {}
    /\ sent = {}
    /\ passed = [j \in Jobs |-> FALSE]
    /\ answers = [j \in Jobs |-> <<>>]

StateStep ==
    \/ \E j \in Jobs : Accept(j) \/ Expire(j) \/ Finished(j)
    \/ DrainTurn
    \/ DrainEnds

Next ==
    \/ \E j \in Jobs : Submit(j) \/ DeadlinePasses(j) \/ TimerFires(j)
    \/ \E j \in Jobs, what \in Outcomes : Execute(j, what)
    \/ StateStep

Spec == Init /\ [][Next]_vars

-----------------------------------------------------------------------------
(* What must hold.                                                          *)

Blocks(kind) == {k \in DOMAIN blocks : blocks[k].kind = kind}

Running == {j \in Jobs : <<j, "operation">> \in handed}

\* The rotation lists exactly the groups that have an entry in jobs, each once:
\* dequeue's branch for a group without jobs is never taken, and a group gets
\* one turn in each round.  Queued jobs have different numbers although the
\* counter wraps around.
RotationMatchesJobs ==
    /\ \A p \in Priorities :
        /\ \A k, m \in DOMAIN groups[p] : groups[p][k] = groups[p][m] => k = m
        /\ \A g \in Groups :
              /\ (\E k \in DOMAIN groups[p] : groups[p][k] = g)
                    <=> jobs[p][g] # <<>>
              /\ \A k, m \in DOMAIN jobs[p][g] :
                    jobs[p][g][k] = jobs[p][g][m] => k = m
              /\ \A k \in DOMAIN jobs[p][g] :
                    Priority[jobs[p][g][k]] = p /\ Group[jobs[p][g][k]] = g
    /\ \A j, k \in Jobs : Queued(j) /\ Queued(k) /\ id[j] = id[k] => j = k

\* active counts the conversions that are not known to have ended, never more
\* than the maximum; and stateQueue never turns to another block while there
\* is both room and work: no capacity is lost.
CapacityUsed ==
    /\ active = Cardinality(Running) + Cardinality(Blocks("finished"))
    /\ active <= MaximumActive
    /\ draining \/ active = MaximumActive \/ ~HasJobs

TypeOK ==
    /\ groups \in [Priorities -> Seq(Groups)]
    /\ jobs \in [Priorities -> [Groups -> Seq(Jobs)]]
    /\ index \in 0..6
    /\ id \in [Jobs -> 0..IdLimit]
    /\ nextJob \in 1..IdLimit
    /\ active \in Nat
    /\ started \in BOOLEAN
    /\ blocks \in Seq([kind : {"submit", "timer", "finished"}, job : Jobs])
    /\ draining \in BOOLEAN
    /\ timers \subseteq Jobs
    /\ handed \subseteq Jobs \X Outcomes
    /\ sent \subseteq Jobs
    /\ passed \in [Jobs -> BOOLEAN]
    /\ answers \in [Jobs -> Seq(Outcomes)]

\* What Admission sees of a job: its block tells how it ends, queued or executed.
Status(j) ==
    LET is(what) == <<j, what>> \in handed \/ answers[j] = <<what>>
    IN  IF Queued(j) THEN "queued"
        ELSE IF j \in Running THEN "running"
        ELSE IF answers[j] = <<"operation">> THEN "done"
        ELSE IF is("expired") THEN "expired"
        ELSE IF is("refused") \/ is("late") THEN "refused"
        ELSE "idle"

Promise == INSTANCE Admission WITH
    Limit <- MaximumActive,
    status <- [j \in Jobs |-> Status(j)]

\* The scheduler does only what Admission allows: at most MaximumActive
\* conversions at once, none before it was accepted, none after it expired, and
\* no timer removes a job whose own deadline has not passed.
ImplementsAdmission == Promise!Spec

-----------------------------------------------------------------------------
(* Liveness.  The dispatch queues execute their blocks and timers fire.     *)
(* That conversions end is not assumed but named where it is needed.        *)

FairSpec ==
    /\ Spec
    /\ WF_vars(StateStep)
    /\ \A j \in Jobs : WF_vars(TimerFires(j))
    /\ \A j \in Jobs, what \in Outcomes \ {"operation"} : WF_vars(Execute(j, what))

\* If conversions end, every submission is answered.
SubmittedIsAnswered ==
    (\A j \in Jobs : WF_vars(Execute(j, "operation")))
        => \A j \in Jobs : j \in sent ~> answers[j] # <<>>

\* A job whose deadline passes is answered in time by a failure, or has begun:
\* it does not wait for a conversion that never ends.
ExpiredLeavesQueue ==
    \A j \in Jobs : j \in sent /\ passed[j] ~> j \in Running \/ answers[j] # <<>>
=============================================================================
