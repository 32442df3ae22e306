# A verification project for flutter-jxl-coder

This directory holds TLA+ specifications of the logic that flutter-jxl-coder adds
around libjxl: the native thread pool that all conversions share, the admission queues,
the method calls and batches, the path conversions and the codec loops above it.  TLC checks the
specifications on small instances; TLAPS checks proofs about them for every value of
their constants.

## 1. The system

An application asks, through Dart, for images to be converted between JPEG and JPEG XL.

```
 Dart API ── method channel ──► platform plugin (Windows C++ / Apple Swift)
                                   │  MethodCalls, BatchCompletion
                                   ▼
                                ConversionScheduler      one per plugin: admission
                                   │  at most N conversions at once, 3 priorities,
                                   │  rotation between request groups, expiry in queue
                                   ▼
                                path conversion / codec  EncodeJpeg, ReconstructJpeg
                                   │  deadline checks, output growth
                                   ▼
                                libjxl ── JxlParallelRunner ──► SharedParallelScheduler
                                                               one per process: chunks,
                                                               lanes, worker threads
```

### Components

| Component | State | Operations | Must be right | Module |
|---|---|---|---|---|
| **Shared parallel runner** `shared_parallel_runner.cc` `Impl` | `Invocation` objects, `ready_` deques, `last_group_`, `cycle_index_`, `stopping_`, worker threads | `Run`, `WorkerLoop`, `TakeWorkLocked`, `CompleteChunk`, the `...Locked` helpers, `~Impl` | each value at most once, all of them on success; no lane shared; nothing runs after `Run` returned; every `Run` returns; destruction ends; 4:2:1 shares, no starvation | `SharedRunner`, `ParallelFor`, `SharedRunnerService`, `SharedRunnerNested` |
| **Global scheduler** same file, 375-463 | the configuration, `std::unique_ptr` to the pool, started flag | `ConfigureSharedParallelScheduler`, `GlobalScheduler`, `SharedParallelRunner`, start-up rollback, sequential fallback | one pool; a configuration is never changed once the pool runs; a failed start leaves nothing behind | `SchedulerConfig` |
| **Windows admission** `jxl_coder_plugin.cpp` 103-460 | three priority queues of groups, `jobs_`, workers, expiry timer, `stopping_`, start gate | `Configure`, `Submit`, `StartLocked`, `DequeueLocked`, `Run`, `ExpireQueued`, destructor | each submission answered exactly once; at most N at once; expired jobs never run late; destruction ends | `AdmissionWindows`, `Admission`; `Configure` in `SchedulerConfig`, `MakeGroup` in `MethodCalls` |
| **Apple admission** `JxlCoderPlugin.swift` 52-305 | the same queues on one serial dispatch queue, `active`, job timers by id | `configure`, `submit`, `dequeue`, `drain`, expiry | as above; no capacity is lost; a timer touches its own job only | `AdmissionApple`, `Admission`; `configure` in `SchedulerConfig` |
| **Method calls and batches** (both plugins) | `BatchCompletion`: outcomes, remaining, replied | `HandleValueMethodCall`, `ScheduleBatch`, `Finish` | one reply per call; the reported failure is the first of the input order; after the last image | `MethodCalls` |
| **Path conversion** (both plugins) | temporary file, output file, security scopes | `EncodePath`, `InversePath`, `WriteFileBytes` | no partial output, no leftover, balanced scopes, timeouts only when due | `Conversion`, `AtomicConversion` |
| **Codec** `jxl_codec.cc`, `deadline_utils.h` | `OutputBuffer`, sticky cancellation flag | `EncodeJpeg`, `ReconstructJpeg`, `Grow` | used bytes kept, limit respected, a cancelled call times out | `Codec` |
| Objective-C bridge, Dart API | none | argument checks, error translation | a `Duration` keeps its meaning | partly, in `Conversion` and `SchedulerConfig` |
| libjxl, example application, packaging | | | third-party, user interface | not modelled |

### Which behaviours are hard

* **Threads in the pool.** Callers of `Run` and workers share one mutex and two condition
  variables.  Selection, chunk completion, cancellation by the caller (every millisecond)
  and destruction interleave freely; a notification is sent after the mutex is released.
* **Lifetime.** The opaque pointers that libjxl passes live on the stack of the caller of
  `Run`.  A chunk that is still running when `Run` returns is a use of a frame that is gone.
* **Deadlines.** A deadline may pass while a conversion is queued in the plugin, queued in
  the pool, half way through a chunk, after the last chunk, or between a check and the step
  it guards.
* **Fairness.** Two levels of scheduling (priorities by a 7-entry cycle, groups by rotation
  or preference), each with positions that survive from one call to the next.
* **Partial failure.** A thread that cannot be started, an exception in a callback, an image
  of a batch that cannot be submitted, a write that fails half way.

`PROJECT.json` lists every hazard at its line with the properties that would catch it.

## 2. The modules

| Modules | Model | How they compose |
|---|---|---|
| `ParallelFor` | abstract: what libjxl is promised by a runner | |
| `SharedRunner` | the pool, in full | implements `ParallelFor` |
| `SharedRunnerService` | history of selections: shares and waiting | extends `SharedRunner` |
| `SharedRunnerNested` | functions that call `Run` themselves | extends `SharedRunner` |
| `SchedulerConfig` | configuration against first use, in both kinds of schedulers; sequential fallback | a parallel run is `ParallelFor`'s promise, in one step |
| `Admission` | abstract: what a scheduler of conversions promises | |
| `AdmissionWindows` | queues, workers, timer, start gate, destructor | implements `Admission` |
| `AdmissionApple` | serial state queue, timers by number, concurrent queue | implements `Admission` |
| `MethodCalls` | calls, batches and replies on both platforms | takes `Admission`'s steps as its scheduler |
| `AtomicConversion` | abstract: what a conversion to a path promises | |
| `Codec` | both codec functions, `OutputBuffer`, `SaturatingDeadline` | |
| `Conversion` | operations on both platforms, files, scopes, deadlines, a crash | extends `Codec`, implements `AtomicConversion` |

`MC...` modules give the constants their values for TLC.  The proofs are in `QueueLemmas`,
`SharedRunnerProofs`, `SharedRunnerServiceProofs`, `SchedulerConfigProofs`,
`AdmissionWindowsProofs`, `AdmissionAppleProofs`, `MethodCallsProofs` and `ConversionProofs`
(section 8).

The levels are joined by their abstract specifications: what a lower level is shown to
implement is what the level above takes for granted.  `SharedRunner` implements `ParallelFor`,
whose promise is one step of `SchedulerConfig`.  Both schedulers implement `Admission`, whose
steps are those of `MethodCalls`' scheduler; what that module's fairness adds, that waiting
conversions are started, is what the liveness properties of the two schedulers say (on Windows, until
a worker dequeues from a group without jobs, section 5).

## 3. The shared parallel runner

### How the model corresponds to the code

Each critical section is one action, guarded by `mutex = None`.  What happens outside the
mutex (the notification after it is released, the calls of libjxl's function, the checks
before `Run` locks) is an action of its own.  `TakeWorkLocked` alone keeps the mutex over
several steps, one for each turn of its loop: it calls the cancellation callback, whose
answer can change between two turns.

| Code | Model |
|---|---|
| `Run` up to the lock: arguments, cancellation, `init`, empty range | `Enter` |
| `Run`: `stopping_` check, new `Invocation`, `QueueLocked` | `Submit` |
| `Run`: `notify_one` after unlocking | `Notify` |
| `Run`: one turn around `wait_for(1ms)`, the result | `Poll` |
| `WorkerLoop`: the predicate of `wait` | `CheckWork`, `WakeSpuriously` |
| `TakeWorkLocked`: one turn, with `SelectPriorityLocked` and the group preference | `Dispatch` (a chunk), `Discard` (a `continue`), `TakeNothing` |
| `WorkerLoop`: the loop over the chunk | `CallFunction`, `EndChunk` |
| `CompleteChunk` with its `notify_all` | `CompleteChunk` |
| `~Impl`: flag, `notify_all`, joins | `BeginStop`, `NotifyStop`, `Join` |
| `DeadlineCancelled` (sticky) | `Expire` |

State: `inv[i]` has `next`, `busy`, `active`, `queued`, `cancelled`, `failed`, `completed`
for `next_value`, `lane_busy`, `active_chunks` and the flags; `ready`, `lastGroup` and
`cycleIndex` are the deques, `last_group_` and `cycle_index_`; `pc` and `chunk` say where each
worker is; `caller` where each caller is; `called` is history.

Abstracted: ranges begin at 0 and a value is its offset in the range; the sum at line 268 is
computed in 64 bits by the code and over the natural numbers here.  One `Run` is one
invocation; a second `Run` of the same thread is another.  An exception in the function and
its capture are `threw`.  `notify_one` wakes any one waiting worker; the caller's own
condition variable is not modelled, since `Poll` may happen at any time (the 1 ms timeout).

### What the runs check

| Run | Question | Instance |
|---|---|---|
| `runner_safety` | Are lanes, values, queues and wakeups right? | 2 workers; 3 calls of 5, 1 and 1 values; chunks of 2; two groups in one priority, a third call in another; the long call may expire and throw, one may be refused |
| `runner_liveness` | While the pool may be destroyed: does it do only what `ParallelFor` allows, does every `Run` return, even if functions hang, and does the destructor end? | 2 workers; 2 calls of 2 and 1 values; one may expire and throw; the pool may be destroyed |
| `runner_service` | Are the shares 4:2:1, is the passing over bounded, and does the preference for another group starve anyone? | 1 worker; 5, 2 and 2 values in the three priorities, with three calls of two groups in the middle one; one may expire |
| `nested_runs_exhaust_pool` | May functions call `Run` on the pool that runs them? | 2 workers, two nesting calls; expected violation, see section 9 |

The properties, by what they rule out:

* `LanesMatchWorkers`: a lane shared by two workers, a lane never given back, a counter of
  active chunks that disagrees with the chunks.
* `NoWorkAfterReturn`: a chunk in flight whose `Run` has returned.
* `EveryValueOnce`: a value called twice, or success with a value not called.
* `QueuesHoldWork` and `NoWorkForgotten`: together, an invocation is queued exactly when it
  has a value and a lane to give.
* `NoLostWakeup`: everyone asleep while there is work.  Workers notify one another when they
  requeue an invocation, which is why one notification for each `Run` is enough.
* `ImplementsParallelFor`: any step that libjxl is not promised.
* `RunReturns`, `StopEnds`, `ExpiredRunReturnsUnaided`: hangs.
* `PriorityBypassBounded`, `WeightedShares`, `QueueWaitBounded`: starvation.  The bounds are
  exact: smaller ones are violated.

Why these bounds are enough: two workers are the fewest that can share an invocation, race
for a queue and sleep while the other works.  Three calls are the fewest for which a queue
holds two groups while another priority also has work.  A range of five values in chunks of
two has full chunks on both lanes with work left over, and a last chunk that is cut short.
One worker suffices for the shares, because selections happen one at a time under the mutex;
five, five and two chunks of one value fill a whole turn of the cycle with all queues busy.
`runner_service` lets calls enter and leave `Run` one at a time (`OneAtATime`, a state
constraint that keeps the run small).  A call still arrives or leaves between any two steps of
the worker, which is all that the counters can tell; what is cut off is several callers standing
between `QueueLocked` and their `notify_one`, which matters for wakeups and is in the other runs.
Workers are interchangeable in `runner_safety` and declared symmetric there; the liveness runs
use no symmetry.

### Fairness

`FairSpec` assumes little: `CallersRun`, a caller in `Run` wakes at least every millisecond
(`wait_for`), so its next critical section is weakly fair; and `CriticalSectionsEnd`, a thread
that holds the mutex goes on and releases it.  Under these alone a cancelled call with nothing in
flight returns (`ExpiredRunReturnsUnaided`): workers may be stuck in a function for ever.  The
other two properties name what more they need, `PoolRuns => ...`: threads are scheduled, the
functions that libjxl passes return, and the destroying thread goes on once it began.  Spurious
wakeups, expiry, a throw, a call of `Run` and the destructor itself are never assumed to happen.
In `NestedSpec` a worker whose function calls `Run` makes that call.

Weak fairness is strictly less than what some standard mutexes give, and the properties hold
with it because no critical section waits for a state that others can take away for ever:
TLC's behaviours include every order in which the mutex can be won.

## 4. Configuration and fallback

`SchedulerConfig` has one variable for each of the two groups of settings: `native` is
`GlobalSchedulerState` (with `pool`, the size of the pool it points to, 0 if there is none) and
`admission` the plugin's `requested_*`, `effective_*` and `configured_` members, or those of Apple's
`ConversionScheduler`; `platform` says which.

| Code | Model |
|---|---|
| `ConversionScheduler::Configure`, Swift `configure` | `Configure` |
| `ConfigureSharedParallelScheduler` called directly | `ConfigureNative` |
| `Submit` with the settings in `StartLocked` (296-309), Swift `startIfNeeded` | `Submit` |
| `GlobalScheduler` | `EnterRunner` |
| `Run`: `init`, and what throws before the invocation is queued | `InitInRun` |
| the rest of `Run` | `RunEnds`: what `ParallelFor` promises, in one step |
| the `catch` of `SharedParallelRunner` | `InitInFallback`, `CallInFallback`, `FallbackEnds` |

Each of these holds one mutex throughout, and the plugin asks the native side once inside its
own critical section; nothing of the intermediate state is visible, so each is one action.
`Direct` conversions and `Native` calls are those of a program that also uses the native library
without the plugin, as the native tests do; the code has a branch for it (line 300 of the
plugin).  The pool's constructor is one step, all threads or none: its rollback after a failed
thread start makes the steps of the destructor, which `SharedRunner` has one by one.  Apple's
plugin differs in three places: the automatic maximum is the number of workers and not at most
four (`AutomaticMaximum`), zero workers mean those in force once there are any (`Meaning`), and it
starts no threads of its own (`Admitted`).  The second differs from what `jxl_functions.dart:12` says
of zero ("uses the platform's logical CPU count"): after `configure(2, 2)` an automatic call succeeds
on Apple's systems and is a conflict on Windows.  The model has each platform's own reading, and
no property compares the two.

`scheduler_config` checks, on a machine of six processors, five configuring calls (the defaults,
the same in numbers, something else, something invalid, and the native pool alone) against two
conversions, one admitted by the plugin and one not.  The calls ask for the same thing in two
ways, which is what the second comparison in `Configure` is for.  More processors change only
the numbers; more calls only repeat one of these five.

* `SettingsAgree`: the plugin, the native settings and the pool never disagree about the size.
* `FirstWins`: success means that the request is in force, conflict that it is not.  The order
  of the two mutexes and of the two comparisons decides this.
* `SettingsFrozen`: settings in force, and a pool, never change.
* `SuccessIsComplete`: through the pool or on the caller's thread, success means `init` and all
  values; cancellation half way through the fallback must not look like success.

All are safety properties: what the code does here waits for nobody.  `init_called_twice`, which
expects a violation, is explained in section 9.

## 5. Admission on Windows

| Code | Model |
|---|---|
| `Submit` | `Submit`: queue, refuse, or begin to start the threads |
| `StartLocked` from the gate on | `Spawn` (one thread), `StartupSucceeds`, `StartupFails`, `StartupUndone` (the joins), `PassGate` (in each thread) |
| `PriorityClassQueue::Enqueue` | `Accept`; `Refuse` and `RefuseHalfWay` when memory lacks |
| `DequeueLocked`, `PriorityClassQueue::Dequeue` | `Selects`, `Dequeue`; `DequeueNothing` from a group without jobs |
| `Run` | `TakeJob`, `FindNoJob`, `WakeSpuriously`, `Operate`, `ReportFailure` |
| `ExpireQueued`, `RemoveExpired` | `BeginSweep` (the clock is read once, empty deques go), `EraseExpired` (one job), `CallExpired` (one callback) |
| the destructor | `BeginStop`, `NotifyStop`, `Join` |

`groups` and `jobs` are the members of `PriorityClassQueue`; an absent entry of the map is an
empty deque.  `mutex` says who keeps `mutex_` over several steps: the submission that starts the
threads (it joins them with the mutex held when the start fails) or the timer.  `answers` is the
history of callbacks, `bypassed` counts how often others were served while a group waited.

`Enqueue` pushes the group into `groups_` (line 114), makes its entry in `jobs_` (115) and pushes the
job (117).  Each of the three may throw for lack of memory, and `Submit` turns the exception into a
refusal.  If the first throws, or the third while the group has jobs, nothing has changed (`Refuse`).
Otherwise the group stays in the rotation without a job (`RefuseHalfWay`), and either has an entry
with an empty deque, recorded in `hollow`, or none.  What follows is modelled as well: a later
submission of that group fills the empty deque, or, without an entry, puts the group into the rotation
a second time; the timer removes a group with an empty deque, and every occurrence of it, but never sees
one without an entry; and a worker that gets to such a group reads a job that is not there
(`DequeueNothing`).  That is undefined behaviour.  The model says nothing of what comes after: the
worker keeps the mutex, marked `"undefined"`.  `torn` is the history of the queues in which an
`Enqueue` failed half way.

Assumed: nobody submits once the statics are being destroyed; the clock does not go back; the
threads do not run out of memory (section 10).  The timer's own wait is its 1 ms period, so it needs
no notification.

`admission_windows` has two workers; a batch of two conversions and a single one in one
priority, one in another; starting threads may fail at each point of the first submission, and memory
may lack for a conversion of the batch before or in the middle of its `Enqueue`; two deadlines may
pass; an operation may throw; the process may exit at any time.

* `RotationMatchesJobs`: whatever fails, a group with jobs is in the rotation and a job in its own
  group's deque.  In a queue where no `Enqueue` failed half way, the rotation lists nothing else and
  nothing twice; and no worker dequeues from a group without jobs unless one failed so.
* `OneAnswer`: each accepted job is in one place until it is answered, and is answered in one
  way; a job not accepted is never answered.
* `AllOrNoThreads`: a failed start leaves no thread, and no thread passes the gate early.
* `RotationIsFair`: a waiting group is passed over at most once by each other group, in every queue
  where no `Enqueue` failed half way (a group listed twice is served twice).
* `ImplementsAdmission`: any step that `Admission` does not allow, such as a third conversion at
  once, an operation after expiry, an expiry before the deadline.
* `AcceptedIsAnswered`, `StopEnds`: hangs, among them a mutex that is never given back.  Both allow
  for the one end nobody can answer for, a dequeue from a group without jobs.

`enqueue_half_way` has the same instance and asks for what the tests claim, that a submission refused
for lack of memory leaves the scheduler fit for work (`DequeueFindsJob`); section 9 says how it fails.

Two workers are the fewest that can race for a job and leave the timer a third party; three jobs
in two groups are the fewest for which rotation matters, and the fourth makes the other priority
interfere.  The 4:2:1 cycle is the same table and the same walk as the pool's, whose shares
`runner_service` checks; here it is modelled but not counted.

Fairness: threads are scheduled and the mutex is not denied for ever (`WorkerStep`, `TimerStep`,
`StartStep`), and the destroying thread goes on once it began (`StopStep`).  That operations
return is part of `WorkerStep`; the codec's calls end because libjxl's do.  Submissions,
deadlines, exceptions, failures to start and the destructor are never assumed to happen.

## 6. Admission on Apple's systems

The Swift scheduler keeps its state on a serial dispatch queue, so that there is no mutex and
no thread of its own.  What interleaves is the order of blocks: submissions, timers and ends of
conversions arrive in `stateQueue` in any order, and a conversion may end between two turns of
`drain`.

| Code | Model |
|---|---|
| `submit` | `Submit` (the caller), `Accept` (its block, up to `drain`) |
| `PriorityClassQueue.enqueue`, the job's number, `asyncAfter` | `Enqueue` |
| the timer | `DeadlinePasses`, `TimerFires` (its block is sent), `Expire` (it is executed) |
| `drain` | `DrainTurn` with `Turn`, `DrainEnds` |
| the blocks of `executionQueue` | `Execute` |
| the `defer` of an operation | `Finished` |

`admission_apple` lets one conversion run at a time, so that queues fill; four jobs of two
requests share five numbers, so that numbers wrap around while timers of earlier jobs are still
due; two jobs have deadlines, and one may find that the native pool cannot be configured.

* `CapacityUsed`: `active` counts exactly the conversions not known to have ended, and the state
  queue never rests while there is both room and work.  There is no other moment at which a
  waiting job could be started, so capacity that is lost once is lost for good.
* `RotationMatchesJobs`: as on Windows, and queued jobs have different numbers.
* `ImplementsAdmission`: a timer removes only its own job, however old the timer is.
* `SubmittedIsAnswered`: if conversions end, each submission is answered.
* `ExpiredLeavesQueue`: a job whose deadline passes is answered or runs, even if the conversion
  that keeps it waiting never ends.

Fairness: the dispatch queues execute their blocks and timers fire (`StateStep`, `TimerFires`,
`Execute` of failure reports).  That conversions end is not part of `FairSpec`; it is the premise
of `SubmittedIsAnswered`.  `IdLimit` stands for 2^64 - 1; the assumption is that there are
more numbers than jobs, so that numbers wrap around but none is given twice: that a number could
return while a timer of its first job is still due, after 2^64 - 1 submissions, is left out.

## 7. Calls, batches and conversions

### From a call to its reply: `MethodCalls`

| Code | Model |
|---|---|
| `HandleValueMethodCall`, `handle` | `AnswerAtOnce`, `Handle` (with `MakeGroup`), `LoopThrows` |
| the loop of `ScheduleBatch`; `run`, `runBatch` | `SubmitImage` (one image), `Admit` (Apple, later) |
| the operations with `CompleteSingle`, `on_failure`, `on_expired`, `onFailure` | `EndOperation`, `Callback` |
| `BatchCompletion` | `Finish`, `Complete`, `Verdict`, `FirstFailure` |
| `SafeSuccess`, `SafeError`; `DispatchQueue.main.async` | `Reply`, `Deliver` |

`method_calls` has a batch of two whose submissions may be refused and whose operations may throw,
a single call with a deadline, a batch that memory may lack for, and a call that is answered at
once, two conversions at a time, on both platforms, with group numbers that wrap around.

* `OneReply`: operation, failure callback and expiry of several images on several threads, one
  reply.
* `ReplyIsVerdict`: not before the last image has ended, with the first failure in the order of the
  input, `success` only if there is none.  Calls that memory lacks for are excluded: the Windows
  plugin answers those while conversions of the same batch still run (`LoopThrows`), unlike
  `jxl_functions.dart:133` says ("All scheduled conversions finish before an error is reported").
* `GroupsDistinct`: calls in progress have groups of their own, so that the rotations of the
  schedulers tell them apart, also where the number wraps around past 0.  There are more group
  numbers than calls (`GroupLimit`), so none is given twice.
* `EveryCallIsAnswered`, under `WF` for the platform thread and each image's next step.

### A conversion: `Conversion` and `Codec`

| Code | Model |
|---|---|
| `EncodePath`, `InversePath`; the operations in `handle` | `Begin`, `Check`, `Read`, `Recheck`, `CallCodec`, `Converted`, `Succeed` |
| `withJxlSecurityScopedAccess` with its `defer` | `OpenScope`, `Answer` |
| `MappedFile` | `Read` |
| `WriteFileBytes`; `Data.write(.atomic)` | `CreateTemp` (one name), `Fill`, `Move`; `WriteAtomic` |
| `RemainingTimeout`; `monotonicDeadline`, `remainingTimeout`; Dart's `_timeoutMilliseconds` | `Remaining`, `Deadline`, `Limit` |
| `EncodeJpeg`, `ReconstructJpeg` up to the loop | `Call`, `Create`, `Header` |
| their loop | `Enter`, `Return`, with libjxl's part in `Returned` |
| `OutputBuffer`, `SaturatingDeadline`, `DeadlineCancelled` | `Allocate`, `Grow`, `SaturatingDeadline`, `Cancel` |
| the process dies | `Crash`, once |

A file is what it holds and who wrote it; an output is the bytes 1, 2, ..., so that a lost or a
repeated byte shows.  Time is counted in ticks, two to a millisecond in the run, because the
platforms round differently and the codec's clock starts later than the plugin's.  The clock ends
before `ClockMax`, as `time_point::max()` is never reached.

`conversion` runs an encoding from one path to another next to a decoding that replaces its
own input, or one of bytes, on both platforms; a timeout of half a millisecond for the first or
of one and a half for the second, both of which Dart sends as one, and a clock so near its end
that a late deadline saturates; a
temporary file left by a dead process at the first name; two scopes per conversion that overlap;
a failure in every step that can fail; and one crash.  The output needs one growth of the buffer
and then fits exactly.

* `ImplementsAtomicConversion`: an output path holds what it held or one complete result, and
  `success` is reported exactly when the result was put there.
* `TempsOwned`: no name is shared and no temporary file outlives its conversion, unless the
  process died or `DeleteFileW`, whose result nobody looks at, failed (`LeftTemp`).
* `ScopesBalanced`: access while files are used, none afterwards.
* `BufferHoldsOutput`: growth keeps what was written and stays within the limit.
* `CancelledIsTimeout`: rows that the runner gave up never count as a result or as an error of
  the input.
* `TimeoutsAreDue`: no timeout before the time is over, by whichever test on whichever clock, and
  a conversion with a timeout never enters the codec with 0, which would mean none.
* `EveryConversionEnds`, under `WF` for each conversion's own steps: threads run and libjxl returns.

## 8. What is proved

The theorems are about the same `Spec` as the runs and hold for every value of the constants that
the modules' named assumptions allow; TLC evaluates these assumptions in the runs.

### The shared parallel runner

The theorems are about `Spec` of `SharedRunner` and hold for every set of workers and of calls,
all ranges, priorities, groups, chunk sizes, and whichever calls expire, throw or are refused.
The only assumption is `SharedRunnerAssumption`: finitely many workers, at least one; `None` is
neither worker nor call; ranges and groups are natural numbers, priorities 0 to 2, chunks at
least 1.  TLC evaluates it in every run.

| Theorem (`SharedRunnerProofs`) | Says |
|---|---|
| `RunnerInvariant` | `Spec => []RunnerInv`, the inductive invariant |
| `TypeCorrect` | `Spec => []TypeOK`: in particular the cycle index stays inside the cycle |
| `LanesAreExclusive` | `Spec => []LanesMatchWorkers` |
| `NothingOutlivesRun` | `Spec => []NoWorkAfterReturn` |
| `ValuesHandedOutOnce` | `Spec => []EveryValueOnce` |
| `QueuesAlwaysHoldWork` | `Spec => []QueuesHoldWork` |
| `WorkNeverForgotten` | `Spec => []NoWorkForgotten` |
| `WakeupsNeverLost` | `Spec => []NoLostWakeup` |
| `RunnerImplementsParallelFor` | `Spec => ImplementsParallelFor`: the refinement |

The three safety properties are not inductive by themselves.  That no chunk outlives `Run`
needs that `completed` is set only when no lane is in use, which needs that `active` counts the
chunks; that a value is never owed twice needs that every chunk lies below `next`; that success
means a complete range needs that each value below `next` was called or is owed unless a chunk
was interrupted.  `RunnerInv` therefore conjoins

* `TypeOK`;
* `ChunksBelowNext`: chunks in flight lie below `next_value`, which never passes `end_value`;
* `LanesMatchWorkers`, `NoWorkAfterReturn`, `EveryValueOnce`;
* `ValuesAccountedFor`: below `next`, everything was called or is owed, unless interrupted;
* `CompletionIsFinal`: a completed invocation has no active chunk and a reason to be complete;
* `QueuedRunsWait`: an invocation not yet submitted is fresh, and a queue names only
  invocations whose `Run` waits or which are complete (so that a worker never takes work of a
  call that returned).

The proof has one lemma for each action.  Actions that touch no invocation share `IdleStep`; those that change one invocation
and no chunk share `InvocationStep`; those that change a chunk share `ChunkStep`.  `QueueLemmas`
holds what is needed of `RemoveAt`, `RemoveFirst` and `Append` on the queues: who is in them, in
which order, and who is ahead of whom (`AheadIn`).

The queues need more, `QueueInv`: `QueuesMatch`, a deque lists the flagged invocations of its
priority, each once; and `FlagsExact`, while `Run` waits the flag says precisely that there is a
value and a lane to give.  `NoWorkForgotten` and half of `QueuesHoldWork` are the two directions
of `FlagsExact`.  `NoLostWakeup` is inductive on top of them: the step that fills an empty queue
is either `Submit`, which leaves a notification due, or one of a worker, which looks at the queues
next or passes the notification on.

For the refinement, each action maps to one step of `ParallelFor` or to a stutter: `Dispatch`
lends a lane, `CompleteChunk` gives it back, `CallFunction` calls, `Enter` begins, `Submit` and
`Poll` return or stutter.  That an error has a reason needs `CancelledByCaller`, an invariant of
its own: an invocation is cancelled only if its deadline had passed.

### How fairly the pool serves its queues

`SharedRunnerServiceProofs`, about `ServiceSpec`.  Its only further assumption,
`ServiceAssumption`, is that the calls of a period are finitely many; the first two theorems do
not use it.

| Theorem | Says |
|---|---|
| `BypassIsBounded` | `ServiceSpec => []PriorityBypassBounded` |
| `SharesAreWeighted` | `ServiceSpec => []WeightedShares` |
| `WaitIsBounded` | `ServiceSpec => []QueueWaitBounded` |

`ServiceSpec` implies `Spec` (`ServiceIsScheduler`), so that everything proved of the pool may be
used.  The first two come from where the scan of the cycle stands.  `BypassInv`: of the entries
just behind the scan, as many as `passed[p]` counts are not `p`; since each priority comes at its
distance in any turn of the cycle, from any position (`EveryPriorityComes`), the count stays below
that distance.  It is enough that a scan goes by at least one entry per selection; that it goes by
several when queues are empty only helps.  `SharesInv`: while all queues are busy the priorities
served are the entries behind the scan, one by one, so seven of them are one turn
(`TurnOfCycle`).

`WaitIsBounded` needs a measure that every selection in a queue lowers for everyone it passes
over.  The place in the queue is none: the first invocation of another group is taken, so one that
joined later may overtake.  `Delay` counts the invocations ahead of `i` that are of its group
twice, since each may be followed by one of another group, those of other groups once, and one
more when `i`'s group was served last and nobody of another group is ahead, since one that joins
behind `i` is then taken first.  If `i` has no other group beside it, only its place counts.
`DelayDrops` shows that serving anybody else lowers it, `DelayShrinks` that joining and
leaving never raise it, `DelayBound` that it never exceeds `2m - 3`, whoever is in the queue; `WaitInv`,
that `waited[i]` and `Delay` together stay within the limit, is the inductive invariant.

### Configuration

The theorems of `SchedulerConfigProofs` are about `Spec` of `SchedulerConfig`, for every number of
processors from 1 to 256, all requests, and whichever conversions meet a failure or a deadline
(`ConfigAssumption`, evaluated in both of its runs).

| Theorem | Says |
|---|---|
| `ConfigInvariant` | `Spec => []ConfigInv`, the inductive invariant |
| `SchedulersAgree`, `FirstCallWins`, `NoPartialSuccess` | the three safety properties |
| `SettingsNeverChange` | `Spec => SettingsFrozen` |

`FirstWins` needs `SettingsOfRequest` (a repetition may be recognised by its numbers, so those
must be the ones in force) and `SettingsAgree`; `SuccessIsComplete` needs `RunsFollowInit` (no
value is called before a parallel run or its fallback begins).  The proof first shows that every
step does one of four things to the settings (`StepOfSettings`) and that each of the four keeps
what is in force (`SettingsStepEffect`); answers given earlier then stay right (`AnswersStay`) and
a new one is right (`AnswersRight`).

### Admission on Windows

`AdmissionWindowsProofs`: for any finite set of request groups and of jobs, any number of threads
and any job that may expire, throw or be refused (`AdmissionAssumption`).

| Theorem | Says |
|---|---|
| `SchedulerInvariant` | `Spec => []SchedulerInv`, the inductive invariant |
| `RotationAlwaysMatches`, `ThreadsAllOrNone`, `AnswersAreOne` | `RotationMatchesJobs`, `AllOrNoThreads`, `OneAnswer` |
| `SchedulerImplementsAdmission` | `Spec => ImplementsAdmission`: the refinement |
| `RotationAlwaysFair` | `Spec => []RotationIsFair` |

`SchedulerInv` conjoins `TypeOK`; `RotationInv`, that in each queue every group with jobs or with an
empty deque is in the rotation (`RotationOf`) and, where no `Enqueue` failed half way, nothing else
is (`SoundRotation`); `UndefinedInv`, that a dequeue without a job needs such a failure; `ThreadInv`, who
keeps the mutex and which threads exist in which state of the gate; `QueuedInv`, that what the
timer has found is still queued while it keeps the mutex; and `JobInv`, that each job is at
exactly one of six places, which fixes everything else about it.  `OneAnswer` by itself says
nothing of the mutex, without which the timer and a worker could take the same job.  The limit in
`Admission` follows by counting: each running job is in the hands of its own worker.

`RotationIsFair` needs `FairInv`: what a group has waited plus its place in the rotation
never exceeds the number of groups, in the queues whose rotation is sound.  A turn moves the others
up by one and counts one; nothing else moves a waiting group back.

### Admission on Apple's systems

`AdmissionAppleProofs`: for any requests and any finite set of jobs, any maximum, any job that
expires or whose pool cannot be configured, and blocks in any order (`AppleAssumption`; in
particular there are more numbers than jobs).

| Theorem | Says |
|---|---|
| `AppleInvariant` | `Spec => []AppleInv`, the inductive invariant |
| `RotationAlwaysMatches`, `CapacityAlwaysUsed` | `RotationMatchesJobs`, `CapacityUsed` |
| `SchedulerImplementsAdmission` | `Spec => ImplementsAdmission`: the refinement |

`AppleInv` conjoins `TypeOK`; `RotationInv`, that rotation and arrays agree; `NumbersInv`, that the
numbers given are the latest ones before `nextJob`, around the end of the range if need be, and
so different; `BlocksInv`, which timers and blocks there can be; `PlaceInv`, that a submission is
at one of six places, from the caller to its answer; and `CapacityUsed`.  That a timer removes only
its own job rests on `NumbersInv`: `Expire` looks for a number, and no other queued job has it.
`CapacityUsed` is inductive with these: `active` changes only where a conversion is handed over or its
end is taken note of, and each step that makes room or adds work begins a `drain`.

### Calls and batches

`MethodCallsProofs`: for any finite set of calls and batches of any size, with any refusal,
exception, expiry and lack of memory, on both platforms (`CallsAssumption`; in particular there
are more group numbers than calls).

| Theorem | Says |
|---|---|
| `CallsInvariant` | `Spec => []CallsInv`, the inductive invariant |
| `EveryCallHasOneReply`, `RepliesAreVerdicts`, `GroupsStayDistinct` | `OneReply`, `ReplyIsVerdict`, `GroupsDistinct` |
| `CallsUseAdmission` | `Spec => Scheduler!Spec`: whatever the calls do, their scheduler does only what `Admission` allows |

`OneReply` counts replies, and nothing in it says why a second one cannot come: `Finish` replies when
the last result arrives, so the argument needs that each image brings one result (`ImageInv`: a
result is there exactly if the image is over), that results which arrived stay, and that a reply
sent is the verdict of a complete set of results (`AnswerInv`), or that of a call which left its
loop for lack of memory and never completes (`Abandoned`).  `ProgressInv` says how far the loop
has come; `OutboxInv` that of the replies on their way each is to another call.  `GroupsInv` is the same
statement about numbers as `NumbersInv`; `NumberIsFresh` in `QueueLemmas` proves it for both.
`CallsUseAdmission` joins the levels: the schedulers are shown to do what `Admission` allows, and
`MethodCalls` to be a user of any such scheduler.

### Codec and conversion

`ConversionProofs`: for any number of conversions and paths,
any lengths, limits, clock resolution, timeouts and scopes, on both platforms, with a crash at
any point (`CodecAssumption`, `ConversionAssumption`).

| Theorem | Says |
|---|---|
| `CallStepKeepsBuffer` | each step of a codec call keeps `CodecInv` |
| `ConversionInvariant` | `Spec => []ConversionInv` |
| `BufferAlwaysHoldsOutput`, `CancelledAlwaysTimesOut`, `TempsAlwaysOwned` | the invariants of that name |
| `ConversionIsAtomic` | `Spec => ImplementsAtomicConversion`: the refinement |
| `ScopesAlwaysBalanced` | `Spec => []ScopesBalanced` |
| `TimeoutsAlwaysDue` | `Spec => TimeoutsAreDue` |

`CodecInv` adds to the buffer's property that a call without a buffer has produced nothing, so
that the first buffer loses no bytes.  `ConversionInv` adds that a conversion which writes has a
successful call behind it, and with `TempsOwned` that its temporary file is its own.
`ScopesBalanced` needs `ScopeInv`: the system's count of a scope is the number of conversions that
hold it, each at most once, and a conversion past the opening holds all of its own.  `TimeoutsAreDue`
needs `TimeInv`: the end that the codec counts to is not before the plugin's own deadline, which
holds because the remaining time is rounded up on both platforms and the codec's clock starts later.


### What stays with the model checker

Every invariant and every refinement that a passing run checks is also proved, and so are the
action property `SettingsFrozen` and `TimeoutsAreDue`.  The type invariants are parts of the
inductive invariants.

Out of the prover's reach: everything under fairness (`RunReturns`, `StopEnds`,
`ExpiredRunReturnsUnaided`, `AcceptedIsAnswered`, `SubmittedIsAnswered`, `ExpiredLeavesQueue`,
`EveryCallIsAnswered`, `EveryConversionEnds`, `Reentrant`), `ENABLED`, and induction over data,
i.e. what a recursive definition computes for every input.  `RECURSIVE` operators are avoided
altogether.

## 9. What was found

`shared_parallel_runner.h:36` calls the runner "fair, re-entrant".  libjxl's own
`parallel_runner.h:113` uses that word for a runner that may be called from inside the function
it runs.  `Run` only waits (line 149) and never takes work itself, so when every worker is
inside a function that calls `Run`, nobody serves the inner calls: `nested_runs_exhaust_pool`
shows it with two workers.  Concurrent calls from different threads, which is what this library makes,
are not affected.

`parallel_runner.h:68` of libjxl says that `init` MUST be called only once, and the native tests
expect it (`jxl_codec_test.cc:334`).  `SharedParallelRunner` answers whatever `Run` throws with a
sequential run that begins with its own call of `init` (line 416).  When `Run` had called `init`
already, because `init` threw or because there was no memory for the invocation, it is called
twice: `init_called_twice`.  The fallback is otherwise sound, since `Run` throws only before it
has called any value.

`windows_scheduler_test.cc:169` says of a submission without memory that "queue allocation failures must
retain their scheduler cause", and the tests go on with the same scheduler (as after failed starts,
lines 161 and 163).  The test's hook throws at the top of `Enqueue`; a container that finds no memory
throws after line 114 has put the group into the rotation.  The submission is refused as it should
be, but the next worker to reach that group reads the front of a deque that is empty or does not
exist (lines 125 and 126): `enqueue_half_way`.  Pushing to `groups_` last, or removing the group again
when a later step throws, would be enough.

`windows_adapter_test.cc:926` expects that a batch sends "exactly one reply" and line 1076 that
unexpected exceptions are contained.  `BatchCompletion::Finish` marks the batch as replied (line
920) before it copies the code and message of the first failure (924 and 925).  If that copy finds no memory,
the exception is contained, the failure callback comes back, finds the batch replied and
returns (915): nobody ever replies.  `batch_reply_lost` shows it.

## 10. Not modelled, and why

* libjxl and the example application: third-party code that is present only as headers and
  archives, and a user interface.
* The encoding of values for the method channel, the normalisation and comparison of paths, the
  resolution of bookmarks: conversions of data without state; where they can fail, the failure is
  modelled.
* The rest of the Dart API and of the Objective-C bridge: argument checks and the wrapping of
  results.
* What the systems decide: how many threads GCD gives to a concurrent queue, the sharing rules of
  mapped files.
* Memory failures in the Windows scheduler's own threads, in `Dequeue` (line 131) or while expired jobs
  are collected (142 and 430): nothing catches them there, so the process ends, and every conversion
  with it.  Whatever follows a dequeue from a group without jobs is undefined and not described
  either.
* The widths of numbers where they cannot matter within the model: the end of a chunk (line 268) is
  a sum over the natural numbers, as the 64-bit sum of two 32-bit numbers is.

Of the 17,316 lines that are counted as the implementation, about 5,400 are the project's own
code.  The rest is libjxl's headers, which the repository holds once for each platform and slice,
and the iOS copies of the macOS sources, which are identical; a definition names the macOS file
then.  The share of lines that definitions stand for is low for this reason.

## 11. Running

`tlc -config MCSharedRunner.cfg MCSharedRunner` and the like for the other configurations;
`tlapm SharedRunnerProofs.tla` and so on for the proofs.  `PROJECT.json` lists all runs, the mutation
that shows each property can fail, and the source lines of every definition.
