---------------------------- MODULE SchedulerConfig ----------------------------
(***************************************************************************)
(* How the two schedulers get their settings, and what a conversion does   *)
(* when the native pool cannot be created: configure and the start of the  *)
(* plugin's ConversionScheduler, on Windows and on Apple's systems, and    *)
(* ConfigureSharedParallelScheduler, GlobalScheduler and                   *)
(* SharedParallelRunner of native/src/shared_parallel_runner.cc.           *)
(*                                                                         *)
(* Whoever comes first fixes the settings: a call of configureJxlScheduler,*)
(* the first submission, or the first use of the native pool.  Each of     *)
(* these runs under one mutex, the plugin's or the pool's, and the plugin  *)
(* asks the pool at most once in its own critical section.                 *)
(* Clients in Native and conversions in Direct are those of a program that *)
(* also calls the native library without the plugin, as its tests do.      *)
(***************************************************************************)
EXTENDS Integers, FiniteSets

CONSTANTS
    Processors,    \* AvailableProcessors()
    Clients,       \* the calls that configure
    Request,       \* Request[c]: <<workers, conversions at once>>, 0 for automatic
    Native,        \* the calls that configure the native pool directly
    Conversions,   \* the calls of SharedParallelRunner
    Direct,        \* those that the plugin did not admit
    Starved,       \* those that may meet a lack of memory or threads
    Cancelled,     \* those whose deadline may pass
    Values         \* the length of each range

ASSUME ConfigAssumption ==
    /\ Processors \in 1..256
    /\ Request \in [Clients -> Nat \X Nat]
    /\ Native \subseteq Clients
    /\ Direct \subseteq Conversions
    /\ Starved \subseteq Conversions
    /\ Cancelled \subseteq Conversions
    /\ Values \in Nat

VARIABLES
    platform,  \* "windows" or "apple", for good
    native,    \* GlobalSchedulerState; pool is the size of its pool, 0 if none
    admission, \* the plugin's settings
    outcome,   \* outcome[c]: what c's call returned, or "pending"
    phase,     \* where each conversion is
    inits,     \* inits[v]: the calls of v's init
    calls      \* calls[v]: how many values v's function was called for

vars == <<platform, native, admission, outcome, phase, inits, calls>>

-----------------------------------------------------------------------------
\* kMaximumWorkers and kAutomaticJobs.
MaximumWorkers == 256
AutomaticJobs == 4

Resolve(workers) == IF workers = 0 THEN Processors ELSE workers

\* kAutomaticJobs is a limit on Windows only.
AutomaticMaximum(workers) ==
    IF platform = "apple" \/ workers < AutomaticJobs THEN workers
    ELSE AutomaticJobs

SettingsFor(workers, maximum) ==
    <<workers, IF maximum # 0 THEN maximum ELSE AutomaticMaximum(workers)>>

\* The settings that a first request stands for.
Settings(r) == SettingsFor(Resolve(r[1]), r[2])

\* What a request asks for once there are settings: Apple's configure takes 0
\* workers to mean those in force.
Meaning(r) ==
    SettingsFor(IF platform = "apple" /\ r[1] = 0 /\ admission.configured
                THEN admission.effective[1] ELSE Resolve(r[1]), r[2])

Valid(r) == r[1] <= MaximumWorkers /\ r[2] <= MaximumWorkers

\* Fault: only a pool in use is settled.
UnusedAccepts(workers) ==
    native.pool = 0 \/ native.workers = Resolve(workers)

\* ConfigureSharedParallelScheduler: a settled pool accepts only its own size.
NativeAccepts(workers) ==
    ~native.configured \/ native.workers = Resolve(workers)

Configured(workers) ==
    [native EXCEPT !.workers = Resolve(workers), !.configured = TRUE]

Returns(c, result) == outcome' = [outcome EXCEPT ![c] = result]

ConfigureNative(c) ==
    /\ c \in Native
    /\ outcome[c] = "pending"
    /\ LET workers == Request[c][1]
       IN  \/ /\ workers > MaximumWorkers
              /\ Returns(c, "invalid")
              /\ UNCHANGED native
           \/ /\ workers <= MaximumWorkers
              /\ NativeAccepts(workers)
              /\ native' = Configured(workers)
              /\ Returns(c, "success")
           \/ /\ workers <= MaximumWorkers
              /\ ~NativeAccepts(workers)
              /\ Returns(c, "conflict")
              /\ UNCHANGED native
    /\ UNCHANGED <<platform, admission, phase, inits, calls>>

\* The plugin takes over the size that the pool has agreed to.
Adopt(r) ==
    /\ native' = Configured(r[1])
    /\ admission' = [admission EXCEPT !.configured = TRUE, !.requested = r,
                                      !.effective = Settings(r)]

\* Fault: the same numbers are needed to repeat a configuration.
SameRequest(r) == r = admission.requested

\* A repetition is recognised by its numbers or by their meaning.
Repeats(r) == r = admission.requested \/ Meaning(r) = admission.effective

Configure(c) ==
    /\ c \notin Native
    /\ outcome[c] = "pending"
    /\ LET r == Request[c]
       IN  \/ /\ ~Valid(r)
              /\ Returns(c, "invalid")
              /\ UNCHANGED <<native, admission>>
           \/ /\ Valid(r)
              /\ admission.configured
              /\ Returns(c, IF Repeats(r) THEN "success" ELSE "conflict")
              /\ UNCHANGED <<native, admission>>
           \/ /\ Valid(r)
              /\ ~admission.configured
              /\ NativeAccepts(r[1])
              /\ Adopt(r)
              /\ Returns(c, "success")
           \/ /\ Valid(r)
              /\ ~admission.configured
              /\ ~NativeAccepts(r[1])
              /\ Returns(c, "conflict")
              /\ UNCHANGED <<native, admission>>
    /\ UNCHANGED <<platform, phase, inits, calls>>

-----------------------------------------------------------------------------
(* A conversion is submitted, and libjxl calls SharedParallelRunner.        *)

Goes(v, to) == phase' = [phase EXCEPT ![v] = to]

\* Only Windows has threads of its own to start.
Admitted(v) ==
    Goes(v, "admitted")
        \/ (platform = "windows" /\ v \in Starved /\ Goes(v, "refused"))

\* StartLocked, startIfNeeded.  The settings stay when the threads cannot be
\* started.
Submit(v) ==
    /\ phase[v] = "idle"
    /\ \/ /\ ~admission.configured
          /\ ~NativeAccepts(0)
          /\ Goes(v, "refused")
          /\ UNCHANGED <<native, admission>>
       \/ /\ ~admission.configured
          /\ NativeAccepts(0)
          /\ Adopt(<<0, 0>>)
          /\ Admitted(v)
       \/ /\ admission.configured
          /\ Admitted(v)
          /\ UNCHANGED <<native, admission>>
    /\ UNCHANGED <<platform, outcome, inits, calls>>

\* Fault: using the pool does not settle its size.
NewPoolUnsettled == [native EXCEPT !.pool = native.workers]

NewPool == [native EXCEPT !.pool = native.workers, !.configured = TRUE]

\* GlobalScheduler creates the pool on first use, with all of its threads or
\* not at all.
EnterRunner(v) ==
    /\ phase[v] = "admitted"
    /\ \/ /\ native.pool = 0
          /\ native' = NewPool
          /\ Goes(v, "entered")
       \/ /\ native.pool # 0
          /\ Goes(v, "entered")
          /\ UNCHANGED native
       \/ /\ native.pool = 0
          /\ v \in Starved
          /\ Goes(v, "fallback")
          /\ UNCHANGED native
    /\ UNCHANGED <<platform, admission, outcome, inits, calls>>

\* Run calls init.  What it throws, or the lack of memory for the invocation,
\* ends up in the fallback.
InitInRun(v) ==
    /\ phase[v] = "entered"
    /\ inits' = [inits EXCEPT ![v] = @ + 1]
    /\ Goes(v, "running") \/ Goes(v, "error")
                          \/ (v \in Starved /\ Goes(v, "fallback"))
    /\ UNCHANGED <<platform, native, admission, outcome, calls>>

\* The rest of Run, as ParallelFor promises it: success means every value.
\* Run looks at the deadline before init, too.
RunEnds(v) ==
    /\ \/ /\ phase[v] = "running"
          /\ calls' = [calls EXCEPT ![v] = Values]
          /\ Goes(v, "success")
       \/ /\ phase[v] = "running"
          /\ \E n \in 0..Values : calls' = [calls EXCEPT ![v] = n]
          /\ Goes(v, "error")
       \/ /\ phase[v] = "entered"
          /\ v \in Cancelled
          /\ Goes(v, "error")
          /\ UNCHANGED calls
    /\ UNCHANGED <<platform, native, admission, outcome, inits>>

InitInFallback(v) ==
    /\ phase[v] = "fallback"
    /\ inits' = [inits EXCEPT ![v] = @ + 1]
    /\ Goes(v, "sequential") \/ Goes(v, "error")
    /\ UNCHANGED <<platform, native, admission, outcome, calls>>

\* One value on the caller's thread; its function may throw.
CallInFallback(v) ==
    /\ phase[v] = "sequential"
    /\ calls[v] < Values
    /\ calls' = [calls EXCEPT ![v] = @ + 1]
    /\ UNCHANGED phase \/ Goes(v, "error")
    /\ UNCHANGED <<platform, native, admission, outcome, inits>>

\* Fault: a cancelled fallback reports success.
FallbackCut(v) == Goes(v, "success")

\* The deadline is looked at before init and before every value.
FallbackCancelled(v) == Goes(v, "error")

FallbackEnds(v) ==
    /\ \/ /\ phase[v] = "sequential"
          /\ calls[v] = Values
          /\ Goes(v, "success")
       \/ /\ phase[v] = "fallback" \/ (phase[v] = "sequential" /\ calls[v] < Values)
          /\ v \in Cancelled
          /\ FallbackCancelled(v)
    /\ UNCHANGED <<platform, native, admission, outcome, inits, calls>>

-----------------------------------------------------------------------------
Init ==
    /\ platform \in {"windows", "apple"}
    /\ native = [configured |-> FALSE, workers |-> Processors, pool |-> 0]
    /\ admission = [configured |-> FALSE, requested |-> <<0, 0>>,
                    effective |-> <<0, 0>>]
    /\ outcome = [c \in Clients |-> "pending"]
    /\ phase = [v \in Conversions |-> IF v \in Direct THEN "admitted" ELSE "idle"]
    /\ inits = [v \in Conversions |-> 0]
    /\ calls = [v \in Conversions |-> 0]

Next ==
    \/ \E c \in Clients : Configure(c) \/ ConfigureNative(c)
    \/ \E v \in Conversions :
          \/ Submit(v) \/ EnterRunner(v) \/ InitInRun(v) \/ RunEnds(v)
          \/ InitInFallback(v) \/ CallInFallback(v) \/ FallbackEnds(v)

Spec == Init /\ [][Next]_vars

-----------------------------------------------------------------------------
\* The two schedulers never disagree: the plugin's number of workers is the
\* native one, a pool that exists has exactly the number of threads that was
\* agreed on, and nobody uses the pool before its size is settled.
SettingsAgree ==
    /\ admission.configured =>
          native.configured /\ admission.effective[1] = native.workers
    /\ native.pool # 0 => native.configured /\ native.pool = native.workers

\* The first configuration wins, whatever races with it: a call that reported
\* success asked for what is in force, and one that reported a conflict did not.
FirstWins ==
    \A c \in Clients :
        LET inForce == IF c \in Native
                       THEN native.configured
                            /\ native.workers = Resolve(Request[c][1])
                       ELSE admission.configured
                            /\ admission.effective = Meaning(Request[c])
            other == \/ native.configured
                        /\ native.workers # Resolve(Request[c][1])
                     \/ c \notin Native /\ admission.configured
                        /\ admission.effective # Meaning(Request[c])
        IN  /\ outcome[c] = "success" => inForce
            /\ outcome[c] = "conflict" => other

\* Settings in force never change, and neither does a pool that exists.
SettingsFrozen ==
    [][/\ native.configured =>
             native'.configured /\ native'.workers = native.workers
       /\ admission.configured => admission' = admission
       /\ native.pool # 0 => native'.pool = native.pool]_vars

Results == {"pending", "success", "conflict", "invalid"}
Phases == {"idle", "refused", "admitted", "entered", "running", "fallback",
           "sequential", "success", "error"}

TypeOK ==
    /\ platform \in {"windows", "apple"}
    /\ native \in [configured : BOOLEAN, workers : Nat, pool : Nat]
    /\ admission \in [configured : BOOLEAN, requested : Nat \X Nat,
                      effective : Nat \X Nat]
    /\ outcome \in [Clients -> Results]
    /\ phase \in [Conversions -> Phases]
    /\ inits \in [Conversions -> Nat]
    /\ calls \in [Conversions -> 0..Values]

\* What the plugin remembers of a request is what it made of it.
SettingsOfRequest ==
    admission.configured => admission.effective = Settings(admission.requested)

\* Whichever way a parallel run takes, and whatever fails on it, success means
\* that init was called and then the function for every value; a run in which
\* init was never called has called nothing.
SuccessIsComplete ==
    \A v \in Conversions :
        /\ phase[v] = "success" => inits[v] > 0 /\ calls[v] = Values
        /\ inits[v] = 0 => calls[v] = 0

\* A run makes progress only after init, and takes no second way once it has
\* called the function.
RunsFollowInit ==
    \A v \in Conversions :
        /\ phase[v] \in {"running", "sequential"} => inits[v] > 0
        /\ phase[v] \in {"idle", "refused", "admitted", "entered", "running",
                        "fallback"} => calls[v] = 0

\* The inductive invariant.
ConfigInv ==
    /\ TypeOK
    /\ SettingsOfRequest
    /\ SettingsAgree
    /\ FirstWins
    /\ SuccessIsComplete
    /\ RunsFollowInit

\* libjxl's parallel_runner.h: init MUST be called only once.  The fallback
\* calls it again when Run failed after its own call.
InitOnce == \A v \in Conversions : inits[v] <= 1
=============================================================================
