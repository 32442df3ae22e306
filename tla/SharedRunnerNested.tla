------------------------- MODULE SharedRunnerNested -------------------------
(***************************************************************************)
(* SharedRunner with nested calls: the function of an outer invocation     *)
(* calls Run itself, on the pool's own thread, for its first value.  The   *)
(* thread is then a caller of Run like any other, and is back in its chunk *)
(* when that inner Run has returned.                                       *)
(***************************************************************************)
EXTENDS SharedRunner

\* Outer[i]: the invocation whose function makes the call i; i is not in the
\* domain when no function makes it, and Outer[i] never is.
CONSTANT Outer

\* Worker w is inside, or about to call, the function that calls Run for i.
Hosts(w, i) ==
    /\ i \in DOMAIN Outer
    /\ pc[w] = "calling"
    /\ chunk[w].inv = Outer[i]
    /\ chunk[w].value = 0

\* The inner call is made once the outer function runs, after the worker's
\* look at the cancellation callback.
EnterInside(i) ==
    /\ i \in DOMAIN Outer =>
          \E w \in Workers : Hosts(w, i) /\ ~expired[Outer[i]]
    /\ Enter(i)

\* The function ends when its inner Run has returned.
CallOutside(w) ==
    /\ \A i \in Invocations : Hosts(w, i) => Returned(i)
    /\ CallFunction(w)

\* The worker does not look at the callback again while it is inside.
EndOutside(w) ==
    /\ \A i \in Invocations :
          Hosts(w, i) => caller[i] = "idle" \/ Returned(i)
    /\ EndChunk(w)

NestedWorkerStep(w) ==
    CheckWork(w) \/ Take(w) \/ CallOutside(w) \/ EndOutside(w) \/ CompleteChunk(w)

NestedNext ==
    \/ \E i \in Invocations : EnterInside(i) \/ CallerStep(i) \/ Expire(i)
    \/ \E w \in Workers : NestedWorkerStep(w) \/ WakeSpuriously(w)
    \/ BeginStop
    \/ StopStep

NestedSpec ==
    /\ Init
    /\ [][NestedNext]_vars
    /\ CallersRun
    /\ \A w \in Workers : WF_vars(NestedWorkerStep(w))
    /\ \A i \in DOMAIN Outer : WF_vars(EnterInside(i))
    /\ WF_vars(StopStep)

-----------------------------------------------------------------------------
\* A runner that is re-entrant, as libjxl's parallel_runner.h uses the word (it
\* may be called from inside the function it runs), returns from every call
\* whose functions do.  shared_parallel_runner.h calls this runner re-entrant;
\* but a thread that waits in Run serves no queue, so once every thread of the
\* pool is inside an inner Run nobody is left to do their work.
Reentrant ==
    \A i \in Invocations : caller[i] = "submitting" ~> Returned(i)
=============================================================================
