------------------------- MODULE SharedRunnerService -------------------------
(***************************************************************************)
(* How fairly the shared runner serves its queues.  The specification is   *)
(* SharedRunner's, with history variables that count the selections made   *)
(* by TakeWorkLocked; no action of the scheduler reads them.               *)
(***************************************************************************)
EXTENDS SharedRunner

\* The calls of Run that a period is about.
ASSUME ServiceAssumption == IsFiniteSet(Invocations)

VARIABLES
    passed,  \* passed[p]: selections since p was served or its queue empty
    waited,  \* waited[i]: selections in i's queue since i joined it
    shares   \* the priorities served since a queue was last found empty

serviceVars == <<vars, passed, waited, shares>>

ServiceInit ==
    /\ Init
    /\ passed = [p \in Priorities |-> 0]
    /\ waited = [i \in Invocations |-> 0]
    /\ shares = <<>>

AllReady == \A p \in Priorities : ready[p] # <<>>

\* A selection that serves invocation i of priority p.  Only the last
\* selections of a period in which every queue had work are remembered, one
\* turn of the cycle.
Served(p, i) ==
    /\ passed' = [q \in Priorities |->
                     IF q = p \/ ready[q] = <<>> THEN 0 ELSE passed[q] + 1]
    /\ waited' = [j \in Invocations |->
                     IF j = i \/ ~inv'[j].queued THEN 0
                     ELSE IF Priority[j] = p THEN waited[j] + 1 ELSE waited[j]]
    /\ shares' = IF AllReady
                 THEN Append(IF Len(shares) = 7 THEN Tail(shares) ELSE shares, p)
                 ELSE <<>>

NothingServed ==
    /\ passed' = [q \in Priorities |-> IF ready'[q] = <<>> THEN 0 ELSE passed[q]]
    /\ waited' = [j \in Invocations |-> IF inv'[j].queued THEN waited[j] ELSE 0]
    /\ UNCHANGED shares

OtherStep ==
    \/ \E i \in Invocations : Enter(i) \/ CallerStep(i) \/ Expire(i)
    \/ \E w \in Workers :
          \/ CheckWork(w) \/ TakeNothing(w) \/ CallFunction(w) \/ EndChunk(w)
          \/ CompleteChunk(w) \/ WakeSpuriously(w)
    \/ BeginStop
    \/ StopStep

ServiceNext ==
    \/ \E w \in Workers, n \in 1..7, p \in Priorities, k \in Positions :
          /\ Dispatch(w, n, p, k) \/ Discard(w, n, p, k)
          /\ Served(p, ready[p][k])
    \/ OtherStep /\ NothingServed

ServiceSpec == ServiceInit /\ [][ServiceNext]_serviceVars

-----------------------------------------------------------------------------
\* A priority that has work is served after at most three selections of others
\* if it is high, five if it is normal and six if it is low, whatever the other
\* queues hold and however the queues come and go in between.
PriorityBypassBounded ==
    \A p \in Priorities : passed[p] <= <<6, 5, 3>>[p + 1]

\* While every queue has work, any seven selections in a row serve high four
\* times, normal twice and low once: the 4:2:1 shares of kPriorityCycle.
WeightedShares ==
    Len(shares) = 7 =>
        \A p \in Priorities :
            Cardinality({j \in 1..7 : shares[j] = p}) = <<1, 2, 4>>[p + 1]

\* No invocation starves inside its queue although the head may be passed over
\* for another group: alone in its priority it never waits, and with m >= 2
\* invocations of its priority it waits for at most 2m - 3 selections there.
QueueWaitBounded ==
    \A i \in Invocations :
        LET m == Cardinality({j \in Invocations : Priority[j] = Priority[i]})
        IN  waited[i] <= IF m = 1 THEN 0 ELSE 2 * m - 3
=============================================================================
