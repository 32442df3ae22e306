----------------------------- MODULE ParallelFor -----------------------------
(***************************************************************************)
(* What libjxl is promised by the runner it is given: a call runs a        *)
(* function once for each value of a range, on numbered lanes that are     *)
(* never shared, and returns when no lane is in use any more.  It reports  *)
(* success only for a complete range, and an error for a reason.           *)
(***************************************************************************)
EXTENDS Integers, FiniteSets

CONSTANTS
    Invocations,   \* the calls
    Items,         \* Items[i]: the function is owed the values 0 .. Items[i]-1
    LaneLimit      \* LaneLimit[i]: the number of lanes i's init was told of

VARIABLES
    status,        \* status[i]: "idle", "active", "success" or "error"
    lanes,         \* lanes[i]: the lanes in use, each a user of i's function
    called,        \* called[i]: the values i's function was called with
    expired,       \* expired[i]: i has been told to give up
    threw,         \* threw[i]: a call of i's function has thrown
    closed         \* the runner is going away

vars == <<status, lanes, called, expired, threw, closed>>

Values(i) == 0 .. Items[i] - 1

Init ==
    /\ status = [i \in Invocations |-> "idle"]
    /\ lanes = [i \in Invocations |-> {}]
    /\ called = [i \in Invocations |-> {}]
    /\ expired = [i \in Invocations |-> FALSE]
    /\ threw = [i \in Invocations |-> FALSE]
    /\ closed = FALSE

\* A call begins, unless its arguments or its init callback refuse it; an
\* empty range is complete at once.
Begin(i) ==
    /\ status[i] = "idle"
    /\ \/ Items[i] > 0 /\ ~expired[i] /\ status' = [status EXCEPT ![i] = "active"]
       \/ Items[i] = 0 /\ ~expired[i] /\ status' = [status EXCEPT ![i] = "success"]
       \/ status' = [status EXCEPT ![i] = "error"]
    /\ UNCHANGED <<lanes, called, expired, threw, closed>>

\* A lane is taken only while the call has no reason to end.
Lend(i) ==
    /\ status[i] = "active"
    /\ ~expired[i]
    /\ \E lane \in (0 .. LaneLimit[i] - 1) \ lanes[i] :
          lanes' = [lanes EXCEPT ![i] = @ \cup {lane}]
    /\ UNCHANGED <<status, called, expired, threw, closed>>

Call(i) ==
    /\ lanes[i] # {}
    /\ ~expired[i]
    /\ \E value \in Values(i) \ called[i], fails \in BOOLEAN :
          /\ called' = [called EXCEPT ![i] = @ \cup {value}]
          /\ threw' = [threw EXCEPT ![i] = @ \/ fails]
    /\ UNCHANGED <<status, lanes, expired, closed>>

GiveBack(i) ==
    /\ \E lane \in lanes[i] : lanes' = [lanes EXCEPT ![i] = @ \ {lane}]
    /\ UNCHANGED <<status, called, expired, threw, closed>>

Return(i) ==
    /\ status[i] = "active"
    /\ lanes[i] = {}
    /\ \/ /\ called[i] = Values(i)
          /\ ~threw[i]
          /\ status' = [status EXCEPT ![i] = "success"]
       \/ /\ expired[i] \/ threw[i] \/ closed
          /\ status' = [status EXCEPT ![i] = "error"]
    /\ UNCHANGED <<lanes, called, expired, threw, closed>>

Expire(i) ==
    /\ expired' = [expired EXCEPT ![i] = TRUE]
    /\ UNCHANGED <<status, lanes, called, threw, closed>>

Close ==
    /\ closed' = TRUE
    /\ UNCHANGED <<status, lanes, called, expired, threw>>

Next ==
    \/ \E i \in Invocations :
          \/ Begin(i) \/ Lend(i) \/ Call(i) \/ GiveBack(i) \/ Return(i)
          \/ Expire(i)
    \/ Close

Spec == Init /\ [][Next]_vars
=============================================================================
