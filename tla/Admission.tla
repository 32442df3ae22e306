------------------------------ MODULE Admission ------------------------------
(***************************************************************************)
(* What an admission scheduler promises to the plugin that submits         *)
(* conversions to it: a submission is refused or accepted; an accepted one *)
(* is started once, unless its deadline passed while it waited; at most    *)
(* Limit conversions are in progress; and each accepted conversion ends in *)
(* exactly one way.                                                        *)
(***************************************************************************)
EXTENDS Integers, FiniteSets

CONSTANTS
    Jobs,    \* the submissions
    Limit    \* the conversions that may be in progress at once

VARIABLES
    status,  \* "idle", "refused", "queued", "running", "done", "failed", "expired"
    passed   \* passed[j]: j's deadline has passed

vars == <<status, passed>>

Init ==
    /\ status = [j \in Jobs |-> "idle"]
    /\ passed = [j \in Jobs |-> FALSE]

Becomes(j, from, to) ==
    /\ status[j] = from
    /\ status' = [status EXCEPT ![j] = to]
    /\ UNCHANGED passed

Submit(j) == Becomes(j, "idle", "refused") \/ Becomes(j, "idle", "queued")

Start(j) ==
    /\ Cardinality({k \in Jobs : status[k] = "running"}) < Limit
    /\ Becomes(j, "queued", "running")

\* The operation returns, or throws and its failure is reported.
Finish(j) == Becomes(j, "running", "done") \/ Becomes(j, "running", "failed")

Expire(j) == passed[j] /\ Becomes(j, "queued", "expired")

Pass(j) ==
    /\ passed' = [passed EXCEPT ![j] = TRUE]
    /\ UNCHANGED status

Next == \E j \in Jobs : Submit(j) \/ Start(j) \/ Finish(j) \/ Expire(j) \/ Pass(j)

Spec == Init /\ [][Next]_vars
=============================================================================
