----------------------- MODULE MCSharedRunnerService -----------------------
(***************************************************************************)
(* Instances of SharedRunnerService for TLC.                               *)
(***************************************************************************)
EXTENDS SharedRunnerService, TLC

CONSTANTS w1, h, n1, n2, n3, l

\* h has the high priority, l the low one; n1, n2 and n3 the normal one, where
\* n1 and n2 belong to one batch.
MCItems == [i \in Invocations |-> CASE i = h -> 5 [] i \in {n1, n3, l} -> 2 [] i = n2 -> 1]
MCPriority == [i \in Invocations |-> CASE i = h -> 2 [] i \in {n1, n2, n3} -> 1 [] i = l -> 0]
MCGroup == [i \in Invocations |-> IF i = n3 THEN 2 ELSE 1]

\* Bound: calls enter and leave Run one at a time.
OneAtATime ==
    Cardinality({i \in Invocations : caller[i] \in {"submitting", "notifying"}}
                \cup {i \in Invocations : caller[i] = "polling" /\ inv[i].completed}) <= 1
=============================================================================
