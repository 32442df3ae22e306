--------------------------- MODULE MCSharedRunner ---------------------------
(***************************************************************************)
(* Instances of SharedRunner for TLC.                                      *)
(***************************************************************************)
EXTENDS SharedRunner, TLC

CONSTANTS w1, w2, a, b, c

\* Three invocations: two groups share a priority, the third has its own.
MCItems == [i \in Invocations |-> IF i = a THEN 5 ELSE 1]
MCPriority == [i \in Invocations |-> IF i = c THEN 0 ELSE 2]
MCGroup == [i \in Invocations |-> IF i = b THEN 2 ELSE 1]

\* The liveness runs: two invocations of one group and priority.
MCLiveItems == [i \in Invocations |-> IF i = a THEN 2 ELSE 1]
MCLivePriority == [i \in Invocations |-> 0]
MCLiveGroup == [i \in Invocations |-> 1]

Symmetry == Permutations(Workers)
=============================================================================
