------------------------ MODULE MCSharedRunnerNested ------------------------
(***************************************************************************)
(* An instance of SharedRunnerNested for TLC.                              *)
(***************************************************************************)
EXTENDS SharedRunnerNested, TLC

CONSTANTS w1, w2, a, b, c, d

\* The functions of a and b each call Run, for c and d.
NestedOuter == (c :> a) @@ (d :> b)

NestedItems == [i \in Invocations |-> 1]
NestedPriority == [i \in Invocations |-> 1]
NestedGroup == [i \in Invocations |-> IF i \in {a, c} THEN 1 ELSE 2]
=============================================================================
