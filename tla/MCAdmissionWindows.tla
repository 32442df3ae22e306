------------------------- MODULE MCAdmissionWindows -------------------------
(***************************************************************************)
(* An instance of AdmissionWindows for TLC.                                *)
(***************************************************************************)
EXTENDS AdmissionWindows, TLC

CONSTANTS batch1, batch2, single, urgent

\* A batch of two and a single conversion share a priority; another conversion
\* has a priority of its own.
MCPriority == [j \in Jobs |-> IF j = urgent THEN 2 ELSE 1]
MCGroup == [j \in Jobs |-> IF j \in {batch1, batch2} THEN 1 ELSE 2]
=============================================================================
