-------------------------- MODULE AtomicConversion --------------------------
(***************************************************************************)
(* What a conversion from path to path promises: the output path holds     *)
(* what it held before or the complete result, never a part of it; the     *)
(* conversion is reported successful exactly when the result is there; and *)
(* a process that dies leaves one or the other.                            *)
(***************************************************************************)
CONSTANTS
    Conversions,   \* the conversions
    Output         \* Output[c]: the path that c writes

VARIABLES
    outputs,   \* outputs[p]: what p holds, a conversion's result or what it was
    state      \* "open", "written", "success", "failed", "lost"

vars == <<outputs, state>>

Init == state = [c \in Conversions |-> "open"]

Write(c) ==
    /\ state[c] = "open"
    /\ outputs' = [outputs EXCEPT ![Output[c]] = c]
    /\ state' = [state EXCEPT ![c] = "written"]

Report(c) ==
    /\ \/ state[c] = "written" /\ state' = [state EXCEPT ![c] = "success"]
       \/ state[c] = "open" /\ state' = [state EXCEPT ![c] = "failed"]
    /\ UNCHANGED outputs

\* The process ends; conversions that were in progress are never reported.
Crash ==
    /\ \E died \in SUBSET {c \in Conversions : state[c] \in {"open", "written"}} :
          state' = [c \in Conversions |-> IF c \in died THEN "lost" ELSE state[c]]
    /\ UNCHANGED outputs

Next == Crash \/ \E c \in Conversions : Write(c) \/ Report(c)

Spec == Init /\ [][Next]_vars
=============================================================================
