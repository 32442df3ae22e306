--------------------------- MODULE MCMethodCalls ---------------------------
(***************************************************************************)
(* An instance of MethodCalls for TLC: a batch, a single call, a batch     *)
(* that memory may lack for, and a call without images or with wrong       *)
(* arguments.                                                              *)
(***************************************************************************)
EXTENDS MethodCalls

CONSTANTS batch, single, poor, quick, BatchSize

MCSize == [c \in Calls |-> IF c = batch THEN BatchSize
                           ELSE IF c = quick THEN 0 ELSE 1]
=============================================================================
