-------------------------- MODULE MCSchedulerConfig --------------------------
(***************************************************************************)
(* An instance of SchedulerConfig for TLC: on a machine of six processors, *)
(* one call asks for the defaults, one for the same in numbers, one for    *)
(* other numbers, one for too much, and one goes to the pool directly.     *)
(***************************************************************************)
EXTENDS SchedulerConfig, TLC

CONSTANTS defaults, spelled, small, huge, poolOnly, plain, direct

MCRequest ==
    defaults :> <<0, 0>> @@ spelled :> <<6, 4>> @@ small :> <<2, 2>>
        @@ huge :> <<257, 0>> @@ poolOnly :> <<2, 0>>
=============================================================================
