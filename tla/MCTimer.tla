------------------------------- MODULE MCTimer -------------------------------
(* Model checking of TimerManager: timer 1 fires once, timer 2 recurs. *)
EXTENDS TimerManager, TLC

MCPeriod == 1 :> 1 @@ 2 :> 1
=============================================================================
