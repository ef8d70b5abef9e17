-------------------------- MODULE MCPeriodSequential --------------------------
(***************************************************************************)
(* PeriodCycle with one request served at a time, for TLC: what the        *)
(* documentation promises holds, the service implements PeriodLifecycle,   *)
(* and a period that is submitted is closed.                               *)
(***************************************************************************)
EXTENDS PeriodLiveness, PeriodSequential
=============================================================================
