----------------------------- MODULE MCPeriodic -----------------------------
(* Two timers of two and three steps; a clock that the step does not       *)
(* divide and that wraps after a few rounds of both.                       *)
EXTENDS Periodic

MCInterval == [k \in 1 .. 2 |-> IF k = 1 THEN 6 ELSE 9]
=============================================================================
