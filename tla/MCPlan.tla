------------------------------- MODULE MCPlan -------------------------------
(* Values of the constants of StressPlan for its model-checking run. *)
EXTENDS StressPlan, TLC

Status(type, d, c) ==
  [Unchanged EXCEPT !.type = type, !.stopPlan = TRUE, !.duration = d, !.concurrency = c]

stop    == Status("StopPlan", 0, 0)
grow    == [Status("ReportChange", 0, 2) EXCEPT !.roundNum = 2]

\* in the round mode, alone, a stop leaves workers behind
AnyMessage == [c \in ControlModes |-> {grow} \cup IF c = "Centralized" THEN {stop} ELSE {}]

AnyReport == [c \in ControlModes |->
  {[kind |-> k, above |-> {}] : k \in {"none", "unreadable"}}
    \cup {[kind |-> "figures", above |-> S] : S \in SUBSET Event}]

\* the error-rate mode stands for those that climb, centralized: alone they return without
\* waiting for their workers
AnyTask ==
  ({"concurrency", "round", "unknown"} \X {"Centralized", "Alone"})
    \cup ({"errorRate"} \X {"Centralized"})
=============================================================================
