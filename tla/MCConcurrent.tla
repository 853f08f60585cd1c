---------------------------- MODULE MCConcurrent ----------------------------
(* Values of the constants of ConcurrentModel for its model-checking runs. *)
EXTENDS ConcurrentModel, TLC

Status(type, d, c) ==
  [Unchanged EXCEPT !.type = type, !.stopPlan = TRUE, !.duration = d, !.concurrency = c]

stop    == Status("StopPlan", 0, 0)
bareStop == [stop EXCEPT !.machineModeConf = FALSE]
debug   == Status("DebugStatus", 0, 0)
shrink  == Status("ReportChange", 0, 1)
grow    == Status("ReportChange", 0, 3)
longer  == Status("ReportChange", 2, 2)
shorter == Status("ReportChange", 1, 1)
foreign == [shrink EXCEPT !.local = FALSE]
noConf  == [shrink EXCEPT !.modeConf = FALSE]

AllMessages == {stop, bareStop, debug, shrink, grow, longer, shorter, foreign, noConf}

\* a change without a ModeConf ends the alone mode in a panic, under its workers
Handled == [c \in ControlModes |-> IF c = "Centralized" THEN AllMessages ELSE AllMessages \ {noConf}]
Quiet   == [c \in ControlModes |-> {}]
Stops   == [c \in ControlModes |-> {stop}]

Both    == {"Centralized", "Alone"}
Central == {"Centralized"}
Alone   == {"Alone"}

Symmetric == Permutations(Goroutine)
=============================================================================
