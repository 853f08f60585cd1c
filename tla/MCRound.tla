------------------------------ MODULE MCRound ------------------------------
(* Values of the constants of RoundModel for its model-checking runs. *)
EXTENDS RoundModel, TLC

Status(type, c, r) ==
  [Unchanged EXCEPT !.type = type, !.stopPlan = TRUE, !.concurrency = c, !.roundNum = r]

stop     == Status("StopPlan", 0, 0)
bareStop == [stop EXCEPT !.machineModeConf = FALSE]
debug    == Status("DebugStatus", 0, 0)
shrink   == Status("ReportChange", 1, 0)
grow     == Status("ReportChange", 3, 0)
back     == Status("ReportChange", 2, 3)
fewer    == Status("ReportChange", 0, 1)
foreign  == [shrink EXCEPT !.local = FALSE]
noConf   == [shrink EXCEPT !.modeConf = FALSE]

AllMessages == {stop, bareStop, debug, shrink, grow, back, fewer, foreign, noConf}

\* the alone mode does not wait for its workers after a stop, nor when it panics
Handled == [c \in ControlModes |-> IF c = "Centralized" THEN AllMessages ELSE AllMessages \ {stop, noConf}]
Quiet   == [c \in ControlModes |-> {}]

Both == {"Centralized", "Alone"}

Symmetric == Permutations(Goroutine)
=============================================================================
