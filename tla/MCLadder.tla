------------------------------ MODULE MCLadder ------------------------------
(* Values of the constants of LadderModel for its model-checking runs. *)
EXTENDS LadderModel, TLC

stop     == [Unchanged EXCEPT !.type = "StopPlan", !.stopPlan = TRUE]
debug    == [Unchanged EXCEPT !.type = "DebugStatus"]
higher   == [Unchanged EXCEPT !.maxConcurrency = 3, !.duration = 2]
lower    == [Unchanged EXCEPT !.maxConcurrency = 1]
restart  == [Unchanged EXCEPT !.startConcurrency = 1, !.stepRunTime = 2, !.step = 2, !.duration = 1]
foreign  == [lower EXCEPT !.local = FALSE]
noConf   == [lower EXCEPT !.modeConf = FALSE]

AllMessages == {stop, debug, higher, lower, restart, foreign, noConf}

Handled == [c \in ControlModes |-> AllMessages]
Quiet   == [c \in ControlModes |-> {}]
Higher  == [c \in ControlModes |-> {higher}]

\* The figures of the report, one event above its threshold or none, or no report.
None       == [kind |-> "none", above |-> {}]
Unreadable == [kind |-> "unreadable", above |-> {}]
Figures    == {[kind |-> "figures", above |-> S] : S \in SUBSET Event}
AnyReport  == [c \in ControlModes |-> {None, Unreadable} \cup Figures]
NoReport   == [c \in ControlModes |-> {None}]

FourModes == {"ladder", "errorRate", "rt", "rps"}

Both    == {"Centralized", "Alone"}
Central == {"Centralized"}
Alone   == {"Alone"}

Symmetric == Permutations(Goroutine)
=============================================================================
