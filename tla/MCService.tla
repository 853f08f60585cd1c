------------------------------- MODULE MCService -------------------------------
(***************************************************************************)
(* Two requests of every kind: well formed, with one part missing, and the *)
(* automation plans of two scenes and three cases in every mode.           *)
(***************************************************************************)
EXTENDS Service

CONSTANTS r1, r2

MCRequests == {r1, r2}

Scene(cs) == [cases |-> cs, configured |-> TRUE, ids |-> TRUE]

Base == [kind |-> "stress", decodes |-> TRUE, rounds |-> "full", ids |-> TRUE, task |-> TRUE,
         body |-> TRUE, configured |-> TRUE, global |-> FALSE, emptyColumn |-> FALSE,
         joins |-> TRUE, ends |-> TRUE, scenes |-> <<>>, sceneMode |-> OrderMode, caseMode |-> OrderMode]

Stress == {[Base EXCEPT !.decodes = FALSE], [Base EXCEPT !.rounds = "empty"], [Base EXCEPT !.rounds = "hollow"],
           [Base EXCEPT !.configured = FALSE],
           Base, [Base EXCEPT !.joins = FALSE], [Base EXCEPT !.ends = FALSE]}

Debugged == {[Base EXCEPT !.kind = "scene"], [Base EXCEPT !.kind = "api"],
             [Base EXCEPT !.kind = "api", !.body = FALSE],
             [Base EXCEPT !.kind = "api", !.configured = FALSE],
             [Base EXCEPT !.kind = "api", !.global = TRUE, !.emptyColumn = TRUE]}

Auto == [Base EXCEPT !.kind = "auto", !.scenes = <<Scene(<<TRUE, TRUE>>), Scene(<<FALSE, TRUE>>)>>]
Other == 0

AutoPlans == {Auto, [Auto EXCEPT !.scenes[2].ids = FALSE], [Auto EXCEPT !.sceneMode = SameMode],
              [Auto EXCEPT !.caseMode = SameMode], [Auto EXCEPT !.sceneMode = Other],
              [Auto EXCEPT !.scenes[2].configured = FALSE],
              [Auto EXCEPT !.scenes[2].configured = FALSE, !.global = TRUE],
              [Auto EXCEPT !.task = FALSE]}

MCPlans == Stress \cup Debugged \cup AutoPlans
=============================================================================
