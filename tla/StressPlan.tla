------------------------------ MODULE StressPlan ------------------------------
(***************************************************************************)
(* A stress plan in whatever mode it is given: TaskDecomposition looks at  *)
(* ConfigTask.Mode and enters the concurrency mode, the round mode, one of *)
(* the four modes that climb, or none of them.  The goroutines of a task   *)
(* are the same in all of them, and so is the fairness of their scheduler. *)
(***************************************************************************)
EXTENDS StressTask

CONSTANTS
  Concurrency, Duration, RoundNum,                                \* ConfigTask.ModeConf
  StartConcurrency, Step, MaxConcurrency, StepRunTime,
  MaxDuration, MaxLevel,   \* bounds, see the modules of the modes
  Event, Reports,
  Tasks                    \* the pairs of a mode and a control mode a task may be given

Climbing == {"ladder", "errorRate", "rt", "rps"}

ASSUME PlanAssumption == Tasks \subseteq (Climbing \cup {"concurrency", "round", "unknown"}) \X ControlModes

VARIABLES
  mode,                                                      \* ConfigTask.Mode
  concurrent, cursor, concurrentMap, stopped,                \* of several modes
  duration, elapsed, change,                                 \* of the concurrency mode
  rounds, round, mapped, active, turn, executed,             \* of the round mode
  rpsMap, rpsTag, lookup, step, maxConcurrent, stepRunTime,  \* of the climbing modes
  stableDuration, ran, since, target, outcome, levels

concurrencyVars == <<duration, elapsed, change>>
roundVars == <<rounds, round, mapped, active, turn, executed>>
climbVars == <<rpsMap, rpsTag, lookup, step, maxConcurrent, stepRunTime, stableDuration, ran, since,
               target, outcome, levels>>
vars == <<taskVars, mode, concurrent, cursor, concurrentMap, stopped, concurrencyVars, roundVars, climbVars>>

C == INSTANCE ConcurrentModel
R == INSTANCE RoundModel
L == INSTANCE LadderModel WITH Modes <- Climbing

\* a step of one mode leaves the variables of the others alone
InConcurrency(A) == mode = "concurrency" /\ A /\ UNCHANGED <<mode, controlMode, roundVars, climbVars>>
InRound(A) ==
  mode = "round" /\ A /\ UNCHANGED <<mode, controlMode, concurrentMap, concurrencyVars, climbVars>>
InClimb(A) == mode \in Climbing /\ A /\ UNCHANGED <<controlMode, stopped, concurrencyVars, roundVars>>

\* and what every mode has in common leaves all of them alone
Shared(A) ==
  A /\ UNCHANGED <<mode, controlMode, concurrent, cursor, concurrentMap, stopped, concurrencyVars,
                   roundVars, climbVars>>

-----------------------------------------------------------------------------
(* The goroutines of the task                                              *)

\* the default case: no mode is entered
NoSuchMode ==
  /\ mode = "unknown"
  /\ pc = "enter"
  /\ pc' = "clearStart"
  /\ UNCHANGED <<startMsg, resultDataMsgCh, closed, crashed, sender, delivered, gpc, gid, todo, wg,
                 statusCh, published>>

Main ==
  /\ ~crashed
  /\ \/ Shared(TaskDecomposition) \/ Shared(NoSuchMode)
     \/ InConcurrency(C!Controller) \/ InRound(R!Controller) \/ InClimb(L!Controller)

Sender == ~crashed /\ Shared(SendKafkaMsg)

Worker(g) ==
  /\ ~crashed
  /\ InConcurrency(C!Worker(g)) \/ InRound(R!Worker(g)) \/ InClimb(L!Worker(g))

Manager == ~crashed /\ mode # "unknown" /\ Shared(Publish)

Tick == ~crashed /\ (InConcurrency(C!Tick) \/ InClimb(L!Tick))

-----------------------------------------------------------------------------
\* the variables of the modes that are not entered
NoConcurrency == duration = 0 /\ elapsed = 0 /\ change = 0
NoRound == rounds = 0 /\ round = 0 /\ mapped = {} /\ active = {} /\ turn = 0 /\ executed = 0
NoClimb ==
  /\ rpsMap = {} /\ rpsTag = FALSE /\ lookup = 0 /\ levels = {} /\ outcome = "none"
  /\ step = 0 /\ maxConcurrent = 0 /\ stepRunTime = 0 /\ stableDuration = 0
  /\ ran = 0 /\ since = 0 /\ target = 0

Init ==
  /\ \E t \in Tasks : mode = t[1] /\ controlMode = t[2]
  /\ \/ mode = "concurrency" /\ C!Init /\ NoRound /\ NoClimb
     \/ mode = "round" /\ R!Init /\ concurrentMap = {} /\ NoConcurrency /\ NoClimb
     \/ mode \in Climbing /\ L!Init /\ stopped = FALSE /\ NoConcurrency /\ NoRound
     \/ /\ mode = "unknown"
        /\ TaskInit
        /\ concurrent = 0 /\ cursor = 0 /\ concurrentMap = {} /\ stopped = FALSE
        /\ NoConcurrency /\ NoRound /\ NoClimb

Next == Main \/ Sender \/ Manager \/ Tick \/ \E g \in Goroutine : Worker(g)

Spec == Init /\ [][Next]_vars

\* Every goroutine is scheduled again; the clock may stand still, and what relies on the
\* passing of time says so.
Fairness == WF_vars(Main) /\ WF_vars(Sender) /\ \A g \in Goroutine : WF_vars(Worker(g))
FairSpec == Spec /\ Fairness

-----------------------------------------------------------------------------
(* Properties                                                              *)

\* Whatever the mode, a task ends and its sender after it: the end of the stream reaches
\* Kafka, or Kafka refused a record.  A mode that looks at the clock needs time to go by
\* (dispose.go:255-299, request_kafka.go:15-50).
TaskIsEnded ==
  mode \in {"round", "unknown"} \/ WF_vars(Tick) => SenderEnds

\* Even if no time passes, an id below the concurrency of the concurrency mode gets a worker
\* while the mode runs, unless Kafka refused a record and everybody is stuck at the full
\* channel: neither the messages nor the workers of other ids keep it from being served
\* (concurrentModel.go:86-98 and 153-184).
InMode == pc \notin FramePc \cup {"drain"}
IdsAreServed ==
  \A i \in 0 .. Concurrency - 1 :
    mode = "concurrency" /\ InMode /\ i < concurrent ~>
      i \in concurrentMap \/ i >= concurrent \/ ~InMode \/ sender.pc = "failed"
=============================================================================
