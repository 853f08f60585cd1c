---------------------------- MODULE LadderModel -----------------------------
(***************************************************************************)
(* The four modes that climb: the concurrency starts at StartConcurrency   *)
(* and climbs by Step each StepRunTime up to MaxConcurrency, which is then *)
(* kept for Duration.  The ladder mode does just that; the threshold modes *)
(* (error rate, response time, requests per second) also read the report   *)
(* of the running task back in each iteration, and end, or jump to the     *)
(* top, when it exceeds a threshold.  Times are relative to startTime.     *)
(***************************************************************************)
EXTENDS StressTask

CONSTANTS
  StartConcurrency, Step, MaxConcurrency, StepRunTime, Duration,  \* ConfigTask.ModeConf
  Modes,        \* of {"ladder", "errorRate", "rt", "rps"}: the modes a task may be given
  Event,        \* the requests of the scene that have a threshold
  Reports,      \* for each control mode, what QueryReportData may return
  MaxLevel,     \* bound: no concurrency asked for exceeds it
  MaxDuration   \* bound on the clock: no duration asked for exceeds it

\* nothing yet, text that is no JSON, or figures: then the events above their thresholds
Report == [kind : {"none", "unreadable", "figures"}, above : SUBSET Event]

ASSUME LadderAssumption ==
  /\ Modes \subseteq {"ladder", "errorRate", "rt", "rps"}
  /\ Reports \in [ControlModes -> SUBSET Report]
  /\ {StartConcurrency, MaxConcurrency} \subseteq 0 .. MaxLevel
  /\ {StepRunTime, Duration} \subseteq 0 .. MaxDuration
  /\ {Step, MaxLevel, MaxDuration} \subseteq Nat
  /\ \A c \in ControlModes : \A m \in Messages[c] :
       /\ {m.startConcurrency, m.maxConcurrency} \subseteq 0 .. MaxLevel
       /\ {m.stepRunTime, m.duration} \subseteq 0 .. MaxDuration
       /\ m.duration > 0 \/ m.maxConcurrency <= MaxDuration  \* see StableTime

VARIABLES
  mode,           \* ConfigTask.Mode, an argument of the task
  rpsMap,         \* the events that did not yet reach their threshold
  rpsTag,         \* all of them did: the report is read no more
  concurrent, step, maxConcurrent, stepRunTime, stableDuration,
  ran,            \* endTime - startTime, as of the last iteration
  since,          \* time.Now() - startTime, no longer counted once past MaxDuration
  target,         \* the stage of the highest concurrency was entered
  concurrentMap,
  cursor,         \* i of the spawning loop
  lookup,         \* of each worker: the last value of the i it shares with its spawning loop
  outcome,        \* what the mode returned: "normal", "stopped", "threshold", "abnormal"
  levels          \* history: the concurrencies a batch was started with

modeVars == <<mode, rpsMap, rpsTag, lookup, concurrent, step, maxConcurrent, stepRunTime, stableDuration, ran, since, target,
              concurrentMap, cursor, outcome, levels>>
vars == <<taskVars, modeVars>>

-----------------------------------------------------------------------------
(* The controller                                                          *)

KeepPipe   == UNCHANGED <<startMsg, resultDataMsgCh, closed, crashed, sender, delivered, published>>
KeepPool   == UNCHANGED <<gpc, gid, todo, wg, lookup>>
KeepRps    == UNCHANGED <<mode, rpsMap, rpsTag>>
KeepLadder == UNCHANGED <<concurrent, step, maxConcurrent, stepRunTime, stableDuration, target>> /\ KeepRps
KeepClock  == UNCHANGED <<ran, since>>

\* no parameter is checked
Enter ==
  /\ pc = "enter"
  /\ pc' = "loop"
  /\ ran' = 0
  /\ since' = 0
  /\ UNCHANGED <<statusCh, concurrentMap, cursor, outcome, levels>>
  /\ KeepLadder /\ KeepPool /\ KeepPipe

\* the loop ends by its condition only when the last stage was not recognized
CheckTime ==
  /\ pc = "loop"
  /\ IF ran < stepRunTime
     THEN pc' = (IF mode = "ladder" \/ rpsTag THEN "select" ELSE "query") /\ UNCHANGED outcome
     ELSE pc' = (IF Centralized THEN "clearStart" ELSE "drain") /\ outcome' = "abnormal"
  /\ UNCHANGED <<statusCh, concurrentMap, cursor, levels>>
  /\ KeepLadder /\ KeepClock /\ KeepPool /\ KeepPipe

\* Faulty variant: one event above its threshold is enough.
ToTheTopAtOnce(left) ==
  /\ rpsMap' = left
  /\ IF left # Event
     THEN concurrent' = maxConcurrent /\ stepRunTime' = stableDuration /\ rpsTag' = TRUE
     ELSE UNCHANGED <<concurrent, stepRunTime, rpsTag>>

ToTheTop(left) ==
  /\ rpsMap' = left
  /\ IF left = {}
     THEN concurrent' = maxConcurrent /\ stepRunTime' = stableDuration /\ rpsTag' = TRUE
     ELSE UNCHANGED <<concurrent, stepRunTime, rpsTag>>

\* QueryReportData: the report in redis, written by whoever evaluates the records
Query(kind, above) == pc = "query" /\ [kind |-> kind, above |-> above] \in Reports[controlMode]

KeepQuery ==
  /\ UNCHANGED <<mode, statusCh, step, maxConcurrent, stableDuration, target, concurrentMap, cursor, levels>>
  /\ KeepClock /\ KeepPool /\ KeepPipe

\* no report yet, or no figure above its threshold
StayBelow ==
  /\ Query("none", {}) \/ (mode # "rps" /\ Query("figures", {}))
  /\ pc' = "select"
  /\ UNCHANGED <<outcome, rpsMap, rpsTag, concurrent, stepRunTime>>
  /\ KeepQuery

\* the break leaves the loop of the mode
FailToRead ==
  /\ Query("unreadable", {})
  /\ pc' = IF Centralized THEN "clearStart" ELSE "drain"
  /\ outcome' = "unreadable"
  /\ UNCHANGED <<rpsMap, rpsTag, concurrent, stepRunTime>>
  /\ KeepQuery

\* the error rate or the response time of an event: return, without waiting for the workers
ReachThreshold ==
  /\ mode # "rps"
  /\ \E above \in SUBSET Event \ {{}} : Query("figures", above)
  /\ pc' = "clearStart"
  /\ outcome' = "threshold"
  /\ UNCHANGED <<rpsMap, rpsTag, concurrent, stepRunTime>>
  /\ KeepQuery

\* requests per second: events above their thresholds are ticked off
TickOff ==
  /\ mode = "rps"
  /\ \E above \in SUBSET Event : Query("figures", above) /\ ToTheTop(rpsMap \ above)
  /\ pc' = "select"
  /\ UNCHANGED outcome
  /\ KeepQuery

\* nil configuration or another machine: continue; other type or text: to the end of the iteration
TakeOtherMessage ==
  /\ pc = "select"
  /\ statusCh # <<>>
  /\ LET m == Head(statusCh)
     IN  /\ ~StopsPlan(m) /\ ~Addressed(m)
         /\ pc' = IF m.machineModeConf /\ m.type # "ReportChange" THEN "measure" ELSE "loop"
  /\ statusCh' = Tail(statusCh)
  /\ UNCHANGED <<concurrentMap, cursor, outcome, levels>>
  /\ KeepLadder /\ KeepClock /\ KeepPool /\ KeepPipe

\* Which modes return on a stop, and which empty the map: the breaks of the others leave
\* only the select.
Returns  == mode = "ladder" \/ (Centralized <=> mode # "rt")
Empties  == ~Centralized \/ mode = "rt"

\* returning, none of them waits for its workers
TakeStop ==
  /\ pc = "select"
  /\ statusCh # <<>>
  /\ StopsPlan(Head(statusCh))
  /\ statusCh' = Tail(statusCh)
  /\ IF Returns THEN pc' = "clearStart" /\ outcome' = "stopped"
                ELSE pc' = "measure" /\ UNCHANGED outcome
  /\ concurrentMap' = IF Empties THEN {} ELSE concurrentMap
  /\ UNCHANGED <<cursor, levels>>
  /\ KeepLadder /\ KeepClock /\ KeepPool /\ KeepPipe

TakeNilModeConf ==
  /\ pc = "select"
  /\ statusCh # <<>>
  /\ Dereferences(Head(statusCh))
  /\ statusCh' = Tail(statusCh)
  /\ pc' = "clearStart"
  /\ UNCHANGED <<concurrentMap, cursor, outcome, levels>>
  /\ KeepLadder /\ KeepClock /\ KeepPool /\ KeepPipe

\* the message stays at the head while its fields are copied one by one
TakeChange ==
  /\ pc = "select"
  /\ statusCh # <<>>
  /\ Changes(Head(statusCh))
  /\ pc' = "change"
  /\ UNCHANGED <<statusCh, concurrentMap, cursor, outcome, levels>>
  /\ KeepLadder /\ KeepClock /\ KeepPool /\ KeepPipe

IfSet(new, old) == IF new > 0 THEN new ELSE old

\* Faulty variant: the alone mode, too, deletes ids below the concurrency it keeps.
DiscardedAlways(m, c, max) ==
  IF m.maxConcurrency > 0 /\ max < c THEN m.concurrency .. c - 1 ELSE {}

\* The ids deleted when the maximum falls below the concurrency (itself kept), in the modes
\* that do so under this control mode.
Deletes == IF Centralized THEN mode # "errorRate" ELSE mode # "ladder"
Discarded(m, c, max) ==
  IF Deletes /\ m.maxConcurrency > 0 /\ max < c THEN m.concurrency .. c - 1 ELSE {}

\* Except in the ladder mode a new maximum is also taken for the duration of the top.
StableTime(m) ==
  IfSet(m.duration, IF mode = "ladder" THEN stableDuration ELSE IfSet(m.maxConcurrency, stableDuration))

\* a new StepRunTime starts the current stage again
ApplyChange ==
  /\ pc = "change"
  /\ LET m == Head(statusCh)
     IN  /\ concurrent' = IfSet(m.startConcurrency, concurrent)
         /\ stepRunTime' = IfSet(m.stepRunTime, stepRunTime)
         /\ step' = IF mode = "errorRate" THEN step ELSE IfSet(m.step, step)
         /\ maxConcurrent' = IfSet(m.maxConcurrency, maxConcurrent)
         /\ stableDuration' = StableTime(m)
         /\ ran' = IF m.stepRunTime > 0 THEN 0 ELSE ran
         /\ since' = IF m.stepRunTime > 0 THEN 0 ELSE since
         /\ concurrentMap' = concurrentMap \ Discarded(m, concurrent', maxConcurrent')
  /\ statusCh' = Tail(statusCh)
  /\ pc' = "measure"
  /\ UNCHANGED <<target, cursor, outcome, levels>>
  /\ KeepRps /\ KeepPool /\ KeepPipe

StartSpawning ==
  /\ pc = "select"
  /\ statusCh = <<>>
  /\ pc' = "spawn"
  /\ cursor' = 0
  /\ levels' = levels \cup {concurrent}
  /\ UNCHANGED <<statusCh, concurrentMap, outcome>>
  /\ KeepLadder /\ KeepClock /\ KeepPool /\ KeepPipe

SkipId ==
  /\ pc = "spawn"
  /\ cursor < concurrent
  /\ cursor \in concurrentMap
  /\ cursor' = cursor + 1
  /\ UNCHANGED <<pc, statusCh, concurrentMap, outcome, levels>>
  /\ KeepLadder /\ KeepClock /\ KeepPool /\ KeepPipe

\* the centralized response-time mode does not store the id
NotStored == mode = "rt" /\ Centralized

\* a worker whose spawning loop still runs reads its i, see LookedUp
Sharing == -1

Spawn(g) ==
  /\ pc = "spawn"
  /\ cursor < concurrent
  /\ cursor \notin concurrentMap
  /\ concurrentMap' = IF NotStored THEN concurrentMap ELSE concurrentMap \cup {cursor}
  /\ Go(g, cursor)
  /\ lookup' = [lookup EXCEPT ![g] = IF mode = "rt" /\ ~Centralized THEN Sharing ELSE cursor]
  /\ cursor' = cursor + 1
  /\ UNCHANGED <<pc, statusCh, outcome, levels>>
  /\ KeepLadder /\ KeepClock /\ KeepPipe

EndSpawning ==
  /\ pc = "spawn"
  /\ cursor >= concurrent
  /\ pc' = IF Centralized THEN "batch" ELSE "measure"
  /\ cursor' = 0
  /\ lookup' = [g \in Goroutine |-> IF lookup[g] = Sharing THEN cursor ELSE lookup[g]]
  /\ UNCHANGED <<statusCh, concurrentMap, outcome, levels, gpc, gid, todo, wg>>
  /\ KeepLadder /\ KeepClock /\ KeepPipe

\* Faulty variant: one worker too few is waited for.
WaitForAllButOne ==
  /\ wg <= 1
  /\ \/ pc = "batch" /\ pc' = "measure"
     \/ pc = "drain" /\ pc' = "clearStart"
  /\ UNCHANGED <<statusCh, concurrentMap, cursor, outcome, levels>>
  /\ KeepLadder /\ KeepClock /\ KeepPool /\ KeepPipe

\* currentWg.Wait(): after each batch, or behind the loop of the alone mode
Wait ==
  /\ wg = 0
  /\ \/ pc = "batch" /\ pc' = "measure"
     \/ pc = "drain" /\ pc' = "clearStart"
  /\ UNCHANGED <<statusCh, concurrentMap, cursor, outcome, levels>>
  /\ KeepLadder /\ KeepClock /\ KeepPool /\ KeepPipe

\* endTime = time.Now()
Measure ==
  /\ pc = "measure"
  /\ pc' = "climb"
  /\ ran' = since
  /\ UNCHANGED <<statusCh, since, concurrentMap, cursor, outcome, levels>>
  /\ KeepLadder /\ KeepPool /\ KeepPipe

\* the last stage is over: return, without waiting for the workers
Finished ==
  concurrent = maxConcurrent /\ stepRunTime = stableDuration /\ ran >= stepRunTime

Finish ==
  /\ pc = "climb"
  /\ Finished
  /\ pc' = "clearStart"
  /\ outcome' = "normal"
  /\ UNCHANGED <<statusCh, concurrentMap, cursor, levels>>
  /\ KeepLadder /\ KeepClock /\ KeepPool /\ KeepPipe

\* otherwise: one step up when the stage is over; the highest stage is entered once
StageOver == concurrent < maxConcurrent /\ ran >= stepRunTime

\* Faulty variant: straight to the top.
JumpToTop == IF StageOver THEN maxConcurrent ELSE concurrent

NextLevel ==
  IF ~StageOver THEN concurrent
  ELSE IF concurrent + step > maxConcurrent THEN maxConcurrent ELSE concurrent + step

\* Faulty variant: the marker of the last stage is tested for the wrong value.
EntersTopLate == NextLevel = maxConcurrent /\ target = 1

EntersTop == NextLevel = maxConcurrent /\ target = 0

Climb ==
  /\ pc = "climb"
  /\ ~Finished
  /\ concurrent' = NextLevel
  /\ target' = IF EntersTop THEN 1 ELSE target
  /\ stepRunTime' = IF EntersTop THEN stableDuration ELSE stepRunTime
  /\ LET restart == EntersTop \/ (StageOver /\ NextLevel < maxConcurrent)
     IN  /\ ran' = IF restart THEN 0 ELSE ran
         /\ since' = IF restart THEN since - ran ELSE since
  /\ pc' = "loop"
  /\ UNCHANGED <<statusCh, step, maxConcurrent, stableDuration, concurrentMap, cursor,
                 outcome, levels>>
  /\ KeepRps /\ KeepPool /\ KeepPipe

Iteration ==
  \/ CheckTime \/ StayBelow \/ FailToRead \/ ReachThreshold \/ TickOff
  \/ TakeOtherMessage \/ TakeStop \/ TakeNilModeConf \/ TakeChange \/ ApplyChange
  \/ StartSpawning \/ SkipId \/ (\E g \in Goroutine : Spawn(g)) \/ EndSpawning
  \/ Wait \/ Measure \/ Finish \/ Climb

\* the code of each mode is a loop of its own; they differ where mode is tested above
ErrorRateModel == mode = "errorRate" /\ Iteration
RTModel        == mode = "rt" /\ Iteration
RPSModel       == mode = "rps" /\ Iteration

Controller == Enter \/ (mode = "ladder" /\ Iteration) \/ ErrorRateModel \/ RTModel \/ RPSModel

-----------------------------------------------------------------------------
(* The workers                                                             *)

\* What a worker's unsynchronized read of stepRunTime may return while it is being changed.
StepTimes ==
  {stepRunTime}
    \cup (IF pc = "change" THEN {IfSet(Head(statusCh).stepRunTime, stepRunTime)} ELSE {})
    \cup (IF pc = "climb" /\ ~Finished /\ EntersTop THEN {stableDuration} ELSE {})

\* The id a worker of the alone mode looks for: its own, but in the response-time mode the
\* variable i of the loop that spawned it, which ends as the concurrency of that time.
LookedUp(g) == IF lookup[g] = Sharing THEN cursor ELSE lookup[g]

MayContinue(g) ==
  Centralized \/ (LookedUp(g) \in concurrentMap /\ \E t \in StepTimes : ran < t)
MayQuit(g) ==
  ~Centralized /\ (LookedUp(g) \notin concurrentMap \/ \E t \in StepTimes : ran >= t)

StartScene(g) ==
  /\ gpc[g] = "head"
  /\ MayContinue(g)
  /\ EnterScene(g)
  /\ UNCHANGED <<pc, startMsg, resultDataMsgCh, closed, crashed, sender, delivered,
                 gid, wg, statusCh, published>>
  /\ UNCHANGED modeVars

Quit(g) ==
  /\ gpc[g] = "head"
  /\ MayQuit(g)
  /\ gpc' = [gpc EXCEPT ![g] = "unmap"]
  /\ UNCHANGED <<pc, startMsg, resultDataMsgCh, closed, crashed, sender, delivered,
                 gid, todo, wg, statusCh, published>>
  /\ UNCHANGED modeVars

Unmap(g) ==
  /\ gpc[g] = "unmap"
  /\ gpc' = [gpc EXCEPT ![g] = "done"]
  /\ concurrentMap' = concurrentMap \ {gid[g]}
  /\ lookup' = [lookup EXCEPT ![g] = 0]
  /\ UNCHANGED <<pc, startMsg, resultDataMsgCh, closed, crashed, sender, delivered,
                 gid, todo, wg, statusCh, published>>
  /\ UNCHANGED <<concurrent, step, maxConcurrent, stepRunTime, stableDuration, ran, since, target,
                 cursor, outcome, levels>>
  /\ KeepRps

Worker(g) ==
  \/ StartScene(g)
  \/ SendResult(g) /\ UNCHANGED modeVars
  \/ SceneReturns(g, IF Centralized THEN "unmap" ELSE "head") /\ UNCHANGED modeVars
  \/ Quit(g)
  \/ Unmap(g)
  \/ WorkerDone(g) /\ UNCHANGED modeVars

-----------------------------------------------------------------------------
Tick ==
  /\ since <= MaxDuration
  /\ since' = since + 1
  /\ UNCHANGED taskVars
  /\ UNCHANGED <<concurrent, step, maxConcurrent, stepRunTime, stableDuration, ran, target,
                 concurrentMap, cursor, lookup, outcome, levels>>
  /\ KeepRps

\* the task and its sender have ended, or the process is gone
Terminated ==
  /\ crashed \/ (pc = "returned" /\ sender.pc \in {"done", "failed"})
  /\ UNCHANGED vars

Init ==
  /\ TaskInit
  /\ mode \in Modes
  /\ rpsMap = IF mode = "rps" THEN Event ELSE {}
  /\ rpsTag = FALSE
  /\ lookup = [g \in Goroutine |-> 0]
  /\ concurrent = StartConcurrency
  /\ step = Step
  /\ maxConcurrent = MaxConcurrency
  /\ stepRunTime = StepRunTime
  /\ stableDuration = Duration
  /\ ran = 0
  /\ since = 0
  /\ target = 0
  /\ concurrentMap = {}
  /\ cursor = 0
  /\ outcome = "none"
  /\ levels = {}

Next ==
  \/ /\ ~crashed
     /\ UNCHANGED controlMode
     /\ \/ TaskDecomposition /\ UNCHANGED modeVars
        \/ SendKafkaMsg /\ UNCHANGED modeVars
        \/ Publish /\ UNCHANGED modeVars
        \/ Controller
        \/ \E g \in Goroutine : Worker(g)
        \/ Tick
  \/ Terminated

Spec == Init /\ [][Next]_vars

-----------------------------------------------------------------------------
(* Properties                                                              *)

TypeOK ==
  /\ TaskTypeOK
  /\ mode \in Modes
  /\ rpsMap \subseteq Event
  /\ rpsTag \in BOOLEAN
  /\ lookup \in [Goroutine -> {Sharing} \cup 0 .. MaxLevel]
  /\ pc \in FramePc \cup {"loop", "query", "select", "change", "spawn", "batch", "measure", "climb", "drain"}
  /\ {concurrent, maxConcurrent} \subseteq 0 .. MaxLevel
  /\ {stepRunTime, stableDuration} \subseteq 0 .. MaxDuration
  /\ step \in Nat
  /\ {ran, since} \subseteq 0 .. MaxDuration + 1
  /\ target \in 0 .. 1
  /\ concurrentMap \subseteq 0 .. MaxLevel - 1
  /\ cursor \in 0 .. MaxLevel
  /\ outcome \in {"none", "normal", "stopped", "threshold", "unreadable", "abnormal"}
  /\ levels \subseteq 0 .. MaxLevel

\* Centralized, the mode returns only when the batch it started has ended
\* (executionLadderModel.go:106 against dispose.go:167); the alone mode promises nothing.
Promise == INSTANCE ForkJoin WITH
  live  <- {g \in Live : Centralized},
  phase <- IF closed THEN "closed" ELSE IF pc \in ReturnPc THEN "joined" ELSE "forking"
JoinsItsWorkers == Promise!Spec

\* No two workers execute the scene, or are about to, under one concurrency id: centralized
\* because of the batches, in the alone ladder mode because an id is deleted only by its
\* worker (executionLadderModel.go:187-195).  The alone threshold modes give deleted ids out
\* again while their workers run (errorRateModel.go:200-228).
OneSceneAtATime ==
  Centralized \/ mode = "ladder" =>
    \A g, h \in Live : gid[g] = gid[h] /\ {gpc[g], gpc[h]} \subseteq {"head", "scene"} => g = h

\* Every rung is used: a task that received no message, and whose report stayed readable
\* and below the thresholds, ends normally, and a batch was started with each concurrency
\* from the first to the highest, and with no other; by requests per second the rungs may
\* be left out only when every event had reached its threshold
\* (executionLadderModel.go:109-134, executionRpsModel.go:49-80).
Rungs ==
  {MaxConcurrency} \cup {c \in StartConcurrency .. MaxConcurrency :
                           Step > 0 /\ (c - StartConcurrency) % Step = 0}
EveryRung ==
  pc = "returned" /\ published = 0 /\ outcome \notin {"threshold", "unreadable"} =>
    /\ outcome = "normal"
    /\ IF mode = "rps" /\ rpsMap = {} THEN MaxConcurrency \in levels ELSE levels = Rungs
=============================================================================
