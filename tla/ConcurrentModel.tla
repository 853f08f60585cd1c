--------------------------- MODULE ConcurrentModel ---------------------------
(***************************************************************************)
(* The concurrency mode: keep `concurrent` workers busy until the duration *)
(* has passed.  Under the centralized control mode a worker runs the scene *)
(* once and the controller waits for the whole batch; under the alone mode *)
(* each worker loops by itself as long as its id is in concurrentMap.      *)
(***************************************************************************)
EXTENDS StressTask

CONSTANTS
  Concurrency,  \* ConfigTask.ModeConf.Concurrency
  Duration,     \* ConfigTask.ModeConf.Duration
  MaxDuration   \* bound on the clock: no duration of the run exceeds it

ASSUME ConcurrentAssumption ==
  /\ Concurrency \in Nat
  /\ MaxDuration \in Nat
  /\ Duration \in 0 .. MaxDuration
  /\ \A c \in ControlModes : \A m \in Messages[c] : m.duration \in 0 .. MaxDuration

VARIABLES
  concurrent,     \* the number of workers wanted
  duration,
  elapsed,        \* time.Now() - startTime, no longer counted once past MaxDuration
  change,         \* the clock a reader may still see while duration is being changed
  concurrentMap,  \* the ids in the map
  cursor,         \* i of the spawning loop
  stopped         \* history: a stop message was received

modeVars == <<concurrent, duration, elapsed, change, concurrentMap, cursor, stopped>>
vars == <<taskVars, modeVars>>

-----------------------------------------------------------------------------
(* The controller                                                          *)

KeepPipe == UNCHANGED <<startMsg, resultDataMsgCh, closed, crashed, sender, delivered, published>>
KeepPool == UNCHANGED <<gpc, gid, todo, wg>>
KeepConf == UNCHANGED <<concurrent, duration, elapsed, change>>

\* the parameter check: only both zero are refused
Enter ==
  /\ pc = "enter"
  /\ pc' = IF Concurrency = 0 /\ Duration = 0 THEN "clearStart" ELSE "loop"
  /\ elapsed' = 0
  /\ UNCHANGED <<statusCh, concurrent, duration, change, concurrentMap, cursor, stopped>>
  /\ KeepPool /\ KeepPipe

\* Faulty variant: the alone mode returns at the end of the time without waiting.
ReturnAtTimeout ==
  /\ pc = "loop"
  /\ pc' = IF elapsed <= duration THEN "select" ELSE "clearStart"
  /\ UNCHANGED <<statusCh, concurrentMap, cursor, stopped>>
  /\ KeepConf /\ KeepPool /\ KeepPipe

CheckTime ==
  /\ pc = "loop"
  /\ pc' = IF elapsed <= duration THEN "select"
           ELSE IF Centralized THEN "clearStart" ELSE "drain"
  /\ UNCHANGED <<statusCh, concurrentMap, cursor, stopped>>
  /\ KeepConf /\ KeepPool /\ KeepPipe

\* nil configuration, other type or text, another machine, a debug switch: back to the loop
TakeOtherMessage ==
  /\ pc = "select"
  /\ statusCh # <<>>
  /\ ~StopsPlan(Head(statusCh)) /\ ~Addressed(Head(statusCh))
  /\ statusCh' = Tail(statusCh)
  /\ pc' = "loop"
  /\ UNCHANGED <<concurrentMap, cursor, stopped>>
  /\ KeepConf /\ KeepPool /\ KeepPipe

\* Faulty variant: the break of the alone mode in the centralized one, too.
TakeStopLeavesSelect ==
  /\ pc = "select"
  /\ statusCh # <<>>
  /\ StopsPlan(Head(statusCh))
  /\ statusCh' = Tail(statusCh)
  /\ stopped' = TRUE
  /\ pc' = "loop"
  /\ concurrentMap' = {}
  /\ UNCHANGED cursor
  /\ KeepConf /\ KeepPool /\ KeepPipe

\* centralized: return; alone: empty the map, and the break leaves only the select
TakeStop ==
  /\ pc = "select"
  /\ statusCh # <<>>
  /\ StopsPlan(Head(statusCh))
  /\ statusCh' = Tail(statusCh)
  /\ stopped' = TRUE
  /\ \/ /\ Centralized
        /\ pc' = "clearStart"
        /\ UNCHANGED concurrentMap
     \/ /\ ~Centralized
        /\ pc' = "loop"
        /\ concurrentMap' = {}
  /\ UNCHANGED cursor
  /\ KeepConf /\ KeepPool /\ KeepPipe

\* no ModeConf: the dereference panics and the recover of TaskDecomposition takes over
TakeNilModeConf ==
  /\ pc = "select"
  /\ statusCh # <<>>
  /\ Dereferences(Head(statusCh))
  /\ statusCh' = Tail(statusCh)
  /\ pc' = "clearStart"
  /\ UNCHANGED <<concurrentMap, cursor, stopped>>
  /\ KeepConf /\ KeepPool /\ KeepPipe

\* startTime is written first: until ApplyChange a worker may see either clock
TakeChange ==
  /\ pc = "select"
  /\ statusCh # <<>>
  /\ Changes(Head(statusCh))
  /\ pc' = "change"
  /\ LET m == Head(statusCh)
     IN  /\ elapsed' = IF m.duration > 0 THEN 0 ELSE elapsed
         /\ change' = [elapsed |-> elapsed,
                       duration |-> IF m.duration > 0 THEN m.duration ELSE duration]
  /\ UNCHANGED <<statusCh, concurrent, duration, concurrentMap, cursor, stopped>>
  /\ KeepPool /\ KeepPipe

\* then duration, the ids above the new concurrency, and the concurrency
ApplyChange ==
  /\ pc = "change"
  /\ duration' = change.duration
  /\ LET c == Head(statusCh).concurrency
     IN  IF c > 0
         THEN concurrentMap' = concurrentMap \ (c .. concurrent - 1) /\ concurrent' = c
         ELSE UNCHANGED <<concurrentMap, concurrent>>
  /\ change' = [elapsed |-> 0, duration |-> 0]
  /\ statusCh' = Tail(statusCh)
  /\ pc' = "loop"
  /\ UNCHANGED <<elapsed, cursor, stopped>>
  /\ KeepPool /\ KeepPipe

\* Faulty variant: the ids are served from 1.
StartSpawningAtOne ==
  /\ pc = "select"
  /\ statusCh = <<>>
  /\ pc' = "spawn"
  /\ cursor' = 1
  /\ UNCHANGED <<statusCh, concurrentMap, stopped>>
  /\ KeepConf /\ KeepPool /\ KeepPipe

\* the default branch: no message is ready
StartSpawning ==
  /\ pc = "select"
  /\ statusCh = <<>>
  /\ pc' = "spawn"
  /\ cursor' = 0
  /\ UNCHANGED <<statusCh, concurrentMap, stopped>>
  /\ KeepConf /\ KeepPool /\ KeepPipe

SkipId ==
  /\ pc = "spawn"
  /\ cursor < concurrent
  /\ cursor \in concurrentMap
  /\ cursor' = cursor + 1
  /\ UNCHANGED <<pc, statusCh, concurrentMap, stopped>>
  /\ KeepConf /\ KeepPool /\ KeepPipe

Spawn(g) ==
  /\ pc = "spawn"
  /\ cursor < concurrent
  /\ cursor \notin concurrentMap
  /\ concurrentMap' = concurrentMap \cup {cursor}
  /\ Go(g, cursor)
  /\ cursor' = cursor + 1
  /\ UNCHANGED <<pc, statusCh, stopped>>
  /\ KeepConf /\ KeepPipe

EndSpawning ==
  /\ pc = "spawn"
  /\ cursor >= concurrent
  /\ pc' = IF Centralized THEN "batch" ELSE "loop"
  /\ cursor' = 0
  /\ UNCHANGED <<statusCh, concurrentMap, stopped>>
  /\ KeepConf /\ KeepPool /\ KeepPipe

\* Faulty variant: one worker too few is waited for.
WaitForAllButOne ==
  /\ wg <= 1
  /\ \/ pc = "batch" /\ pc' = "loop"
     \/ pc = "drain" /\ pc' = "clearStart"
  /\ UNCHANGED <<statusCh, concurrentMap, cursor, stopped>>
  /\ KeepConf /\ KeepPool /\ KeepPipe

\* currentWg.Wait(): after each batch, or after the loop of the alone mode
Wait ==
  /\ wg = 0
  /\ \/ pc = "batch" /\ pc' = "loop"
     \/ pc = "drain" /\ pc' = "clearStart"
  /\ UNCHANGED <<statusCh, concurrentMap, cursor, stopped>>
  /\ KeepConf /\ KeepPool /\ KeepPipe

Controller ==
  \/ Enter \/ CheckTime
  \/ TakeOtherMessage \/ TakeStop \/ TakeNilModeConf \/ TakeChange \/ ApplyChange
  \/ StartSpawning \/ SkipId \/ (\E g \in Goroutine : Spawn(g)) \/ EndSpawning
  \/ Wait

-----------------------------------------------------------------------------
(* The workers                                                             *)

\* The clocks a worker's unsynchronized read may return.
Clocks ==
  IF pc = "change"
  THEN {elapsed, change.elapsed} \X {duration, change.duration}
  ELSE {<<elapsed, duration>>}

MayContinue(g) ==
  Centralized \/ (gid[g] \in concurrentMap /\ \E c \in Clocks : c[1] <= c[2])
MayQuit(g) ==
  ~Centralized /\ (gid[g] \notin concurrentMap \/ \E c \in Clocks : c[1] > c[2])

StartScene(g) ==
  /\ gpc[g] = "head"
  /\ MayContinue(g)
  /\ EnterScene(g)
  /\ UNCHANGED <<pc, startMsg, resultDataMsgCh, closed, crashed, sender, delivered,
                 gid, wg, statusCh, published>>
  /\ UNCHANGED modeVars

Quit(g) ==
  /\ gpc[g] = "head"
  /\ MayQuit(g)
  /\ gpc' = [gpc EXCEPT ![g] = "unmap"]
  /\ UNCHANGED <<pc, startMsg, resultDataMsgCh, closed, crashed, sender, delivered,
                 gid, todo, wg, statusCh, published>>
  /\ UNCHANGED modeVars

\* Faulty variant: the deferred Delete is missing.
EndWithoutUnmap(g) ==
  /\ gpc[g] = "unmap"
  /\ gpc' = [gpc EXCEPT ![g] = "done"]
  /\ UNCHANGED <<pc, startMsg, resultDataMsgCh, closed, crashed, sender, delivered,
                 gid, todo, wg, statusCh, published>>
  /\ UNCHANGED modeVars

\* defer concurrentMap.Delete(concurrentId): the id, whoever holds it now
Unmap(g) ==
  /\ gpc[g] = "unmap"
  /\ gpc' = [gpc EXCEPT ![g] = "done"]
  /\ concurrentMap' = concurrentMap \ {gid[g]}
  /\ UNCHANGED <<pc, startMsg, resultDataMsgCh, closed, crashed, sender, delivered,
                 gid, todo, wg, statusCh, published>>
  /\ UNCHANGED <<concurrent, duration, elapsed, change, cursor, stopped>>

Worker(g) ==
  \/ StartScene(g)
  \/ SendResult(g) /\ UNCHANGED modeVars
  \/ SceneReturns(g, IF Centralized THEN "unmap" ELSE "head") /\ UNCHANGED modeVars
  \/ Quit(g)
  \/ Unmap(g)
  \/ WorkerDone(g) /\ UNCHANGED modeVars

-----------------------------------------------------------------------------
Tick ==
  /\ elapsed <= MaxDuration
  /\ elapsed' = elapsed + 1
  /\ change' = IF pc = "change" /\ change.elapsed <= MaxDuration
               THEN [change EXCEPT !.elapsed = @ + 1] ELSE change
  /\ UNCHANGED taskVars
  /\ UNCHANGED <<concurrent, duration, concurrentMap, cursor, stopped>>

\* the task and its sender have ended, or the process is gone
Terminated ==
  /\ crashed \/ (pc = "returned" /\ sender.pc \in {"done", "failed"})
  /\ UNCHANGED vars

Init ==
  /\ TaskInit
  /\ concurrent = Concurrency
  /\ duration = Duration
  /\ elapsed = 0
  /\ change = [elapsed |-> 0, duration |-> 0]
  /\ concurrentMap = {}
  /\ cursor = 0
  /\ stopped = FALSE

Next ==
  \/ /\ ~crashed
     /\ UNCHANGED controlMode
     /\ \/ TaskDecomposition /\ UNCHANGED modeVars
        \/ SendKafkaMsg /\ UNCHANGED modeVars
        \/ Publish /\ UNCHANGED modeVars
        \/ Controller
        \/ \E g \in Goroutine : Worker(g)
        \/ Tick
  \/ Terminated

Spec == Init /\ [][Next]_vars

-----------------------------------------------------------------------------
(* Properties                                                              *)

TypeOK ==
  /\ TaskTypeOK
  /\ pc \in FramePc \cup {"loop", "select", "change", "spawn", "batch", "drain"}
  /\ concurrent \in Nat
  /\ duration \in 0 .. MaxDuration
  /\ elapsed \in 0 .. MaxDuration + 1
  /\ change \in [elapsed : 0 .. MaxDuration + 1, duration : 0 .. MaxDuration]
  /\ concurrentMap \subseteq Nat
  /\ cursor \in Nat
  /\ stopped \in BOOLEAN

\* The pool is empty wherever the code relies on it: outside the mode and, centralized,
\* whenever the controller looks at its messages, because the WaitGroup counts exactly the
\* workers that have not ended (concurrentModel.go:91-99, 158-161, 185).
PoolInv ==
  /\ WgCounts
  /\ pc \in ReturnPc \cup {"start", "enter"} => Live = {}
  /\ Centralized /\ pc \in {"loop", "select", "change"} => Live = {}
  /\ closed => pc = "returned"
  /\ ~crashed
  /\ pc = "change" => statusCh # <<>>

\* The mode keeps the promise of ForkJoin: it returns to TaskDecomposition, which closes
\* the result channel, only when every worker it started has ended
\* (concurrentModel.go:99 and 185 against dispose.go:167).
Promise == INSTANCE ForkJoin WITH
  live  <- Live,
  phase <- IF closed THEN "closed" ELSE IF pc \in ReturnPc THEN "joined" ELSE "forking"
JoinsItsWorkers == Promise!Spec

\* Ids and workers agree.  An id of the map is always held by a worker that will still
\* delete it: if none did, the id could never be given out again and the task would run
\* short of one worker for ever (concurrentModel.go:154-161).  Centralized, there are never
\* more workers than the concurrency asked for, and no two of them with one id; the alone
\* mode lets a worker that was given up end its scene beside its successor
\* (concurrentModel.go:91-99 against 163-169).
IdsAndWorkersAgree ==
  /\ \A i \in concurrentMap : \E g \in Live : gid[g] = i /\ gpc[g] # "done"
  /\ Centralized => /\ Cardinality(Live) <= concurrent
                    /\ \A g, h \in Live : gid[g] = gid[h] => g = h

\* No worker is started and none begins another scene.
NothingStarts ==
  \A g \in Goroutine : /\ gpc[g] = "free" => gpc'[g] = "free"
                       /\ gpc[g] = "head" => gpc'[g] # "scene"

\* Centralized, nothing starts any more once a stop message was received: the loop is left
\* with an empty pool (concurrentModel.go:54-57).
CentralStopIsFinal == [][Centralized /\ stopped => NothingStarts]_vars
=============================================================================
