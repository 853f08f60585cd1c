-------------------------- MODULE LadderModel_proofs --------------------------
(***************************************************************************)
(* The four modes that climb: their types, what they promise to their      *)
(* caller under the centralized control mode, which workers may share a    *)
(* concurrency id, and the rungs a task without a message climbs, for      *)
(* every set of goroutines, channel capacity, configuration, set of        *)
(* status messages and set of reports.                                     *)
(***************************************************************************)
EXTENDS LadderModel, StressTask_proofs

\* Where the pool is empty, and what the counter, the channel, the subscription and the
\* clock say.
PoolInv ==
  /\ WgCounts
  /\ pc \in {"start", "enter"} => Live = {}
  /\ Centralized /\ pc \notin {"spawn", "batch"} => Live = {}
  /\ closed => pc = "returned"
  /\ Centralized => ~crashed
  /\ pc = "change" => statusCh # <<>>
  /\ ran <= since

\* A worker holds its id until its deferred Delete.  Centralized, the spawning loop has passed
\* the ids of its batch; alone, in the ladder mode, the map keeps an id while it is held.
Holding == {"head", "scene", "unmap"}

IdInv ==
  /\ Centralized =>
       /\ pc = "spawn" => \A g \in Live : gid[g] < cursor
       /\ \A g, h \in Live : gid[g] = gid[h] => g = h
  /\ ~Centralized /\ mode = "ladder" =>
       /\ \A g, h \in Live : gid[g] = gid[h] /\ {gpc[g], gpc[h]} \subseteq Holding => g = h
       /\ pc \notin ReturnPc => \A g \in Live : gpc[g] \in Holding => gid[g] \in concurrentMap

USE DEF WorkerPc, Centralized

\* The figures of a configuration are in their ranges.
LEMMA StatusFigures ==
  ASSUME TaskTypeOK, NEW m \in Messages[controlMode]
  PROVE  /\ {m.startConcurrency, m.maxConcurrency} \subseteq 0 .. MaxLevel
         /\ {m.stepRunTime, m.duration} \subseteq 0 .. MaxDuration
         /\ m.duration > 0 \/ m.maxConcurrency <= MaxDuration
         /\ m.step \in Nat
<1>1. m \in StatusMessage
  BY TaskAssumption DEF TaskTypeOK
<1>2. QED
  BY <1>1, LadderAssumption DEF StatusMessage, TaskTypeOK

\* A stage climbs to a concurrency that somebody asked for or stays below it.
LEMMA NextLevelType ==
  ASSUME TypeOK
  PROVE  /\ NextLevel \in 0 .. MaxLevel
         /\ concurrent <= maxConcurrent => concurrent <= NextLevel /\ NextLevel <= maxConcurrent
<1>1. /\ concurrent \in 0 .. MaxLevel /\ maxConcurrent \in 0 .. MaxLevel /\ step \in Nat
      /\ MaxLevel \in Nat
  BY LadderAssumption DEF TypeOK
<1>2. QED
  BY <1>1 DEF NextLevel, StageOver

\* The first state is typed and has no worker.
LEMMA InitInv == Init => TypeOK /\ PoolInv /\ IdInv
<1> SUFFICES ASSUME Init PROVE TypeOK /\ PoolInv /\ IdInv
  OBVIOUS
<1>1. Live = {}
  BY DEF Init, TaskInit, Live
<1>2. WgCounts
  BY <1>1, FS_EmptySet DEF WgCounts, Init, TaskInit
<1>3. TaskTypeOK
  BY TaskInitTypes DEF Init
<1>4. TypeOK
  <2>1. 0 \in 0 .. MaxLevel /\ 0 \in 0 .. MaxDuration + 1
    BY LadderAssumption
  <2>2. lookup \in [Goroutine -> {Sharing} \cup 0 .. MaxLevel]
    BY <2>1 DEF Init
  <2>3. /\ {concurrent, maxConcurrent} \subseteq 0 .. MaxLevel
        /\ {stepRunTime, stableDuration} \subseteq 0 .. MaxDuration
        /\ step \in Nat
    BY LadderAssumption DEF Init
  <2>4. rpsMap \subseteq Event /\ rpsTag \in BOOLEAN /\ mode \in Modes /\ target = 0
    BY DEF Init
  <2>5. pc \in FramePc /\ concurrentMap = {} /\ cursor = 0 /\ outcome = "none" /\ levels = {}
        /\ ran = 0 /\ since = 0
    BY DEF Init, TaskInit, FramePc
  <2>6. QED
    BY <1>3, <2>1, <2>2, <2>3, <2>4, <2>5 DEF TypeOK
<1>5. PoolInv /\ IdInv
  BY <1>1, <1>2 DEF Init, TaskInit, PoolInv, IdInv
<1>6. QED
  BY <1>4, <1>5

\* The controller's steps keep the types, and the clock no earlier than the last measurement.
LEMMA ControllerTypes ==
  ASSUME TypeOK, PoolInv, Controller, UNCHANGED controlMode
  PROVE  TypeOK' /\ ran' <= since'
<1> USE DEF KeepPipe, KeepPool, KeepRps, KeepLadder, KeepClock
<1>1. TaskTypeOK
  BY DEF TypeOK
<1>2. ran <= since /\ {ran, since} \subseteq 0 .. MaxDuration + 1 /\ MaxDuration \in Nat /\ MaxLevel \in Nat
  BY LadderAssumption DEF TypeOK, PoolInv
<1>3. CASE Enter
  BY <1>2, <1>3 DEF Enter, TypeOK, TaskTypeOK
<1>4. CASE CheckTime
  BY <1>2, <1>4 DEF CheckTime, TypeOK, TaskTypeOK, FramePc
<1>5. CASE StayBelow \/ FailToRead \/ ReachThreshold
  <2>1. /\ UNCHANGED <<rpsMap, rpsTag, concurrent, stepRunTime>> /\ KeepQuery
        /\ pc' \in {"select", "clearStart", "drain"}
        /\ outcome' \in {outcome, "unreadable", "threshold"}
    BY <1>5 DEF StayBelow, FailToRead, ReachThreshold
  <2>2. TaskTypeOK'
    BY <1>1, <2>1 DEF KeepQuery, TaskTypeOK
  <2>3. QED
    BY <1>2, <2>1, <2>2 DEF KeepQuery, TypeOK, FramePc
<1>6. CASE TickOff
  <2>1. /\ UNCHANGED outcome /\ KeepQuery /\ pc' = "select"
        /\ rpsMap' \subseteq rpsMap
        /\ concurrent' \in {concurrent, maxConcurrent} /\ stepRunTime' \in {stepRunTime, stableDuration}
        /\ rpsTag' \in {rpsTag, TRUE}
    BY <1>6 DEF TickOff, ToTheTop
  <2>2. TaskTypeOK'
    BY <1>1, <2>1 DEF KeepQuery, TaskTypeOK
  <2>3. QED
    BY <1>2, <2>1, <2>2 DEF KeepQuery, TypeOK
<1>7. CASE TakeOtherMessage
  BY <1>2, <1>7 DEF TakeOtherMessage, TypeOK, TaskTypeOK
<1>8. CASE TakeStop
  <2>1. concurrentMap' \subseteq concurrentMap /\ outcome' \in {outcome, "stopped"}
        /\ pc' \in {"clearStart", "measure"}
    BY <1>8 DEF TakeStop
  <2>2. TaskTypeOK'
    BY <1>1, <1>8 DEF TakeStop, TaskTypeOK
  <2>3. QED
    BY <1>2, <1>8, <2>1, <2>2 DEF TakeStop, TypeOK, FramePc
<1>9. CASE TakeNilModeConf
  BY <1>2, <1>9 DEF TakeNilModeConf, TypeOK, TaskTypeOK, FramePc
<1>10. CASE TakeChange
  BY <1>2, <1>10 DEF TakeChange, TypeOK, TaskTypeOK
<1>11. CASE ApplyChange
  <2> DEFINE m == Head(statusCh)
  <2>1. statusCh # <<>>
    BY <1>11 DEF PoolInv, ApplyChange
  <2>2. m \in Messages[controlMode] /\ statusCh' \in Seq(Messages[controlMode])
    BY <1>1, <1>11, <2>1 DEF ApplyChange, TaskTypeOK
  <2>3. /\ {m.startConcurrency, m.maxConcurrency} \subseteq 0 .. MaxLevel
        /\ {m.stepRunTime, m.duration} \subseteq 0 .. MaxDuration
        /\ m.duration > 0 \/ m.maxConcurrency <= MaxDuration
        /\ m.step \in Nat
    BY <1>1, <2>2, StatusFigures
  <2> HIDE DEF m
  <2>4. /\ concurrent' = IfSet(m.startConcurrency, concurrent)
        /\ stepRunTime' = IfSet(m.stepRunTime, stepRunTime)
        /\ step' \in {step, m.step}
        /\ maxConcurrent' = IfSet(m.maxConcurrency, maxConcurrent)
        /\ stableDuration' = StableTime(m)
        /\ ran' = IF m.stepRunTime > 0 THEN 0 ELSE ran
        /\ since' = IF m.stepRunTime > 0 THEN 0 ELSE since
        /\ concurrentMap' \subseteq concurrentMap
        /\ pc' = "measure" /\ UNCHANGED <<target, cursor, outcome, levels, mode, rpsMap, rpsTag, lookup>>
    BY <1>11 DEF ApplyChange, IfSet, m
  <2>5. {concurrent', maxConcurrent'} \subseteq 0 .. MaxLevel
    BY <2>3, <2>4 DEF IfSet, TypeOK
  <2>6. {stepRunTime', stableDuration'} \subseteq 0 .. MaxDuration
    <3>1. stepRunTime' \in 0 .. MaxDuration
      BY <2>3, <2>4 DEF IfSet, TypeOK
    <3>2. stableDuration' \in 0 .. MaxDuration
      BY <1>2, <2>3, <2>4 DEF StableTime, IfSet, TypeOK
    <3>3. QED
      BY <3>1, <3>2
  <2>7. TaskTypeOK'
    BY <1>1, <1>11, <2>2 DEF ApplyChange, TaskTypeOK
  <2>8. {ran', since'} \subseteq 0 .. MaxDuration + 1 /\ ran' <= since'
    <3>1. (ran' = 0 /\ since' = 0) \/ (ran' = ran /\ since' = since)
      BY <2>4
    <3>2. QED
      BY <1>2, <3>1
  <2>9. QED
    BY <2>3, <2>4, <2>5, <2>6, <2>7, <2>8 DEF TypeOK
<1>12. CASE StartSpawning
  <2>1. cursor' \in 0 .. MaxLevel /\ levels' \subseteq 0 .. MaxLevel
    <3>1. concurrent \in 0 .. MaxLevel /\ levels \subseteq 0 .. MaxLevel
      BY DEF TypeOK
    <3>2. cursor' = 0 /\ levels' = levels \cup {concurrent}
      BY <1>12 DEF StartSpawning
    <3>3. QED
      BY <1>2, <3>1, <3>2
  <2>2. TaskTypeOK' /\ pc' = "spawn"
    BY <1>1, <1>12 DEF StartSpawning, TaskTypeOK
  <2>3. QED
    BY <1>2, <1>12, <2>1, <2>2 DEF StartSpawning, TypeOK
<1>13. CASE SkipId
  <2>1. cursor' \in 0 .. MaxLevel
    BY <1>2, <1>13 DEF SkipId, TypeOK
  <2>2. QED
    BY <1>2, <1>13, <2>1 DEF SkipId, TypeOK, TaskTypeOK
<1>14. ASSUME NEW g \in Goroutine, Spawn(g) PROVE TypeOK' /\ ran' <= since'
  <2>1. cursor \in 0 .. MaxLevel - 1 /\ cursor' \in 0 .. MaxLevel
    BY <1>2, <1>14 DEF Spawn, TypeOK
  <2>2. concurrentMap' \subseteq 0 .. MaxLevel - 1
    BY <1>14, <2>1 DEF Spawn, TypeOK
  <2>3. lookup' \in [Goroutine -> {Sharing} \cup 0 .. MaxLevel]
    BY <1>14, <2>1 DEF Spawn, TypeOK
  <2>4. TaskTypeOK'
    BY <1>1, <1>14, <2>1 DEF Spawn, Go, TaskTypeOK
  <2>5. QED
    BY <1>2, <1>14, <2>1, <2>2, <2>3, <2>4 DEF Spawn, TypeOK
<1>15. CASE EndSpawning
  <2>1. lookup' \in [Goroutine -> {Sharing} \cup 0 .. MaxLevel]
    BY <1>15 DEF EndSpawning, TypeOK
  <2>2. 0 \in 0 .. MaxLevel
    BY <1>2
  <2>3. QED
    BY <1>2, <1>15, <2>1, <2>2 DEF EndSpawning, TypeOK, TaskTypeOK
<1>16. CASE Wait
  BY <1>2, <1>16 DEF Wait, TypeOK, TaskTypeOK, FramePc
<1>17. CASE Measure
  BY <1>2, <1>17 DEF Measure, TypeOK, TaskTypeOK
<1>18. CASE Finish
  BY <1>2, <1>18 DEF Finish, TypeOK, TaskTypeOK, FramePc
<1>19. CASE Climb
  <2>1. concurrent' \in 0 .. MaxLevel
    BY <1>19, NextLevelType DEF Climb
  <2>2. stepRunTime' \in {stepRunTime, stableDuration} /\ target' \in {target, 1}
    BY <1>19 DEF Climb
  <2>3. {ran', since'} \subseteq 0 .. MaxDuration + 1 /\ ran' <= since'
    <3>1. (ran' = 0 /\ since' = since - ran) \/ (ran' = ran /\ since' = since)
      BY <1>19 DEF Climb
    <3>2. QED
      BY <1>2, <3>1
  <2>4. TaskTypeOK'
    BY <1>1, <1>19 DEF Climb, TaskTypeOK
  <2>5. /\ pc' = "loop"
        /\ UNCHANGED <<step, maxConcurrent, stableDuration, concurrentMap, cursor, outcome, levels,
                       mode, rpsMap, rpsTag, lookup>>
    BY <1>19 DEF Climb
  <2>6. QED
    BY <2>1, <2>2, <2>3, <2>4, <2>5 DEF TypeOK
<1>20. QED
  BY <1>3, <1>4, <1>5, <1>6, <1>7, <1>8, <1>9, <1>10, <1>11, <1>12, <1>13, <1>14, <1>15, <1>16,
     <1>17, <1>18, <1>19
     DEF Controller, Iteration, ErrorRateModel, RTModel, RPSModel

\* A spawn is a Go at the cursor.
LEMMA SpawnMoves ==
  ASSUME TypeOK, PoolInv, NEW g \in Goroutine, Spawn(g)
  PROVE  /\ WgCounts' /\ Live' = Live \cup {g} /\ g \notin Live
         /\ gid'[g] = cursor /\ gpc'[g] = "head" /\ cursor' = cursor + 1
         /\ \A h \in Live : gid'[h] = gid[h] /\ gpc'[h] = gpc[h]
         /\ pc = "spawn" /\ pc' = "spawn" /\ UNCHANGED <<closed, crashed, mode, ran, since, statusCh>>
<1>1. gpc \in [Goroutine -> WorkerPc] /\ gid \in [Goroutine -> Nat]
  BY DEF TypeOK, TaskTypeOK
<1>2. WgCounts' /\ Live' = Live \cup {g} /\ g \notin Live
  <2>1. WgCounts' /\ Live' = Live \cup {g}
    BY <1>1, GoCounts DEF Spawn, PoolInv
  <2>2. QED
    BY <2>1 DEF Spawn, Go, Live
<1>3. gid'[g] = cursor /\ gpc'[g] = "head"
  BY <1>1 DEF Spawn, Go
<1>4. \A h \in Live : gid'[h] = gid[h] /\ gpc'[h] = gpc[h]
  BY <1>1, <1>2 DEF Spawn, Go, Live
<1>5. QED
  BY <1>2, <1>3, <1>4 DEF Spawn, KeepPipe, KeepLadder, KeepRps, KeepClock

\* Every other step of the controller leaves the pool alone.
LEMMA ControllerMoves ==
  ASSUME Controller, ~ \E g \in Goroutine : Spawn(g)
  PROVE  UNCHANGED <<gpc, gid, wg, closed, crashed, mode, published, Live>>
<1>1. UNCHANGED <<gpc, gid, wg, closed, crashed, mode, published>>
  <2>1. CASE StayBelow \/ FailToRead \/ ReachThreshold \/ TickOff
    BY <2>1 DEF StayBelow, FailToRead, ReachThreshold, TickOff, KeepQuery, KeepPool, KeepPipe
  <2>2. CASE ~(StayBelow \/ FailToRead \/ ReachThreshold \/ TickOff)
    BY <2>2 DEF Controller, ErrorRateModel, RTModel, RPSModel, Iteration, Enter, CheckTime,
       TakeOtherMessage, TakeStop, TakeNilModeConf, TakeChange, ApplyChange, StartSpawning, SkipId,
       EndSpawning, Wait, Measure, Finish, Climb, KeepPool, KeepPipe, KeepLadder, KeepRps
  <2>3. QED
    BY <2>1, <2>2
<1>2. QED
  BY <1>1 DEF Live

\* Where a step of the controller leads.
LEMMA ControllerPc ==
  ASSUME Controller
  PROVE  /\ pc \notin ReturnPc \cup {"start"} /\ pc' \notin {"start", "enter"}
         /\ pc' \notin FramePc \ {"clearStart"}
         /\ pc' = "change" => statusCh' # <<>>
         /\ pc \in {"spawn", "batch"} /\ pc' \notin {"spawn", "batch"} => Wait \/ ~Centralized
         /\ pc' = "spawn" => StartSpawning \/ SkipId \/ \E g \in Goroutine : Spawn(g)
<1>1. CASE StayBelow \/ FailToRead \/ ReachThreshold \/ TickOff
  <2>1. pc = "query" /\ pc' \in {"select", "clearStart", "drain"}
    BY <1>1 DEF StayBelow, FailToRead, ReachThreshold, TickOff, Query
  <2>2. QED
    BY <2>1 DEF ReturnPc, FramePc
<1>2. CASE ~(StayBelow \/ FailToRead \/ ReachThreshold \/ TickOff)
  BY <1>2 DEF Controller, ErrorRateModel, RTModel, RPSModel, Iteration, Enter, CheckTime,
     TakeOtherMessage, TakeStop, TakeNilModeConf, TakeChange, ApplyChange, StartSpawning, SkipId, Spawn,
     EndSpawning, Wait, Measure, Finish, Climb, ReturnPc, FramePc
<1>3. QED
  BY <1>1, <1>2

\* Centralized, the controller leaves a batch only through Wait.
LEMMA ControllerPool ==
  ASSUME TypeOK, PoolInv, Controller, UNCHANGED controlMode
  PROVE  PoolInv'
<1>1. ran' <= since'
  BY ControllerTypes
<1>2. ASSUME NEW g \in Goroutine, Spawn(g) PROVE PoolInv'
  BY <1>1, <1>2, SpawnMoves DEF PoolInv
<1>3. CASE ~ \E g \in Goroutine : Spawn(g)
  <2>1. UNCHANGED <<gpc, wg, closed, crashed, Live>>
    BY <1>3, ControllerMoves
  <2>2. WgCounts'
    BY <2>1 DEF PoolInv, WgCounts
  <2>3. Centralized /\ pc' \notin {"spawn", "batch"} => Live = {}
    <3>1. CASE Wait
      BY <3>1, ZeroIsEmpty DEF Wait, PoolInv
    <3>2. CASE ~Wait
      BY <3>2, ControllerPc DEF PoolInv
    <3>3. QED
      BY <3>1, <3>2
  <2>4. ~closed
    BY ControllerPc DEF PoolInv, ReturnPc, FramePc
  <2>5. QED
    BY <1>1, <2>1, <2>2, <2>3, <2>4, ControllerPc DEF PoolInv
<1>4. QED
  BY <1>2, <1>3

\* What a worker's step leaves alone.
LEMMA WorkerMoves ==
  ASSUME TypeOK, PoolInv, NEW g \in Goroutine, Worker(g), UNCHANGED controlMode
  PROVE  /\ UNCHANGED <<pc, closed, statusCh, published, mode, ran, since, cursor, concurrent, step,
                        maxConcurrent, stepRunTime, stableDuration, target, outcome, levels, rpsMap>>
         /\ WgCounts' /\ g \in Live
         /\ Live' = Live \/ Live' = Live \ {g}
         /\ \A h \in Live' : gid'[h] = gid[h]
         /\ \A h \in Live \ {g} : gpc'[h] = gpc[h]
         /\ Unmap(g) => gpc[g] = "unmap" /\ gpc'[g] = "done"
                        /\ concurrentMap' = concurrentMap \ {gid[g]}
         /\ ~Unmap(g) => concurrentMap' = concurrentMap /\ (gpc'[g] \in Holding => gpc[g] \in Holding)
<1>1. gpc \in [Goroutine -> WorkerPc] /\ gid \in [Goroutine -> Nat] /\ WgCounts
  BY DEF TypeOK, TaskTypeOK, PoolInv
<1>2. UNCHANGED <<pc, closed, statusCh, published, mode, ran, since, cursor, concurrent, step,
                  maxConcurrent, stepRunTime, stableDuration, target, outcome, levels, rpsMap>>
  BY DEF Worker, StartScene, SendResult, SceneReturns, Quit, Unmap, WorkerDone, modeVars, KeepRps
<1>3. g \in Live /\ gpc[g] # "free"
  BY DEF Worker, StartScene, SendResult, SceneReturns, Quit, Unmap, WorkerDone, Live
<1>4. Unmap(g) => gpc[g] = "unmap" /\ gpc'[g] = "done" /\ concurrentMap' = concurrentMap \ {gid[g]}
  BY <1>1 DEF Unmap
<1>5. ~Unmap(g) => concurrentMap' = concurrentMap /\ (gpc'[g] \in Holding => gpc[g] \in Holding)
  <2>1. ~Unmap(g) => concurrentMap' = concurrentMap
    BY DEF Worker, StartScene, SendResult, SceneReturns, Quit, WorkerDone, modeVars
  <2>2. ~Unmap(g) /\ gpc'[g] \in Holding => gpc[g] \in Holding
    BY <1>1 DEF Worker, StartScene, EnterScene, SendResult, SceneReturns, Quit, WorkerDone, Holding
  <2>3. QED
    BY <2>1, <2>2
<1>6. \A h \in Live \ {g} : gpc'[h] = gpc[h]
  BY <1>1 DEF Worker, StartScene, EnterScene, SendResult, SceneReturns, Quit, Unmap, WorkerDone, Live
<1>7. CASE WorkerDone(g)
  <2>1. WgCounts' /\ Live' = Live \ {g}
    BY <1>1, <1>7, DoneCounts
  <2>2. \A h \in Live' : gid'[h] = gid[h]
    BY <1>1, <1>7, <2>1 DEF WorkerDone, Live
  <2>3. QED
    BY <1>2, <1>3, <1>4, <1>5, <1>6, <2>1, <2>2
<1>8. CASE ~WorkerDone(g)
  <2>1. wg' = wg /\ gid' = gid /\ \E next \in WorkerPc \ {"free"} : gpc' = [gpc EXCEPT ![g] = next]
    <3>1. CASE StartScene(g)
      BY <3>1 DEF StartScene, EnterScene
    <3>2. CASE SendResult(g)
      BY <1>1, <1>3, <3>2 DEF SendResult
    <3>3. CASE SceneReturns(g, IF Centralized THEN "unmap" ELSE "head")
      BY <3>3 DEF SceneReturns
    <3>4. CASE Quit(g)
      BY <3>4 DEF Quit
    <3>5. CASE Unmap(g)
      BY <3>5 DEF Unmap
    <3>6. QED
      BY <1>8, <3>1, <3>2, <3>3, <3>4, <3>5 DEF Worker
  <2>2. WgCounts' /\ Live' = Live
    BY <1>1, <1>3, <2>1, MoveCounts
  <2>3. QED
    BY <1>2, <1>3, <1>4, <1>5, <1>6, <2>1, <2>2
<1>9. QED
  BY <1>7, <1>8

\* Centralized, a worker never finds the channel closed.
LEMMA WorkerPool ==
  ASSUME TypeOK, PoolInv, NEW g \in Goroutine, Worker(g), UNCHANGED controlMode, ~crashed
  PROVE  PoolInv'
<1>1. /\ UNCHANGED <<pc, closed, statusCh, ran, since>>
      /\ WgCounts' /\ g \in Live /\ Live' \subseteq Live
  BY WorkerMoves
<1>2. Centralized => ~crashed'
  <2>1. Centralized => pc # "returned" /\ ~closed
    BY <1>1 DEF PoolInv
  <2>2. QED
    BY <2>1 DEF Worker, StartScene, SendResult, SceneReturns, Quit, Unmap, WorkerDone
<1>3. QED
  BY <1>1, <1>2 DEF PoolInv

\* A worker's steps keep the types.
LEMMA WorkerTypes ==
  ASSUME TypeOK, PoolInv, NEW g \in Goroutine, Worker(g), UNCHANGED controlMode
  PROVE  TypeOK'
<1>1. CASE Unmap(g)
  <2>1. TaskTypeOK'
    BY <1>1 DEF Unmap, TaskTypeOK, TypeOK
  <2>2. lookup' \in [Goroutine -> {Sharing} \cup 0 .. MaxLevel]
    BY <1>1, LadderAssumption DEF Unmap, TypeOK
  <2>3. QED
    BY <1>1, <2>1, <2>2 DEF Unmap, TypeOK, KeepRps
<1>2. CASE ~Unmap(g)
  <2>1. UNCHANGED <<modeVars, pc>>
    BY <1>2 DEF Worker, StartScene, SendResult, SceneReturns, Quit, WorkerDone
  <2>2. TaskTypeOK'
    <3>1. CASE StartScene(g)
      <4>1. todo' \in [Goroutine -> 0 .. SceneSize]
        BY <3>1 DEF StartScene, EnterScene, TaskTypeOK, TypeOK
      <4>2. QED
        BY <3>1, <4>1 DEF StartScene, EnterScene, TaskTypeOK, TypeOK
    <3>2. CASE SendResult(g)
      BY <3>2, SendResultTypes DEF TypeOK
    <3>3. CASE SceneReturns(g, IF Centralized THEN "unmap" ELSE "head")
      BY <3>3 DEF SceneReturns, TaskTypeOK, TypeOK
    <3>4. CASE Quit(g)
      BY <3>4 DEF Quit, TaskTypeOK, TypeOK
    <3>5. CASE WorkerDone(g)
      <4>1. gpc \in [Goroutine -> WorkerPc] /\ WgCounts
        BY DEF TypeOK, TaskTypeOK, PoolInv
      <4>2. wg \in Nat \ {0} /\ wg' = wg - 1
        BY <3>5, <4>1, DoneCounts DEF WorkerDone
      <4>3. wg' \in Nat
        BY <4>2
      <4>4. QED
        BY <3>5, <4>3 DEF WorkerDone, TaskTypeOK, TypeOK
    <3>6. QED
      BY <1>2, <3>1, <3>2, <3>3, <3>4, <3>5 DEF Worker
  <2>3. QED
    BY <2>1, <2>2 DEF TypeOK, modeVars
<1>3. QED
  BY <1>1, <1>2

\* The steps around the mode keep the pool as it is; only Close closes the channel.
LEMMA FrameStep ==
  ASSUME TypeOK, PoolInv, UNCHANGED <<controlMode, modeVars>>,
         TaskDecomposition \/ SendKafkaMsg \/ Publish
  PROVE  /\ TypeOK' /\ PoolInv' /\ UNCHANGED <<gpc, gid, Live>>
         /\ \/ pc' = pc /\ pc \notin {"start"}
            \/ pc = "start" /\ pc' \in {"start", "enter"}
            \/ pc \in ReturnPc /\ pc' \in ReturnPc
         /\ published' = 0 => published = 0 /\ statusCh' = statusCh
<1>1. TaskTypeOK'
  BY TaskDecompositionTypes, SendKafkaMsgTypes, PublishTypes DEF TypeOK
<1>2. /\ \/ pc' = pc /\ pc \notin {"start"}
         \/ pc = "start" /\ pc' \in {"start", "enter"}
         \/ pc \in ReturnPc /\ pc' \in ReturnPc
      /\ pc' = pc => statusCh' = statusCh \/ statusCh' # <<>>
  BY DEF TaskDecomposition, SendStart, ClearStart, SetEnd, SendEnd, Close, SendKafkaMsg, Publish,
     ReturnPc, FramePc, TypeOK, TaskTypeOK
<1>3. TypeOK'
  BY <1>1, <1>2 DEF TypeOK, modeVars, ReturnPc, FramePc
<1>4. UNCHANGED <<gpc, gid, wg, crashed>>
  BY DEF TaskDecomposition, SendKafkaMsg, Publish
<1>5. UNCHANGED Live /\ WgCounts'
  BY <1>4 DEF Live, WgCounts, PoolInv
<1>6. closed' => pc' = "returned"
  BY DEF PoolInv, TaskDecomposition, SendStart, ClearStart, SetEnd, SendEnd, Close,
     SendKafkaMsg, Publish, Receive, Marshal, SendMessage, SendFails, SenderDone, FramePc
<1>7. published' = 0 => published = 0 /\ statusCh' = statusCh
  BY DEF TaskDecomposition, SendKafkaMsg, Publish, TypeOK, TaskTypeOK
<1>8. PoolInv'
  BY <1>2, <1>4, <1>5, <1>6 DEF PoolInv, modeVars, ReturnPc, FramePc
<1>9. QED
  BY <1>2, <1>3, <1>4, <1>5, <1>7, <1>8

\* Time passes without touching anything else.
LEMMA TickStep ==
  ASSUME TypeOK, PoolInv, Tick
  PROVE  TypeOK' /\ PoolInv' /\ UNCHANGED Live
<1>1. UNCHANGED taskVars
  BY DEF Tick
<1>2. since' \in 0 .. MaxDuration + 1 /\ ran' = ran /\ ran <= since'
  BY LadderAssumption DEF Tick, TypeOK, PoolInv
<1>3. TaskTypeOK' /\ UNCHANGED Live
  BY <1>1 DEF TypeOK, TaskTypeOK, Live, taskVars
<1>4. PoolInv'
  BY <1>1, <1>2, <1>3 DEF PoolInv, WgCounts, taskVars
<1>5. QED
  BY <1>1, <1>2, <1>3, <1>4 DEF TypeOK, Tick, taskVars, KeepRps

\* Every step of the specification keeps both.
LEMMA StepInv ==
  ASSUME TypeOK, PoolInv, [Next]_vars
  PROVE  TypeOK' /\ PoolInv'
<1>1. CASE Controller /\ UNCHANGED controlMode
  BY <1>1, ControllerTypes, ControllerPool
<1>2. ASSUME ~crashed, UNCHANGED controlMode, NEW g \in Goroutine, Worker(g)
      PROVE  TypeOK' /\ PoolInv'
  BY <1>2, WorkerTypes, WorkerPool
<1>3. CASE (TaskDecomposition \/ SendKafkaMsg \/ Publish) /\ UNCHANGED <<controlMode, modeVars>>
  BY <1>3, FrameStep
<1>4. CASE Tick
  BY <1>4, TickStep
<1>5. CASE UNCHANGED vars
  BY <1>5 DEF vars, taskVars, modeVars, TypeOK, TaskTypeOK, PoolInv, WgCounts, Live
<1>6. QED
  BY <1>1, <1>2, <1>3, <1>4, <1>5 DEF Next, Terminated

\* Every reachable state of the four modes is typed, under both control modes: no concurrency,
\* stage time or clock leaves the range of what was asked for.
THEOREM LadderTypes == Spec => []TypeOK
<1>1. TypeOK /\ PoolInv /\ [Next]_vars => TypeOK' /\ PoolInv'
  BY StepInv
<1>2. QED
  BY <1>1, InitInv, PTL DEF Spec

-----------------------------------------------------------------------------
(* Implementing ForkJoin                                                   *)

\* A step of a centralized mode is a step of ForkJoin or leaves its state alone; of the alone
\* modes only the phase is seen.
LEMMA StepRefines ==
  ASSUME TypeOK, PoolInv, PoolInv', [Next]_vars
  PROVE  [Promise!Next]_(Promise!vars)
<1> DEFINE phase == IF closed THEN "closed" ELSE IF pc \in ReturnPc THEN "joined" ELSE "forking"
<1> DEFINE live == {g \in Live : Centralized}
<1> USE DEF Promise!Next, Promise!vars
<1>1. ASSUME NEW g \in Goroutine, Spawn(g), UNCHANGED controlMode
      PROVE  [Promise!Next]_(Promise!vars)
  <2>1. /\ Live' = Live \cup {g} /\ g \notin Live
        /\ pc = "spawn" /\ pc' = "spawn" /\ closed' = closed
    BY <1>1, SpawnMoves
  <2>2. phase = "forking" /\ phase' = "forking"
    BY <2>1 DEF PoolInv, ReturnPc, FramePc
  <2>3. CASE Centralized
    <3>1. live' = live \cup {g} /\ g \notin live
      BY <1>1, <2>1, <2>3
    <3>2. Promise!Fork(g)
      BY <2>2, <3>1 DEF Promise!Fork
    <3>3. QED
      BY <3>2
  <2>4. CASE ~Centralized
    BY <1>1, <2>2, <2>4
  <2>5. QED
    BY <2>3, <2>4
<1>2. CASE Controller /\ UNCHANGED controlMode /\ ~ \E g \in Goroutine : Spawn(g)
  <2>1. UNCHANGED <<closed, Live>>
    BY <1>2, ControllerMoves
  <2>2. pc \notin ReturnPc
    BY <1>2, ControllerPc
  <2>3. live' = live /\ phase = "forking"
    BY <1>2, <2>1, <2>2 DEF PoolInv, ReturnPc, FramePc
  <2>4. CASE pc' \in ReturnPc
    <3>1. live = {} /\ phase' = "joined"
      BY <2>1, <2>2, <2>3, <2>4 DEF PoolInv, ReturnPc, FramePc
    <3>2. Promise!Join
      BY <2>3, <3>1 DEF Promise!Join
    <3>3. QED
      BY <3>2
  <2>5. CASE pc' \notin ReturnPc
    BY <2>1, <2>2, <2>3, <2>5
  <2>6. QED
    BY <2>4, <2>5
<1>3. ASSUME UNCHANGED controlMode, NEW g \in Goroutine, Worker(g)
      PROVE  [Promise!Next]_(Promise!vars)
  <2>1. UNCHANGED <<pc, closed>> /\ g \in Live /\ (Live' = Live \/ Live' = Live \ {g})
    BY <1>3, WorkerMoves
  <2>2. CASE live' = live
    BY <2>1, <2>2
  <2>3. CASE live' # live
    <3>1. g \in live /\ live' = live \ {g}
      BY <1>3, <2>1, <2>3
    <3>2. Promise!End(g)
      BY <2>1, <3>1 DEF Promise!End
    <3>3. QED
      BY <3>2
  <2>4. QED
    BY <2>2, <2>3
<1>4. CASE TaskDecomposition /\ UNCHANGED <<controlMode, modeVars>>
  <2>1. live' = live
    BY <1>4, FrameStep
  <2>2. CASE Close
    <3>1. phase = "joined" /\ phase' = "closed"
      BY <2>2 DEF Close, PoolInv, ReturnPc, FramePc
    <3>2. Promise!Close
      BY <2>1, <3>1 DEF Promise!Close
    <3>3. QED
      BY <3>2
  <2>3. CASE ~Close
    <3>1. phase' = phase
      BY <1>4, <2>3 DEF TaskDecomposition, SendStart, ClearStart, SetEnd, SendEnd, ReturnPc, FramePc
    <3>2. QED
      BY <2>1, <3>1
  <2>4. QED
    BY <2>2, <2>3
<1>5. CASE (SendKafkaMsg \/ Publish) /\ UNCHANGED <<controlMode, modeVars>>
  <2>1. live' = live
    BY <1>5, FrameStep
  <2>2. UNCHANGED <<pc, closed>>
    BY <1>5 DEF SendKafkaMsg, Publish, Receive, Marshal, SendMessage, SendFails, SenderDone
  <2>3. QED
    BY <2>1, <2>2
<1>6. CASE Tick
  <2>1. UNCHANGED <<Live, pc, closed, controlMode>>
    BY <1>6, TickStep DEF Tick, taskVars
  <2>2. QED
    BY <2>1
<1>7. CASE UNCHANGED vars
  BY <1>7 DEF vars, taskVars, Live
<1>8. QED
  BY <1>1, <1>2, <1>3, <1>4, <1>5, <1>6, <1>7 DEF Next, Terminated

\* Centralized, each of the four modes implements ForkJoin: it returns, and lets the channel
\* be closed, only when the batch it started has ended.  No message and no report can
\* break the promise, unlike under the alone control mode.
THEOREM LadderRefinesForkJoin == Spec => JoinsItsWorkers
<1>1. Init => Promise!Init
  BY DEF Init, TaskInit, Promise!Init, Live, ReturnPc, FramePc
<1>2. TypeOK /\ PoolInv /\ PoolInv' /\ [Next]_vars => [Promise!Next]_(Promise!vars)
  BY StepRefines
<1>3. TypeOK /\ PoolInv /\ [Next]_vars => TypeOK' /\ PoolInv'
  BY StepInv
<1>4. QED
  BY <1>1, <1>2, <1>3, InitInv, PTL DEF Spec, JoinsItsWorkers, Promise!Spec

-----------------------------------------------------------------------------
(* Ids                                                                     *)

\* Alone, the ladder mode takes an id out of the map only when it returns.
LEMMA LadderKeepsIds ==
  ASSUME TypeOK, Controller, mode = "ladder", ~Centralized
  PROVE  pc' \in ReturnPc \/ concurrentMap \subseteq concurrentMap'
<1>1. Discarded(Head(statusCh), concurrent', maxConcurrent') = {}
  BY DEF Discarded, Deletes
<1>2. CASE StayBelow \/ FailToRead \/ ReachThreshold \/ TickOff
  BY <1>2 DEF StayBelow, FailToRead, ReachThreshold, TickOff, KeepQuery
<1>3. CASE ~(StayBelow \/ FailToRead \/ ReachThreshold \/ TickOff)
  BY <1>1, <1>3 DEF Controller, ErrorRateModel, RTModel, RPSModel, Iteration, Enter, CheckTime,
     TakeOtherMessage, TakeStop, Returns, TakeNilModeConf, TakeChange, ApplyChange, StartSpawning,
     SkipId, Spawn, EndSpawning, Wait, Measure, Finish, Climb, ReturnPc, FramePc
<1>4. QED
  BY <1>2, <1>3

\* The controller gives out only ids that no worker holds.
LEMMA ControllerIds ==
  ASSUME TypeOK, PoolInv, IdInv, Controller, UNCHANGED controlMode
  PROVE  IdInv'
<1>1. /\ gpc \in [Goroutine -> WorkerPc] /\ gid \in [Goroutine -> Nat]
      /\ Live \subseteq Goroutine /\ cursor \in Nat
  BY LadderAssumption DEF TypeOK, TaskTypeOK, Live
<1>2. ASSUME NEW g \in Goroutine, Spawn(g) PROVE IdInv'
  <2>1. /\ Live' = Live \cup {g} /\ g \notin Live
        /\ gid'[g] = cursor /\ gpc'[g] = "head" /\ cursor' = cursor + 1
        /\ \A h \in Live : gid'[h] = gid[h] /\ gpc'[h] = gpc[h]
        /\ pc = "spawn" /\ pc' = "spawn" /\ mode' = mode
    BY <1>2, SpawnMoves
  <2>2. ASSUME Centralized
        PROVE  /\ \A h \in Live' : gid'[h] < cursor'
               /\ \A h, k \in Live' : gid'[h] = gid'[k] => h = k
    <3>1. \A h \in Live : gid[h] \in Nat /\ gid[h] < cursor
      BY <1>1, <2>1, <2>2 DEF IdInv
    <3>2. \A h \in Live' : gid'[h] < cursor'
      BY <1>1, <2>1, <3>1
    <3>3. \A h \in Live : gid'[h] # gid'[g]
      BY <1>1, <2>1, <3>1
    <3>4. QED
      BY <2>1, <2>2, <3>2, <3>3 DEF IdInv
  <2>3. ASSUME ~Centralized, mode = "ladder"
        PROVE  /\ \A h, k \in Live' : gid'[h] = gid'[k] /\ {gpc'[h], gpc'[k]} \subseteq Holding => h = k
               /\ \A h \in Live' : gpc'[h] \in Holding => gid'[h] \in concurrentMap'
    <3>1. cursor \notin concurrentMap /\ concurrentMap' = concurrentMap \cup {cursor}
      BY <1>2, <2>3 DEF Spawn, NotStored
    <3>2. \A h \in Live : gpc[h] \in Holding => gid[h] \in concurrentMap
      BY <2>1, <2>3 DEF IdInv, ReturnPc, FramePc
    <3>3. \A h \in Live : gpc'[h] \in Holding => gid'[h] \in concurrentMap /\ gid'[h] # gid'[g]
      BY <2>1, <3>1, <3>2
    <3>4. \A h, k \in Live : gid'[h] = gid'[k] /\ {gpc'[h], gpc'[k]} \subseteq Holding => h = k
      BY <2>1, <2>3 DEF IdInv
    <3>5. QED
      BY <2>1, <3>1, <3>3, <3>4
  <2>4. QED
    BY <1>2, <2>1, <2>2, <2>3 DEF IdInv
<1>3. CASE ~ \E g \in Goroutine : Spawn(g)
  <2>1. UNCHANGED <<gpc, gid, mode, Live>>
    BY <1>3, ControllerMoves
  <2>2. ASSUME Centralized, pc' = "spawn", NEW h \in Live PROVE gid[h] < cursor'
    <3>1. CASE StartSpawning
      BY <2>2, <3>1 DEF StartSpawning, PoolInv
    <3>2. CASE SkipId
      <4>1. gid[h] \in Nat /\ gid[h] < cursor /\ cursor' = cursor + 1
        BY <1>1, <2>2, <3>2 DEF SkipId, IdInv
      <4>2. QED
        BY <1>1, <4>1
    <3>3. QED
      BY <1>3, <2>2, <3>1, <3>2, ControllerPc
  <2>3. ~Centralized /\ mode = "ladder" => pc' \in ReturnPc \/ concurrentMap \subseteq concurrentMap'
    BY LadderKeepsIds
  <2>4. pc \notin ReturnPc
    BY ControllerPc
  <2>5. QED
    BY <2>1, <2>2, <2>3, <2>4 DEF IdInv
<1>4. QED
  BY <1>2, <1>3

\* A worker takes no id, and deletes its own when it ceases to hold it.
LEMMA WorkerIds ==
  ASSUME TypeOK, PoolInv, IdInv, NEW g \in Goroutine, Worker(g), UNCHANGED controlMode
  PROVE  IdInv'
<1>1. /\ UNCHANGED <<pc, mode, cursor>>
      /\ g \in Live /\ Live' \subseteq Live
      /\ \A h \in Live' : gid'[h] = gid[h]
      /\ \A h \in Live \ {g} : gpc'[h] = gpc[h]
      /\ Unmap(g) => gpc[g] = "unmap" /\ gpc'[g] = "done"
                     /\ concurrentMap' = concurrentMap \ {gid[g]}
      /\ ~Unmap(g) => concurrentMap' = concurrentMap /\ (gpc'[g] \in Holding => gpc[g] \in Holding)
  BY WorkerMoves
<1>2. \A h \in Live' : gpc'[h] \in Holding => gpc[h] \in Holding
  BY <1>1 DEF Holding
<1>3. ASSUME ~Centralized, mode = "ladder", pc \notin ReturnPc, NEW h \in Live', gpc'[h] \in Holding
      PROVE  gid'[h] \in concurrentMap'
  <2>1. gid[h] \in concurrentMap /\ gpc[h] \in Holding
    BY <1>1, <1>2, <1>3 DEF IdInv
  <2>2. CASE Unmap(g)
    <3>1. h # g
      BY <1>1, <1>3, <2>2 DEF Holding
    <3>2. gid[h] # gid[g]
      BY <1>1, <1>3, <2>1, <2>2, <3>1 DEF IdInv, Holding
    <3>3. QED
      BY <1>1, <2>1, <2>2, <3>2
  <2>3. CASE ~Unmap(g)
    BY <1>1, <2>1, <2>3
  <2>4. QED
    BY <2>2, <2>3
<1>4. QED
  BY <1>1, <1>2, <1>3 DEF IdInv

\* Every step keeps IdInv.
LEMMA StepIds ==
  ASSUME TypeOK, PoolInv, IdInv, [Next]_vars
  PROVE  IdInv'
<1>1. CASE Controller /\ UNCHANGED controlMode
  BY <1>1, ControllerIds
<1>2. ASSUME UNCHANGED controlMode, NEW g \in Goroutine, Worker(g) PROVE IdInv'
  BY <1>2, WorkerIds
<1>3. CASE (TaskDecomposition \/ SendKafkaMsg \/ Publish) /\ UNCHANGED <<controlMode, modeVars>>
  <2>1. /\ UNCHANGED <<gpc, gid, Live, mode, concurrentMap, cursor, controlMode>>
        /\ pc' = "spawn" => pc = "spawn"
        /\ pc' \notin ReturnPc => pc \notin ReturnPc
    BY <1>3, FrameStep DEF modeVars, ReturnPc, FramePc
  <2>2. QED
    BY <2>1 DEF IdInv
<1>4. CASE Tick \/ UNCHANGED vars
  <2>1. UNCHANGED <<gpc, gid, Live, mode, concurrentMap, cursor, controlMode, pc>>
    BY <1>4 DEF Tick, taskVars, vars, modeVars, KeepRps, Live
  <2>2. QED
    BY <2>1 DEF IdInv
<1>5. QED
  BY <1>1, <1>2, <1>3, <1>4 DEF Next, Terminated

\* No two workers execute the scene under one id, centralized in all four modes and alone in
\* the ladder mode, whatever configuration changes, stops and panics arrive
\* (executionLadderModel.go:187-195).
THEOREM LadderOneSceneAtATime == Spec => []OneSceneAtATime
<1>1. TypeOK /\ PoolInv /\ [Next]_vars => TypeOK' /\ PoolInv'
  BY StepInv
<1>2. TypeOK /\ PoolInv /\ IdInv /\ [Next]_vars => IdInv'
  BY StepIds
<1>3. IdInv => OneSceneAtATime
  BY DEF IdInv, OneSceneAtATime, Holding
<1>4. QED
  BY <1>1, <1>2, <1>3, InitInv, PTL DEF Spec

-----------------------------------------------------------------------------
(* The rungs                                                               *)

\* What the code takes for granted of the configuration: it checks none of its parameters.
Climbable == StartConcurrency <= MaxConcurrency /\ StepRunTime > 0 /\ Duration > 0

\* Without a message the configuration stays; the top is entered once and the clock starts
\* again there, so that the loop is left by Finish or by what the report says.
QuietInv ==
  published = 0 =>
    /\ statusCh = <<>>
    /\ step = Step /\ maxConcurrent = MaxConcurrency /\ stableDuration = Duration
    /\ concurrent <= maxConcurrent /\ stepRunTime > 0
    /\ pc = "loop" => ran < stepRunTime
    /\ target = 1 => concurrent = maxConcurrent /\ stepRunTime = stableDuration
    /\ pc \in {"spawn", "batch", "measure", "climb"} => concurrent \in levels
    /\ IF pc \in {"drain"} \cup ReturnPc
       THEN \/ outcome \in {"threshold", "unreadable"}
            \/ outcome = "normal" /\ concurrent = maxConcurrent /\ concurrent \in levels
       ELSE outcome = "none"

\* A batch was started with every rung below the concurrency and with none above it.  With
\* a step of 0 the task stays on its first level.
Stairs == Rungs \cup {StartConcurrency}

StairsInv ==
  published = 0 /\ ~(mode = "rps" /\ rpsMap = {}) =>
    /\ concurrent \in Stairs
    /\ Step = 0 => concurrent = StartConcurrency
    /\ \A c \in levels : c \in Stairs /\ c <= concurrent
    /\ \A c \in Stairs : c < concurrent => c \in levels

\* Two multiples of a step are at least the step apart.
LEMMA NextMultiple ==
  ASSUME NEW s \in Nat \ {0}, NEW a \in Nat, NEW b \in Nat, a % s = 0, b % s = 0, a < b
  PROVE  a + s <= b
<1> DEFINE p == a \div s
<1> DEFINE q == b \div s
<1>1. a = s * p /\ p \in Int
  OBVIOUS
<1>2. b = s * q /\ q \in Int
  OBVIOUS
<1>3. p + 1 <= q
  <2> HIDE DEF p, q
  <2>1. SUFFICES ASSUME q <= p PROVE FALSE
    BY <1>1, <1>2
  <2>2. s * q <= s * p
    BY <1>1, <1>2, <2>1
  <2>3. QED
    BY <1>1, <1>2, <2>2
<1>4. s * (p + 1) <= s * q
  <2> HIDE DEF p, q
  <2> QED BY <1>1, <1>2, <1>3
<1>5. s * (p + 1) = a + s
  <2> HIDE DEF p, q
  <2> QED BY <1>1
<1> QED BY <1>2, <1>4, <1>5

\* The sum of a multiple of a step and the step is a multiple of it.
LEMMA AddMultiple ==
  ASSUME NEW s \in Nat \ {0}, NEW a \in Nat, a % s = 0
  PROVE  (a + s) % s = 0
<1> DEFINE p == a \div s
<1> DEFINE q == (a + s) \div s
<1> DEFINE r == (a + s) % s
<1>1. a = s * p /\ p \in Int
  OBVIOUS
<1>2. a + s = s * q + r /\ q \in Int /\ r \in 0 .. s - 1
  OBVIOUS
<1> HIDE DEF p, q, r
<1>3. s * (p + 1 - q) = r
  <2>1. s * (p + 1 - q) = s * p + s - s * q
    BY <1>1, <1>2
  <2>2. QED
    BY <1>1, <1>2, <2>1
<1>4. ~(p + 1 - q >= 1)
  <2>1. p + 1 - q >= 1 => s * (p + 1 - q) >= s
    BY <1>1, <1>2
  <2>2. QED
    BY <1>2, <1>3, <2>1
<1>5. ~(p + 1 - q <= -1)
  <2>1. p + 1 - q <= -1 => s * (p + 1 - q) <= -s
    BY <1>1, <1>2
  <2>2. QED
    BY <1>2, <1>3, <2>1
<1>6. p + 1 - q = 0
  BY <1>1, <1>2, <1>4, <1>5
<1>7. r = 0
  BY <1>1, <1>2, <1>3, <1>6
<1> QED BY <1>7 DEF r

\* The first state is on the first rung.
LEMMA InitRungs == Climbable /\ Init => QuietInv /\ StairsInv
<1> SUFFICES ASSUME Climbable, Init PROVE QuietInv /\ StairsInv
  OBVIOUS
<1>1. QuietInv
  BY DEF Climbable, Init, TaskInit, QuietInv, ReturnPc, FramePc
<1>2. concurrent = StartConcurrency /\ levels = {}
  BY DEF Init
<1>3. \A c \in Stairs : ~(c < StartConcurrency)
  BY LadderAssumption DEF Climbable, Stairs, Rungs
<1>4. QED
  BY <1>1, <1>2, <1>3 DEF StairsInv, Stairs

\* Without a message, the controller's steps keep what QuietInv says.
LEMMA ControllerQuiet ==
  ASSUME Climbable, TypeOK, PoolInv, QuietInv, Controller
  PROVE  QuietInv'
<1> USE DEF KeepPipe, KeepPool, KeepRps, KeepLadder, KeepClock
<1>1. published' = published
  <2>1. CASE \E g \in Goroutine : Spawn(g)
    BY <2>1 DEF Spawn
  <2>2. QED
    BY <2>1, ControllerMoves
<1> SUFFICES ASSUME published = 0 PROVE QuietInv'
  BY <1>1 DEF QuietInv
<1>2. /\ statusCh = <<>>
      /\ step = Step /\ maxConcurrent = MaxConcurrency /\ stableDuration = Duration
      /\ concurrent <= maxConcurrent /\ stepRunTime > 0
      /\ pc = "loop" => ran < stepRunTime
      /\ target = 1 => concurrent = maxConcurrent /\ stepRunTime = stableDuration
      /\ pc \in {"spawn", "batch", "measure", "climb"} => concurrent \in levels
      /\ IF pc \in {"drain"} \cup ReturnPc
         THEN \/ outcome \in {"threshold", "unreadable"}
              \/ outcome = "normal" /\ concurrent = maxConcurrent /\ concurrent \in levels
         ELSE outcome = "none"
  BY DEF QuietInv
<1>3. {concurrent, maxConcurrent, stepRunTime, stableDuration, ran} \subseteq Nat /\ target \in 0 .. 1
  BY LadderAssumption DEF TypeOK
<1> USE DEF ReturnPc, FramePc
<1>4. CASE Enter
  BY <1>2, <1>4 DEF Enter, QuietInv
<1>5. CASE CheckTime
  BY <1>2, <1>5 DEF CheckTime, QuietInv
<1>6. CASE StayBelow \/ FailToRead \/ ReachThreshold
  <2>1. /\ UNCHANGED <<concurrent, stepRunTime>> /\ KeepQuery
        /\ pc = "query"
        /\ \/ pc' = "select" /\ outcome' = outcome
           \/ pc' \in {"clearStart", "drain"} /\ outcome' \in {"threshold", "unreadable"}
    BY <1>6 DEF StayBelow, FailToRead, ReachThreshold, Query
  <2>2. QED
    BY <1>2, <2>1 DEF KeepQuery, QuietInv
<1>7. CASE TickOff
  <2>1. /\ UNCHANGED outcome /\ KeepQuery /\ pc = "query" /\ pc' = "select"
        /\ \/ UNCHANGED <<concurrent, stepRunTime>>
           \/ concurrent' = maxConcurrent /\ stepRunTime' = stableDuration
    BY <1>7 DEF TickOff, ToTheTop, Query
  <2>2. stepRunTime' > 0 /\ concurrent' <= maxConcurrent
    BY <1>2, <1>3, <2>1 DEF Climbable
  <2>3. QED
    BY <1>2, <2>1, <2>2 DEF KeepQuery, QuietInv
<1>8. CASE TakeOtherMessage \/ TakeStop \/ TakeNilModeConf \/ TakeChange
  BY <1>2, <1>8 DEF TakeOtherMessage, TakeStop, TakeNilModeConf, TakeChange
<1>9. CASE ApplyChange
  BY <1>2, <1>9 DEF ApplyChange, PoolInv
<1>10. CASE StartSpawning
  BY <1>2, <1>10 DEF StartSpawning, QuietInv
<1>11. CASE SkipId
  BY <1>2, <1>11 DEF SkipId, QuietInv
<1>12. ASSUME NEW g \in Goroutine, Spawn(g) PROVE QuietInv'
  BY <1>2, <1>12 DEF Spawn, QuietInv
<1>13. CASE EndSpawning
  BY <1>2, <1>13 DEF EndSpawning, QuietInv
<1>14. CASE Wait
  BY <1>2, <1>14 DEF Wait, QuietInv
<1>15. CASE Measure
  BY <1>2, <1>15 DEF Measure, QuietInv
<1>16. CASE Finish
  BY <1>2, <1>16 DEF Finish, Finished, QuietInv
<1>17. CASE Climb
  <2>1. /\ pc = "climb" /\ pc' = "loop" /\ ~Finished
        /\ concurrent' = NextLevel
        /\ target' = IF EntersTop THEN 1 ELSE target
        /\ stepRunTime' = IF EntersTop THEN stableDuration ELSE stepRunTime
        /\ ran' = IF EntersTop \/ (StageOver /\ NextLevel < maxConcurrent) THEN 0 ELSE ran
        /\ UNCHANGED <<statusCh, step, maxConcurrent, stableDuration, outcome>>
    BY <1>17 DEF Climb
  <2>2. concurrent <= NextLevel /\ NextLevel <= maxConcurrent /\ NextLevel \in Nat
    BY <1>2, LadderAssumption, NextLevelType
  <2>3. stepRunTime' > 0
    BY <1>2, <2>1 DEF Climbable
  <2>4. ran' < stepRunTime'
    <3>1. CASE EntersTop \/ (StageOver /\ NextLevel < maxConcurrent)
      BY <2>1, <2>3, <3>1
    <3>2. CASE ~EntersTop /\ ~(StageOver /\ NextLevel < maxConcurrent)
      <4>1. NextLevel = maxConcurrent => target = 1
        BY <1>3, <3>2 DEF EntersTop
      <4>2. ~StageOver
        <5>1. CASE StageOver
          BY <1>2, <1>3, <2>2, <3>2, <4>1, <5>1 DEF StageOver
        <5>2. QED
          BY <5>1
      <4>3. ran < stepRunTime
        <5>1. CASE concurrent = maxConcurrent
          <6>1. target = 1
            BY <4>1, <4>2, <5>1 DEF NextLevel
          <6>2. QED
            BY <1>2, <1>3, <2>1, <5>1, <6>1 DEF Finished
        <5>2. CASE concurrent # maxConcurrent
          BY <1>2, <1>3, <4>2, <5>2 DEF StageOver
        <5>3. QED
          BY <5>1, <5>2
      <4>4. QED
        BY <2>1, <3>2, <4>3
    <3>3. QED
      BY <3>1, <3>2
  <2>5. target' = 1 => concurrent' = maxConcurrent /\ stepRunTime' = stableDuration
    <3>1. CASE EntersTop
      BY <2>1, <3>1 DEF EntersTop
    <3>2. CASE ~EntersTop
      <4>1. target = 1 => NextLevel = maxConcurrent
        BY <1>2, <1>3, <2>2
      <4>2. QED
        BY <1>2, <2>1, <3>2, <4>1
    <3>3. QED
      BY <3>1, <3>2
  <2>6. QED
    BY <1>2, <2>1, <2>2, <2>3, <2>4, <2>5 DEF QuietInv
<1>18. QED
  BY <1>4, <1>5, <1>6, <1>7, <1>8, <1>9, <1>10, <1>11, <1>12, <1>13, <1>14, <1>15, <1>16, <1>17
     DEF Controller, Iteration, ErrorRateModel, RTModel, RPSModel

\* A stage climbs from a rung to the next one.
LEMMA NextRung ==
  ASSUME Climbable, TypeOK, step = Step, maxConcurrent = MaxConcurrency,
         concurrent <= maxConcurrent, concurrent \in Stairs,
         Step = 0 => concurrent = StartConcurrency
  PROVE  /\ NextLevel \in Stairs
         /\ Step = 0 => NextLevel = StartConcurrency
         /\ \A c \in Stairs : ~(concurrent < c /\ c < NextLevel)
<1> USE DEF Climbable
<1>1. {StartConcurrency, MaxConcurrency, Step, concurrent, maxConcurrent} \subseteq Nat
  BY LadderAssumption DEF TypeOK
<1>2. \A c \in Stairs : c \in Nat /\ StartConcurrency <= c /\ c <= MaxConcurrency
  BY <1>1 DEF Stairs, Rungs
<1>3. CASE ~StageOver
  BY <1>1, <1>2, <1>3 DEF NextLevel
<1>4. CASE StageOver /\ Step = 0
  BY <1>1, <1>2, <1>4 DEF NextLevel, StageOver
<1>5. CASE StageOver /\ Step > 0
  <2>1. Step \in Nat \ {0} /\ concurrent < MaxConcurrency
    BY <1>1, <1>5 DEF StageOver
  <2>2. \A c \in Stairs : c < MaxConcurrency => c - StartConcurrency \in Nat /\ (c - StartConcurrency) % Step = 0
    <3>1. 0 % Step = 0 /\ StartConcurrency - StartConcurrency = 0
      BY <1>1, <2>1
    <3>2. TAKE c \in Stairs
    <3>3. HAVE c < MaxConcurrency
    <3>4. c = StartConcurrency \/ (c - StartConcurrency) % Step = 0
      BY <1>1, <3>3 DEF Stairs, Rungs
    <3>5. c - StartConcurrency \in Nat
      BY <1>1, <1>2
    <3>6. QED
      BY <3>1, <3>4, <3>5
  <2> DEFINE a == concurrent - StartConcurrency
  <2>3. a \in Nat /\ a % Step = 0 /\ concurrent = StartConcurrency + a
    BY <1>1, <2>1, <2>2
  <2>4. NextLevel \in Stairs
    <3>1. CASE concurrent + Step > MaxConcurrency
      BY <1>5, <3>1 DEF NextLevel, Stairs, Rungs
    <3>2. CASE ~(concurrent + Step > MaxConcurrency)
      <4>1. (a + Step) % Step = 0
        <5> HIDE DEF a
        <5> QED BY <2>1, <2>3, AddMultiple
      <4>2. NextLevel = concurrent + Step /\ NextLevel \in StartConcurrency .. MaxConcurrency
            /\ NextLevel - StartConcurrency = a + Step
        BY <1>1, <1>2, <1>5, <3>2 DEF NextLevel
      <4>3. (NextLevel - StartConcurrency) % Step = 0
        BY <4>1, <4>2
      <4>4. QED
        BY <1>5, <4>2, <4>3 DEF Stairs, Rungs
    <3>3. QED
      BY <3>1, <3>2
  <2>5. ASSUME NEW c \in Stairs, concurrent < c, c < NextLevel PROVE FALSE
    <3>1. NextLevel <= MaxConcurrency /\ NextLevel <= concurrent + Step /\ NextLevel \in Nat
      BY <1>1, <1>5 DEF NextLevel
    <3> DEFINE b == c - StartConcurrency
    <3>2. c < MaxConcurrency
      BY <1>1, <1>2, <2>5, <3>1
    <3>3. b \in Nat /\ b % Step = 0 /\ a < b /\ c = StartConcurrency + b
      BY <1>1, <1>2, <2>2, <2>5, <3>2
    <3>4. a + Step <= b
      <4> HIDE DEF a, b
      <4> QED BY <2>1, <2>3, <3>3, NextMultiple
    <3>5. concurrent + Step <= c
      <4> HIDE DEF a, b
      <4> QED BY <1>1, <2>3, <3>3, <3>4
    <3>6. QED
      BY <1>1, <1>2, <2>5, <3>1, <3>5
  <2>6. QED
    BY <1>5, <2>4, <2>5
<1>6. QED
  BY <1>1, <1>3, <1>4, <1>5

\* Without a message, the controller's steps keep what StairsInv says.
LEMMA ControllerStairs ==
  ASSUME Climbable, TypeOK, PoolInv, QuietInv, StairsInv, Controller
  PROVE  StairsInv'
<1> USE DEF KeepPipe, KeepPool, KeepRps, KeepLadder, KeepClock
<1>1. published' = published /\ mode' = mode
  <2>1. CASE \E g \in Goroutine : Spawn(g)
    BY <2>1 DEF Spawn
  <2>2. QED
    BY <2>1, ControllerMoves
<1>2. CASE published = 0
  <2>1. /\ statusCh = <<>> /\ step = Step /\ maxConcurrent = MaxConcurrency
        /\ concurrent <= maxConcurrent
        /\ pc \in {"spawn", "batch", "measure", "climb"} => concurrent \in levels
    BY <1>2 DEF QuietInv
  <2>2. ~(TakeOtherMessage \/ TakeStop \/ TakeNilModeConf \/ TakeChange \/ ApplyChange)
    BY <2>1 DEF TakeOtherMessage, TakeStop, TakeNilModeConf, TakeChange, ApplyChange, PoolInv
  <2>3. {concurrent, maxConcurrent} \subseteq Nat
    BY LadderAssumption DEF TypeOK
  <2>4. CASE TickOff
    <3>1. /\ levels' = levels /\ mode = "rps" /\ rpsMap' \subseteq rpsMap
          /\ rpsMap' # {} => concurrent' = concurrent
      BY <2>4 DEF TickOff, ToTheTop, KeepQuery
    <3>2. QED
      BY <1>1, <3>1 DEF StairsInv
  <2>5. CASE StartSpawning
    <3>1. levels' = levels \cup {concurrent} /\ UNCHANGED <<concurrent, rpsMap>>
      BY <2>5 DEF StartSpawning
    <3>2. QED
      BY <1>1, <2>3, <3>1 DEF StairsInv
  <2>6. CASE Climb
    <3>1. concurrent' = NextLevel /\ UNCHANGED <<levels, rpsMap>> /\ concurrent \in levels
      BY <2>1, <2>6 DEF Climb
    <3>2. concurrent <= NextLevel /\ NextLevel \in Nat
      BY <2>1, LadderAssumption, NextLevelType
    <3>3. CASE mode = "rps" /\ rpsMap = {}
      BY <1>1, <3>1, <3>3 DEF StairsInv
    <3>4. CASE ~(mode = "rps" /\ rpsMap = {})
      <4>1. /\ concurrent \in Stairs
            /\ Step = 0 => concurrent = StartConcurrency
            /\ \A c \in levels : c \in Stairs /\ c <= concurrent
            /\ \A c \in Stairs : c < concurrent => c \in levels
        BY <1>2, <3>4 DEF StairsInv
      <4>2. /\ NextLevel \in Stairs
            /\ Step = 0 => NextLevel = StartConcurrency
            /\ \A c \in Stairs : ~(concurrent < c /\ c < NextLevel)
        BY <2>1, <4>1, NextRung
      <4>3. levels \subseteq Nat
        BY LadderAssumption DEF TypeOK
      <4>4. \A c \in levels : c \in Stairs /\ c <= NextLevel
        BY <2>3, <3>2, <4>1, <4>3
      <4>5. \A c \in Stairs : c < NextLevel => c \in levels
        <5>1. \A c \in Stairs : c \in Nat
          BY LadderAssumption DEF Stairs, Rungs
        <5>2. \A c \in Stairs : c < NextLevel => c < concurrent \/ c = concurrent
          BY <2>3, <3>2, <4>2, <5>1
        <5>3. QED
          BY <3>1, <4>1, <5>2
      <4>6. QED
        BY <3>1, <4>2, <4>4, <4>5 DEF StairsInv
    <3>5. QED
      BY <3>3, <3>4
  <2>7. CASE ~(TickOff \/ StartSpawning \/ Climb)
    <3>1. UNCHANGED <<concurrent, levels, rpsMap>>
      <4>1. CASE StayBelow \/ FailToRead \/ ReachThreshold
        BY <4>1 DEF StayBelow, FailToRead, ReachThreshold, KeepQuery
      <4>2. CASE ~(StayBelow \/ FailToRead \/ ReachThreshold)
        BY <2>2, <2>7, <4>2 DEF Controller, ErrorRateModel, RTModel, RPSModel, Iteration, Enter,
           CheckTime, SkipId, Spawn, EndSpawning, Wait, Measure, Finish
      <4>3. QED
        BY <4>1, <4>2
    <3>2. QED
      BY <1>1, <3>1 DEF StairsInv
  <2>8. QED
    BY <2>4, <2>5, <2>6, <2>7
<1>3. CASE published # 0
  BY <1>1, <1>3 DEF StairsInv
<1>4. QED
  BY <1>2, <1>3

\* Every step keeps both.
LEMMA StepRungs ==
  ASSUME Climbable, TypeOK, PoolInv, QuietInv, StairsInv, [Next]_vars
  PROVE  QuietInv' /\ StairsInv'
<1>1. CASE Controller
  BY <1>1, ControllerQuiet, ControllerStairs
<1>2. ASSUME UNCHANGED controlMode, NEW g \in Goroutine, Worker(g)
      PROVE  QuietInv' /\ StairsInv'
  <2>1. UNCHANGED <<pc, statusCh, published, mode, ran, concurrent, step, maxConcurrent, stepRunTime,
                    stableDuration, target, outcome, levels, rpsMap>>
    BY <1>2, WorkerMoves
  <2>2. QED
    BY <2>1 DEF QuietInv, StairsInv
<1>3. CASE (TaskDecomposition \/ SendKafkaMsg \/ Publish) /\ UNCHANGED <<controlMode, modeVars>>
  <2>1. /\ UNCHANGED <<mode, ran, concurrent, step, maxConcurrent, stepRunTime,
                       stableDuration, target, outcome, levels, rpsMap>>
        /\ \/ pc' = pc
           \/ pc = "start" /\ pc' = "enter"
           \/ pc \in ReturnPc /\ pc' \in ReturnPc
        /\ published' = 0 => published = 0 /\ statusCh' = statusCh
    BY <1>3, FrameStep DEF modeVars
  <2>2. QED
    BY <2>1 DEF QuietInv, StairsInv, ReturnPc, FramePc
<1>4. CASE Tick \/ UNCHANGED vars
  <2>1. UNCHANGED <<pc, statusCh, published, mode, ran, concurrent, step, maxConcurrent, stepRunTime,
                    stableDuration, target, outcome, levels, rpsMap>>
    BY <1>4 DEF Tick, taskVars, vars, modeVars, KeepRps
  <2>2. QED
    BY <2>1 DEF QuietInv, StairsInv
<1>5. QED
  BY <1>1, <1>2, <1>3, <1>4 DEF Next, Terminated

\* A task without a message that ended normally used every rung and no other concurrency.
LEMMA RungsUsed ==
  ASSUME Climbable, TypeOK, QuietInv, StairsInv
  PROVE  EveryRung
<1> SUFFICES ASSUME pc = "returned", published = 0, outcome \notin {"threshold", "unreadable"}
             PROVE  /\ outcome = "normal"
                    /\ IF mode = "rps" /\ rpsMap = {} THEN MaxConcurrency \in levels ELSE levels = Rungs
  BY DEF EveryRung
<1>1. outcome = "normal" /\ concurrent = MaxConcurrency /\ MaxConcurrency \in levels
  BY DEF QuietInv, ReturnPc, FramePc
<1>2. CASE ~(mode = "rps" /\ rpsMap = {})
  <2>1. /\ Step = 0 => MaxConcurrency = StartConcurrency
        /\ \A c \in levels : c \in Stairs
        /\ \A c \in Stairs : c < MaxConcurrency => c \in levels
    BY <1>1, <1>2 DEF StairsInv
  <2>2. StartConcurrency \in Rungs
    <3>1. CASE Step = 0
      BY <2>1, <3>1 DEF Rungs
    <3>2. CASE Step # 0
      <4>1. /\ StartConcurrency \in StartConcurrency .. MaxConcurrency
            /\ Step \in Nat \ {0} /\ Step > 0 /\ StartConcurrency - StartConcurrency = 0
        BY <3>2, LadderAssumption DEF Climbable
      <4>2. (StartConcurrency - StartConcurrency) % Step = 0
        BY <4>1
      <4>3. QED
        BY <4>1, <4>2 DEF Rungs
    <3>3. QED
      BY <3>1, <3>2
  <2>3. levels \subseteq Rungs
    BY <2>1, <2>2 DEF Stairs
  <2>4. Rungs \subseteq levels
    <3>1. \A c \in Rungs : c = MaxConcurrency \/ c < MaxConcurrency
      BY LadderAssumption DEF Rungs
    <3>2. QED
      BY <1>1, <2>1, <3>1 DEF Stairs
  <2>5. QED
    BY <1>1, <1>2, <2>3, <2>4
<1>3. QED
  BY <1>1, <1>2

\* The stages of a task that receives no message: for every configuration that starts no
\* higher than it ends, has a step time and a duration, and every sequence of reports, the
\* task ends at the last rung, having used every rung and no other concurrency, unless a
\* report ended it or took it to the top (executionLadderModel.go:109-134).
THEOREM LadderUsesEveryRung ==
  ASSUME Climbable
  PROVE  Spec => []EveryRung
<1>1. TypeOK /\ PoolInv /\ [Next]_vars => TypeOK' /\ PoolInv'
  BY StepInv
<1>2. Init => QuietInv /\ StairsInv
  BY InitRungs
<1>3. TypeOK /\ PoolInv /\ QuietInv /\ StairsInv /\ [Next]_vars => QuietInv' /\ StairsInv'
  BY StepRungs
<1>4. TypeOK /\ QuietInv /\ StairsInv => EveryRung
  BY RungsUsed
<1>5. QED
  BY <1>1, <1>2, <1>3, <1>4, InitInv, PTL DEF Spec

-----------------------------------------------------------------------------
(* The end of the stream                                                   *)

\* The loop leaves the result stream to the frame and the sender.
LEMMA ControllerPipe ==
  ASSUME Controller
  PROVE  UNCHANGED <<startMsg, resultDataMsgCh, closed, sender, delivered>>
<1>1. CASE StayBelow \/ FailToRead \/ ReachThreshold \/ TickOff
  BY <1>1 DEF StayBelow, FailToRead, ReachThreshold, TickOff, KeepQuery, KeepPool, KeepPipe
<1>2. CASE ~(StayBelow \/ FailToRead \/ ReachThreshold \/ TickOff)
  BY <1>2 DEF Controller, ErrorRateModel, RTModel, RPSModel, Iteration, Enter, CheckTime,
     TakeOtherMessage, TakeStop, TakeNilModeConf, TakeChange, ApplyChange, StartSpawning, SkipId, Spawn,
     EndSpawning, Wait, Measure, Finish, Climb, KeepPipe
<1>3. QED
  BY <1>1, <1>2

\* Centralized, the workers have ended by the time the frame goes on; alone they may send
\* behind the record with End, and on the closed channel.
LEMMA StepStream ==
  ASSUME TypeOK, PoolInv, Centralized => StreamInv, [Next]_vars
  PROVE  Centralized' => StreamInv'
<1> SUFFICES ASSUME controlMode' = controlMode => StreamInv, Centralized' PROVE StreamInv'
  OBVIOUS
<1>1. CASE UNCHANGED controlMode /\ Controller
  <2>1. UNCHANGED <<startMsg, resultDataMsgCh, closed, sender, delivered>>
    BY <1>1, ControllerPipe
  <2>2. pc \notin FramePc \ {"enter"} /\ pc' \notin FramePc \ {"clearStart"}
    BY <1>1, ControllerPc DEF FramePc, ReturnPc
  <2>3. QED
    BY <1>1, <2>1, <2>2, ModeStream
<1>2. ASSUME UNCHANGED controlMode, NEW g \in Goroutine, Worker(g) PROVE StreamInv'
  <2>1. UNCHANGED <<startMsg, closed, sender, delivered>>
    BY <1>2 DEF Worker, StartScene, SendResult, SceneReturns, Quit, Unmap, WorkerDone, KeepPipe
  <2>2. UNCHANGED pc /\ pc \notin ReturnPc
    BY <1>2, WorkerMoves DEF PoolInv, ReturnPc, FramePc
  <2>3. QED
    BY <1>2, <2>1, <2>2, ModeStream
<1>3. CASE UNCHANGED controlMode /\ TaskDecomposition
  BY <1>3, TaskDecompositionStream DEF TypeOK
<1>4. CASE UNCHANGED controlMode /\ SendKafkaMsg
  BY <1>4, SendKafkaMsgStream DEF TypeOK
<1>5. CASE UNCHANGED controlMode /\ (Publish \/ Tick \/ UNCHANGED vars)
  <2>1. UNCHANGED <<pc, startMsg, resultDataMsgCh, closed, sender, delivered>>
    BY <1>5 DEF Publish, Tick, taskVars, vars
  <2>2. QED
    BY <1>5, <2>1, ModeStream
<1>6. UNCHANGED vars => UNCHANGED controlMode
  BY DEF vars, taskVars
<1>7. QED
  BY <1>1, <1>2, <1>3, <1>4, <1>5, <1>6 DEF Next, Terminated

\* Centralized, a climbing mode loses no result and never sends on the closed channel,
\* whatever the messages and the reports: the record with End is the last one when the
\* sender stops.  Alone, workers run on behind it (ladder_alone_end).
THEOREM LadderKeepsItsStream == Spec => [](Centralized => NoSendOnClosedChannel /\ StreamIsComplete)
<1>1. Init => StreamInv
  BY StreamInvInit DEF Init
<1>2. TypeOK /\ PoolInv /\ [Next]_vars => TypeOK' /\ PoolInv'
  BY StepInv
<1>3. TypeOK /\ PoolInv /\ (Centralized => StreamInv) /\ [Next]_vars => (Centralized => StreamInv)'
  BY StepStream
<1>4. TypeOK /\ PoolInv /\ (Centralized => StreamInv) => (Centralized => NoSendOnClosedChannel /\ StreamIsComplete)
  BY StreamInvComplete DEF TypeOK, PoolInv, NoSendOnClosedChannel
<1>5. QED
  BY <1>1, <1>2, <1>3, <1>4, InitInv, PTL DEF Spec
=============================================================================
