-------------------------- MODULE RoundModel_proofs --------------------------
(***************************************************************************)
(* The round mode never has two workers under one id, never lets its       *)
(* caller close the channel under a worker and implements ForkJoin, for    *)
(* every set of goroutines, channel capacity, concurrency, round number    *)
(* and set of status messages.                                             *)
(*                                                                         *)
(* The alone mode needs one assumption: no message stops the plan or       *)
(* addresses this machine without a ModeConf.  On both the mode is left    *)
(* under its workers.                                                      *)
(***************************************************************************)
EXTENDS RoundModel, StressTask_proofs

\* No message makes the alone mode return before its workers.
Orderly == \A c \in ControlModes : c # "Centralized" =>
             \A m \in Messages[c] : ~Dereferences(m) /\ ~StopsPlan(m)

\* Where the pool is empty, and what the counter, the channel and the subscription say.
PoolInv ==
  /\ WgCounts
  /\ pc \in ReturnPc \cup {"start", "enter"} => Live = {}
  /\ Centralized /\ pc \in {"loop", "select", "change", "count", "drain"} => Live = {}
  /\ closed => pc = "returned"
  /\ ~crashed
  /\ pc = "change" => statusCh # <<>>

\* An id is taken while it has a worker: alone the map keeps it for ever, centralized the
\* spawning loop has passed it and does not come back before the batch has ended.
IdInv ==
  /\ OneWorkerPerId
  /\ \A g \in Live : /\ gid[g] \in Id
                     /\ ~Centralized => gid[g] \in mapped
                     /\ Centralized /\ pc = "spawn" => gid[g] < cursor

Inv == TypeOK /\ PoolInv /\ IdInv

USE DEF WorkerPc, Centralized

\* The first state is typed and has no worker.
LEMMA InitInv == Init => Inv
<1> SUFFICES ASSUME Init PROVE Inv
  OBVIOUS
<1>1. Live = {}
  BY DEF Init, TaskInit, Live
<1>2. WgCounts
  BY <1>1, FS_EmptySet DEF WgCounts, Init, TaskInit
<1>3. TaskTypeOK
  BY TaskInitTypes DEF Init
<1>4. TypeOK
  <2>1. concurrent \in 0 .. MaxConcurrency /\ {rounds, round, cursor} \subseteq Nat
    BY RoundAssumption DEF Init
  <2>2. QED
    BY <1>3, <2>1 DEF Init, TaskInit, TypeOK, FramePc
<1>5. PoolInv /\ IdInv
  BY <1>1, <1>2 DEF Init, TaskInit, PoolInv, IdInv, OneWorkerPerId
<1>6. QED
  BY <1>4, <1>5 DEF Inv

\* Giving ids up keeps the map within the ids and the active ones within the map.
LEMMA GiveUpTypes ==
  ASSUME mapped \subseteq Id, active \subseteq mapped, NEW S \in SUBSET Id, GiveUp(S)
  PROVE  mapped' \subseteq Id /\ active' \subseteq mapped' /\ (~Centralized => mapped \subseteq mapped')
BY DEF GiveUp

\* The controller's steps keep the types.
LEMMA ControllerTypes ==
  ASSUME Inv, Controller, UNCHANGED controlMode
  PROVE  TypeOK'
<1> USE DEF Inv, TypeOK, TaskTypeOK, FramePc, KeepMap, KeepPool, KeepPipe
<1>1. CASE Enter
  BY <1>1 DEF Enter
<1>2. CASE CheckRound
  BY <1>2 DEF CheckRound
<1>3. CASE TakeOtherMessage
  BY <1>3 DEF TakeOtherMessage, NextIteration
<1>4. CASE TakeStop
  BY <1>4 DEF TakeStop
<1>5. CASE TakeNilModeConf
  BY <1>5 DEF TakeNilModeConf
<1>6. CASE TakeChange
  <2>1. Head(statusCh) \in Messages[controlMode] /\ Messages[controlMode] \subseteq StatusMessage
    BY <1>6, TaskAssumption DEF TakeChange
  <2>2. Head(statusCh).roundNum \in Nat
    BY <2>1 DEF StatusMessage
  <2>3. QED
    BY <1>6, <2>2 DEF TakeChange
<1>7. CASE ApplyChange
  <2>1. statusCh # <<>>
    BY <1>7 DEF PoolInv, ApplyChange
  <2>2. Head(statusCh) \in Messages[controlMode] /\ statusCh' \in Seq(Messages[controlMode])
    BY <1>7, <2>1 DEF ApplyChange
  <2>3. Head(statusCh).concurrency \in 0 .. MaxConcurrency
    BY <2>2, RoundAssumption
  <2>4. /\ concurrent' \in 0 .. MaxConcurrency
        /\ mapped' \subseteq Id /\ active' \subseteq mapped'
    <3>1. Head(statusCh).concurrency .. concurrent - 1 \subseteq Id
      BY <2>3, RoundAssumption DEF Id
    <3>2. CASE UNCHANGED <<mapped, active, concurrent>>
      BY <3>2
    <3>3. CASE /\ GiveUp(Head(statusCh).concurrency .. concurrent - 1)
               /\ concurrent' = Head(statusCh).concurrency
      BY <2>3, <3>1, <3>3, GiveUpTypes
    <3>4. QED
      BY <1>7, <3>2, <3>3 DEF ApplyChange
  <2>5. round' \in Nat /\ pc' \in {"count", "loop"}
    BY <1>7 DEF ApplyChange, NextIteration
  <2>6. QED
    BY <1>7, <2>2, <2>4, <2>5 DEF ApplyChange
<1>8. CASE StartSpawning
  BY <1>8 DEF StartSpawning
<1>9. CASE SkipId
  BY <1>9 DEF SkipId
<1>10. ASSUME NEW g \in Goroutine, Spawn(g) PROVE TypeOK'
  <2>1. cursor \in Id
    BY <1>10, RoundAssumption DEF Spawn, Id
  <2>2. QED
    BY <1>10, <2>1 DEF Spawn, Go
<1>11. CASE EndSpawning
  BY <1>11 DEF EndSpawning
<1>12. CASE CountActive
  BY <1>12 DEF CountActive
<1>13. CASE WaitBatch
  BY <1>13 DEF WaitBatch, NextIteration
<1>14. CASE WaitAll
  BY <1>14 DEF WaitAll
<1>15. QED
  BY <1>1, <1>2, <1>3, <1>4, <1>5, <1>6, <1>7, <1>8, <1>9, <1>10, <1>11, <1>12, <1>13, <1>14
     DEF Controller

\* The controller reaches the places where the pool must be empty only through a Wait.
LEMMA ControllerPool ==
  ASSUME Orderly, Inv, Controller, UNCHANGED controlMode
  PROVE  PoolInv'
<1> USE DEF Inv
<1>1. CASE \E g \in Goroutine : Spawn(g)
  <2>1. PICK g \in Goroutine : Spawn(g)
    BY <1>1
  <2>2. WgCounts'
    BY <2>1, GoCounts DEF TypeOK, TaskTypeOK, PoolInv, Spawn
  <2>3. QED
    BY <2>1, <2>2 DEF PoolInv, Spawn, KeepPipe, ReturnPc, FramePc
<1>2. CASE ~ \E g \in Goroutine : Spawn(g)
  <2> USE DEF Controller, Enter, CheckRound, TakeOtherMessage, TakeStop, TakeNilModeConf, TakeChange,
              ApplyChange, StartSpawning, SkipId, EndSpawning, CountActive, WaitBatch, WaitAll,
              NextIteration
  <2>1. UNCHANGED <<gpc, wg, closed, crashed>>
    BY <1>2 DEF KeepPool, KeepPipe
  <2>2. Live' = Live /\ WgCounts'
    BY <2>1 DEF PoolInv, WgCounts, Live
  <2>3. pc' = "change" => statusCh' # <<>>
    BY <1>2 DEF PoolInv
  <2>4. pc = "select" /\ statusCh # <<>> /\ (Dereferences(Head(statusCh)) \/ StopsPlan(Head(statusCh)))
          => Centralized
    BY DEF Orderly, TypeOK, TaskTypeOK
  <2>5. CASE WaitBatch \/ WaitAll
    <3>1. Live = {}
      BY <2>5, ZeroIsEmpty DEF PoolInv
    <3>2. closed' => pc' = "returned"
      BY <2>1, <2>5 DEF PoolInv
    <3>3. QED
      BY <2>1, <2>2, <2>3, <3>1, <3>2 DEF PoolInv
  <2>6. CASE ~WaitBatch /\ ~WaitAll
    <3>1. pc' \in ReturnPc \cup {"start", "enter"} => Live = {}
      BY <1>2, <2>4, <2>6 DEF PoolInv, ReturnPc, FramePc
    <3>2. Centralized /\ pc' \in {"loop", "select", "change", "count", "drain"} => Live = {}
      BY <1>2, <2>6 DEF PoolInv
    <3>3. closed' => pc' = "returned"
      BY <1>2, <2>1, <2>6 DEF PoolInv
    <3>4. QED
      BY <2>1, <2>2, <2>3, <3>1, <3>2, <3>3 DEF PoolInv
  <2>7. QED
    BY <2>5, <2>6
<1>3. QED
  BY <1>1, <1>2

\* The controller gives out only ids that no worker holds.
LEMMA ControllerIds ==
  ASSUME Inv, Controller, UNCHANGED controlMode
  PROVE  IdInv'
<1> USE DEF Inv
<1>1. CASE \E g \in Goroutine : Spawn(g)
  <2>1. PICK g \in Goroutine : Spawn(g)
    BY <1>1
  <2>2. Live' = Live \cup {g} /\ g \notin Live
    <3>1. Live' = Live \cup {g}
      BY <2>1, GoCounts DEF TypeOK, TaskTypeOK, PoolInv, Spawn
    <3>2. QED
      BY <2>1, <3>1 DEF Spawn, Go, Live
  <2>3. /\ gid' = [gid EXCEPT ![g] = cursor] /\ gid \in [Goroutine -> Nat]
        /\ pc = "spawn" /\ pc' = "spawn" /\ cursor \notin mapped
        /\ mapped' = mapped \cup {cursor} /\ cursor' = cursor + 1
    BY <2>1 DEF Spawn, Go, TypeOK, TaskTypeOK
  <2>4. cursor \in Id /\ cursor \in Nat
    BY <2>1, RoundAssumption DEF Spawn, TypeOK, Id
  <2>5. \A h \in Live : h \in Goroutine /\ gid'[h] = gid[h] /\ gid[h] # cursor
    <3>1. SUFFICES ASSUME NEW h \in Live PROVE h \in Goroutine /\ gid'[h] = gid[h] /\ gid[h] # cursor
      OBVIOUS
    <3>2. gid[h] \in Id /\ (~Centralized => gid[h] \in mapped) /\ (Centralized => gid[h] < cursor)
      BY <2>3 DEF IdInv
    <3>3. gid[h] # cursor
      BY <2>3, <2>4, <3>2
    <3>4. QED
      BY <2>2, <2>3, <3>3 DEF Live
  <2>6. gid'[g] = cursor
    BY <2>3
  <2>7. OneWorkerPerId'
    BY <2>2, <2>5, <2>6 DEF IdInv, OneWorkerPerId
  <2>8. ASSUME NEW h \in Live'
        PROVE  /\ gid'[h] \in Id
               /\ ~Centralized => gid'[h] \in mapped'
               /\ Centralized => gid'[h] < cursor'
    <3>1. CASE h = g
      BY <2>3, <2>4, <2>6, <3>1
    <3>2. CASE h \in Live
      <4>1. gid[h] \in Id /\ (~Centralized => gid[h] \in mapped) /\ (Centralized => gid[h] < cursor)
        BY <2>3, <3>2 DEF IdInv
      <4>2. QED
        BY <2>3, <2>4, <2>5, <3>2, <4>1 DEF Id
    <3>3. QED
      BY <2>2, <2>8, <3>1, <3>2
  <2>9. QED
    BY <2>7, <2>8 DEF IdInv
<1>2. CASE ~ \E g \in Goroutine : Spawn(g)
  <2> USE DEF Controller, Enter, CheckRound, TakeOtherMessage, TakeStop, TakeNilModeConf, TakeChange,
              ApplyChange, StartSpawning, SkipId, EndSpawning, CountActive, WaitBatch, WaitAll,
              NextIteration, KeepPool, KeepMap
  <2>1. UNCHANGED <<gpc, gid>>
    BY <1>2
  <2>2. Live' = Live /\ OneWorkerPerId'
    BY <2>1 DEF Live, IdInv, OneWorkerPerId
  <2>3. ~Centralized => mapped \subseteq mapped'
    BY <1>2 DEF GiveUp
  <2>4. CASE StartSpawning
    BY <2>1, <2>2, <2>3, <2>4 DEF IdInv, PoolInv
  <2>5. CASE SkipId
    <3>1. cursor \in Nat
      BY DEF TypeOK
    <3>2. \A g \in Live : gid[g] \in Nat
      BY DEF TypeOK, TaskTypeOK, Live
    <3>3. QED
      BY <2>1, <2>2, <2>3, <2>5, <3>1, <3>2 DEF IdInv
  <2>6. CASE ~StartSpawning /\ ~SkipId
    <3>1. pc' # "spawn"
      BY <1>2, <2>6
    <3>2. QED
      BY <2>1, <2>2, <2>3, <3>1 DEF IdInv
  <2>7. QED
    BY <2>4, <2>5, <2>6
<1>3. QED
  BY <1>1, <1>2

\* A worker never finds the channel closed, and ends only through its Done.
LEMMA WorkerPool ==
  ASSUME Inv, NEW g \in Goroutine, Worker(g), UNCHANGED controlMode
  PROVE  /\ PoolInv'
         /\ \/ Live' = Live
            \/ g \in Live /\ Live' = Live \ {g}
         /\ UNCHANGED <<pc, closed>>
<1> USE DEF Inv
<1>1. gpc \in [Goroutine -> WorkerPc]
  BY DEF TypeOK, TaskTypeOK
<1>2. UNCHANGED <<pc, closed, statusCh>>
  BY DEF Worker, StartScene, SendResult, EndScene, SceneReturns, Quit, Unmap, WorkerDone, KeepTask
<1>3. gpc[g] # "free"
  BY DEF Worker, StartScene, SendResult, EndScene, SceneReturns, Quit, Unmap, WorkerDone
<1>4. g \in Live /\ ~closed
  BY <1>3 DEF Live, PoolInv, ReturnPc, FramePc
<1>5. ~crashed'
  BY <1>4 DEF PoolInv, Worker, StartScene, SendResult, EndScene, SceneReturns, Quit, Unmap, WorkerDone, KeepTask
<1>6. CASE WorkerDone(g)
  <2>1. WgCounts' /\ Live' = Live \ {g}
    BY <1>1, <1>6, DoneCounts DEF PoolInv
  <2>2. QED
    BY <1>2, <1>4, <1>5, <2>1 DEF PoolInv
<1>7. CASE ~WorkerDone(g)
  <2>1. wg' = wg /\ \E next \in WorkerPc \ {"free"} : gpc' = [gpc EXCEPT ![g] = next]
    <3>1. CASE StartScene(g)
      BY <3>1 DEF StartScene, EnterScene, KeepTask
    <3>2. CASE SendResult(g)
      BY <1>1, <1>3, <3>2 DEF SendResult
    <3>3. CASE EndScene(g)
      BY <3>3 DEF EndScene, SceneReturns
    <3>4. CASE Quit(g)
      BY <3>4 DEF Quit, KeepTask
    <3>5. CASE Unmap(g)
      BY <3>5 DEF Unmap, KeepTask
    <3>6. QED
      BY <1>7, <3>1, <3>2, <3>3, <3>4, <3>5 DEF Worker
  <2>2. WgCounts' /\ Live' = Live
    BY <1>1, <1>3, <2>1, MoveCounts DEF PoolInv
  <2>3. QED
    BY <1>2, <1>5, <2>2 DEF PoolInv
<1>8. QED
  BY <1>2, <1>4, <1>6, <1>7, DoneCounts, <1>1 DEF PoolInv

\* A worker takes no id, and alone it leaves its own in the map.
LEMMA WorkerIds ==
  ASSUME Inv, NEW g \in Goroutine, Worker(g), UNCHANGED controlMode
  PROVE  IdInv'
<1> USE DEF Inv
<1>1. UNCHANGED <<pc, cursor>>
  BY DEF Worker, StartScene, SendResult, EndScene, SceneReturns, Quit, Unmap, WorkerDone, KeepTask,
     KeepController, modeVars
<1>2. /\ Live' \subseteq Live
      /\ \A h \in Live' : gid'[h] = gid[h]
  <2>1. Live' \subseteq Live
    BY WorkerPool
  <2>2. CASE WorkerDone(g)
    <3>1. g \notin Live'
      BY <2>2 DEF WorkerDone, Live, TypeOK, TaskTypeOK
    <3>2. QED
      BY <2>1, <2>2, <3>1 DEF WorkerDone, TypeOK, TaskTypeOK, Live
  <2>3. CASE ~WorkerDone(g)
    BY <2>1, <2>3 DEF Worker, StartScene, SendResult, EndScene, SceneReturns, Quit, Unmap, KeepTask
  <2>4. QED
    BY <2>2, <2>3
<1>3. ~Centralized => mapped \subseteq mapped'
  BY DEF Worker, StartScene, SendResult, EndScene, Quit, Unmap, WorkerDone, GiveUp, KeepMap, modeVars
<1>4. QED
  BY <1>1, <1>2, <1>3 DEF IdInv, OneWorkerPerId

\* A worker's steps keep the types.
LEMMA WorkerTypes ==
  ASSUME Inv, NEW g \in Goroutine, Worker(g), UNCHANGED controlMode
  PROVE  TypeOK'
<1> USE DEF Inv, TypeOK
<1>1. CASE StartScene(g)
  <2>1. todo' \in [Goroutine -> 0 .. SceneSize]
    BY <1>1 DEF StartScene, EnterScene, TaskTypeOK
  <2>2. TaskTypeOK'
    BY <1>1, <2>1 DEF StartScene, EnterScene, TaskTypeOK, KeepTask
  <2>3. QED
    BY <1>1, <2>2 DEF StartScene, modeVars, KeepTask
<1>2. CASE SendResult(g) /\ UNCHANGED modeVars
  <2>1. TaskTypeOK'
    BY <1>2, SendResultTypes DEF modeVars, SendResult
  <2>2. QED
    BY <1>2, <2>1 DEF modeVars, SendResult
<1>3. CASE EndScene(g)
  <2>1. TaskTypeOK'
    BY <1>3 DEF EndScene, SceneReturns, TaskTypeOK
  <2>2. turn' \in [Goroutine -> Nat] /\ executed' \in [Id -> Nat]
    <3>1. gid[g] \in Id
      BY <1>3 DEF IdInv, EndScene, SceneReturns, Live
    <3>2. turn[g] + 1 \in Nat /\ executed[gid[g]] + 1 \in Nat
      BY <3>1
    <3>3. QED
      BY <1>3, <3>1, <3>2 DEF EndScene
  <2>3. QED
    BY <1>3, <2>1, <2>2 DEF EndScene, SceneReturns, KeepMap, KeepController
<1>4. CASE Quit(g)
  <2>1. TaskTypeOK'
    BY <1>4 DEF Quit, TaskTypeOK, KeepTask
  <2>2. QED
    BY <1>4, <2>1 DEF Quit, modeVars, KeepTask
<1>5. CASE Unmap(g)
  <2>1. TaskTypeOK'
    BY <1>5 DEF Unmap, TaskTypeOK, KeepTask
  <2>2. gid[g] \in Id
    BY <1>5 DEF IdInv, Unmap, Live
  <2>3. mapped' \subseteq Id /\ active' \subseteq mapped'
    BY <1>5, <2>2, GiveUpTypes DEF Unmap
  <2>4. QED
    BY <1>5, <2>1, <2>3 DEF Unmap, KeepTask, KeepController
<1>6. CASE WorkerDone(g) /\ UNCHANGED modeVars
  <2>1. wg' \in Nat
    <3>1. gpc \in [Goroutine -> WorkerPc] /\ WgCounts
      BY DEF TaskTypeOK, PoolInv
    <3>2. wg \in Nat \ {0} /\ wg' = wg - 1
      BY <1>6, <3>1, DoneCounts DEF WorkerDone
    <3>3. QED
      BY <3>2
  <2>2. QED
    BY <1>6, <2>1 DEF WorkerDone, TaskTypeOK, modeVars
<1>7. QED
  BY <1>1, <1>2, <1>3, <1>4, <1>5, <1>6 DEF Worker

\* The steps around the mode keep the pool and the ids; only Close closes the channel.
LEMMA FrameStep ==
  ASSUME Inv, UNCHANGED <<controlMode, modeVars>>, TaskDecomposition \/ SendKafkaMsg \/ Publish
  PROVE  Inv' /\ Live' = Live
<1> USE DEF Inv
<1>1. TaskTypeOK'
  BY TaskDecompositionTypes, SendKafkaMsgTypes, PublishTypes DEF TypeOK
<1>2. pc' \in FramePc \cup {"loop", "select", "change", "spawn", "batch", "count", "drain"}
  BY DEF TypeOK, TaskDecomposition, SendStart, ClearStart, SetEnd, SendEnd, Close,
     SendKafkaMsg, Publish, FramePc
<1>3. TypeOK'
  BY <1>1, <1>2 DEF TypeOK, modeVars
<1>4. UNCHANGED <<gpc, gid, wg, crashed>>
  BY DEF TaskDecomposition, SendKafkaMsg, Publish
<1>5. Live' = Live /\ WgCounts'
  BY <1>4 DEF Live, WgCounts, PoolInv
<1>6. pc' = "change" => statusCh' # <<>>
  BY DEF TypeOK, TaskTypeOK, PoolInv, TaskDecomposition, SendStart, ClearStart, SetEnd, SendEnd, Close,
     SendKafkaMsg, Publish
<1>7. /\ pc' \in ReturnPc \cup {"start", "enter"} => Live = {}
      /\ Centralized /\ pc' \in {"loop", "select", "change", "count", "drain"} => Live = {}
      /\ closed' => pc' = "returned"
  BY DEF PoolInv, TaskDecomposition, SendStart, ClearStart, SetEnd, SendEnd, Close,
     SendKafkaMsg, Publish, Receive, Marshal, SendMessage, SendFails, SenderDone, ReturnPc, FramePc
<1>8. PoolInv'
  BY <1>4, <1>5, <1>6, <1>7 DEF PoolInv
<1>9. pc' = "spawn" => pc = "spawn"
  BY DEF TaskDecomposition, SendStart, ClearStart, SetEnd, SendEnd, Close, SendKafkaMsg, Publish
<1>10. IdInv'
  BY <1>4, <1>5, <1>9 DEF IdInv, OneWorkerPerId, modeVars
<1>11. QED
  BY <1>3, <1>5, <1>8, <1>10

\* Every step of the specification keeps the invariant.
LEMMA StepInv ==
  ASSUME Orderly, Inv, [Next]_vars
  PROVE  Inv'
<1>1. CASE Controller /\ UNCHANGED controlMode
  BY <1>1, ControllerTypes, ControllerPool, ControllerIds DEF Inv
<1>2. ASSUME UNCHANGED controlMode, NEW g \in Goroutine, Worker(g)
      PROVE  Inv'
  BY <1>2, WorkerTypes, WorkerPool, WorkerIds DEF Inv
<1>3. CASE (TaskDecomposition \/ SendKafkaMsg \/ Publish) /\ UNCHANGED <<controlMode, modeVars>>
  BY <1>3, FrameStep
<1>4. CASE UNCHANGED vars
  BY <1>4 DEF vars, taskVars, modeVars, Inv, TypeOK, TaskTypeOK, PoolInv, IdInv, OneWorkerPerId, WgCounts, Live
<1>5. QED
  BY <1>1, <1>2, <1>3, <1>4 DEF Next, Terminated

\* Every reachable state is typed.
THEOREM RoundTypes ==
  ASSUME Orderly
  PROVE  Spec => []TypeOK
<1>1. Inv /\ [Next]_vars => Inv'
  BY StepInv
<1>2. Inv => TypeOK
  BY DEF Inv
<1>3. QED
  BY <1>1, <1>2, InitInv, PTL DEF Spec

\* No two workers ever hold one id, whatever the number of workers and rounds and the
\* changes of the configuration (roundModel.go:84-97 and 144-152).
THEOREM RoundOneWorkerPerId ==
  ASSUME Orderly
  PROVE  Spec => []OneWorkerPerId
<1>1. Inv /\ [Next]_vars => Inv'
  BY StepInv
<1>2. Inv => OneWorkerPerId
  BY DEF Inv, IdInv
<1>3. QED
  BY <1>1, <1>2, InitInv, PTL DEF Spec

\* A step of the mode is a step of ForkJoin or leaves its state alone.
LEMMA StepRefines ==
  ASSUME Orderly, Inv, Inv', [Next]_vars
  PROVE  [Promise!Next]_(Promise!vars)
<1> DEFINE phase == IF closed THEN "closed" ELSE IF pc \in ReturnPc THEN "joined" ELSE "forking"
<1> USE DEF Promise!Next, Promise!vars, Inv
<1>1. CASE \E g \in Goroutine : Spawn(g)
  <2>1. PICK g \in Goroutine : Spawn(g)
    BY <1>1
  <2>2. Live' = Live \cup {g}
    BY <2>1, GoCounts DEF Spawn, TypeOK, TaskTypeOK, PoolInv
  <2>3. g \notin Live
    BY <2>1 DEF Spawn, Go, Live
  <2>4. phase = "forking" /\ phase' = "forking"
    BY <2>1 DEF Spawn, PoolInv, KeepPipe, ReturnPc, FramePc
  <2>5. Promise!Fork(g)
    BY <2>2, <2>3, <2>4 DEF Promise!Fork
  <2>6. QED
    BY <2>5
<1>2. CASE Controller /\ ~ \E g \in Goroutine : Spawn(g)
  <2>1. UNCHANGED <<gpc, closed>> /\ pc \notin ReturnPc
    BY <1>2 DEF Controller, Enter, CheckRound, TakeOtherMessage, TakeStop, TakeNilModeConf,
       TakeChange, ApplyChange, StartSpawning, SkipId, EndSpawning, CountActive, WaitBatch, WaitAll,
       KeepPool, KeepPipe, ReturnPc, FramePc
  <2>2. Live' = Live /\ phase = "forking"
    BY <2>1 DEF Live, PoolInv, ReturnPc, FramePc
  <2>3. CASE pc' \in ReturnPc
    <3>1. Live = {} /\ phase' = "joined"
      BY <2>1, <2>2, <2>3 DEF PoolInv, ReturnPc, FramePc
    <3>2. Promise!Join
      BY <2>2, <3>1 DEF Promise!Join
    <3>3. QED
      BY <3>2
  <2>4. CASE pc' \notin ReturnPc
    BY <2>1, <2>2, <2>4
  <2>5. QED
    BY <2>3, <2>4
<1>3. ASSUME UNCHANGED controlMode, NEW g \in Goroutine, Worker(g)
      PROVE  [Promise!Next]_(Promise!vars)
  <2>1. phase' = phase
    BY <1>3, WorkerPool
  <2>2. CASE Live' = Live
    BY <2>1, <2>2
  <2>3. CASE g \in Live /\ Live' = Live \ {g}
    <3>1. Promise!End(g)
      BY <2>1, <2>3 DEF Promise!End
    <3>2. QED
      BY <3>1
  <2>4. QED
    BY <1>3, <2>2, <2>3, WorkerPool
<1>4. CASE TaskDecomposition /\ UNCHANGED <<controlMode, modeVars>>
  <2>1. Live' = Live
    BY <1>4, FrameStep
  <2>2. CASE Close
    <3>1. phase = "joined" /\ phase' = "closed"
      BY <2>2 DEF Close, PoolInv, ReturnPc, FramePc
    <3>2. Promise!Close
      BY <2>1, <3>1 DEF Promise!Close
    <3>3. QED
      BY <3>2
  <2>3. CASE ~Close
    <3>1. phase' = phase
      BY <1>4, <2>3 DEF TaskDecomposition, SendStart, ClearStart, SetEnd, SendEnd, ReturnPc, FramePc
    <3>2. QED
      BY <2>1, <3>1
  <2>4. QED
    BY <2>2, <2>3
<1>5. CASE (SendKafkaMsg \/ Publish) /\ UNCHANGED <<controlMode, modeVars>>
  <2>1. Live' = Live
    BY <1>5, FrameStep
  <2>2. UNCHANGED <<pc, closed>>
    BY <1>5 DEF SendKafkaMsg, Publish, Receive, Marshal, SendMessage, SendFails, SenderDone
  <2>3. QED
    BY <2>1, <2>2
<1>6. CASE UNCHANGED vars
  BY <1>6 DEF vars, taskVars, Live
<1>7. QED
  BY <1>1, <1>2, <1>3, <1>4, <1>5, <1>6 DEF Next, Terminated

\* The round mode implements ForkJoin: it returns, and lets the channel be closed, only
\* when every worker it started has ended.
THEOREM RoundRefinesForkJoin ==
  ASSUME Orderly
  PROVE  Spec => JoinsItsWorkers
<1>1. Init => Promise!Init
  BY DEF Init, TaskInit, Promise!Init, Live, ReturnPc, FramePc
<1>2. Inv /\ Inv' /\ [Next]_vars => [Promise!Next]_(Promise!vars)
  BY StepRefines
<1>3. Inv /\ [Next]_vars => Inv'
  BY StepInv
<1>4. QED
  BY <1>1, <1>2, <1>3, InitInv, PTL DEF Spec, JoinsItsWorkers, Promise!Spec

-----------------------------------------------------------------------------
(* The rounds executed                                                     *)

\* What RoundsAreAsAsked rests on.  n is a number of rounds somebody asked for, or fewer.
AskedFor(n) == n <= RoundNum \/ \E m \in Messages[controlMode] : n <= m.roundNum

\* Nothing was executed before the mode began, and rounds holds what was asked for.
AskedInv ==
  /\ AskedFor(rounds)
  /\ \A i \in Id : AskedFor(executed[i])
  /\ pc \in {"start", "enter"} =>
       /\ rounds = RoundNum /\ concurrent = Concurrency /\ round = 0
       /\ mapped = {} /\ \A i \in Id : executed[i] = 0
  /\ published = 0 => statusCh = <<>>

\* Centralized, an iteration adds one execution to an id: before its worker's scene the id
\* has at most `round` of them.
CentralRounds ==
  Centralized =>
    /\ pc \in {"select", "spawn", "batch"} => round < rounds
    /\ pc \notin ReturnPc => \A i \in Id :
         executed[i] <= IF pc \in {"spawn", "batch"} THEN round + 1 ELSE round
    /\ pc = "spawn" => \A i \in Id : i >= cursor => executed[i] <= round
    /\ \A g \in Live : gpc[g] \in {"head", "scene"} => executed[gid[g]] <= round
    /\ \A i \in mapped : \E g \in Live : gid[g] = i /\ gpc[g] # "done"
    /\ pc \notin {"count", "drain"}

\* Alone, an id has one worker for good, which counts its executions.
AloneRounds ==
  ~Centralized =>
    /\ \A i \in Id \ mapped : executed[i] = 0
    /\ \A g \in Live : /\ executed[gid[g]] = turn[g]
                       /\ gpc[g] = "scene" => AskedFor(turn[g] + 1)

\* id i has executed this iteration's round, or has a worker that will
Served(i) ==
  \/ executed[i] = round + 1
  \/ executed[i] = round /\ \E g \in Live : gid[g] = i /\ gpc[g] \in {"head", "scene"}

\* Centralized and without a message, no id falls behind.
QuietCentral ==
  Centralized /\ published = 0 =>
    /\ round <= rounds
    /\ \A i \in 0 .. concurrent - 1 :
         /\ pc \in {"loop", "select"} => executed[i] = round
         /\ pc = "spawn" => IF i < cursor THEN Served(i) ELSE executed[i] = round
         /\ pc = "batch" => Served(i)
         /\ pc \in ReturnPc => executed[i] = rounds

\* Alone and without a message, a worker gives its id up only after its last round.
QuietAlone ==
  ~Centralized /\ published = 0 =>
    /\ \A g \in Live : /\ turn[g] <= rounds
                       /\ gpc[g] = "scene" => turn[g] < rounds
                       /\ gpc[g] = "unmap" => turn[g] = rounds
                       /\ gpc[g] # "done" => gid[g] \in active
    /\ \A i \in mapped \ active : executed[i] = rounds
    /\ \A i \in 0 .. concurrent - 1 :
         /\ pc = "spawn" /\ i < cursor => i \in mapped
         /\ pc = "count" => i \in mapped
         /\ pc \in {"drain"} \cup ReturnPc => executed[i] = rounds

RoundsInv == AskedInv /\ CentralRounds /\ AloneRounds /\ QuietCentral /\ QuietAlone

\* Fewer than what was asked for is within what was asked for.
LEMMA AskedDown ==
  ASSUME Inv, NEW k \in Nat, NEW n \in Nat, k <= n, AskedFor(n)
  PROVE  AskedFor(k)
<1>1. CASE n <= RoundNum
  BY <1>1, RoundAssumption DEF AskedFor
<1>2. ASSUME NEW m \in Messages[controlMode], n <= m.roundNum PROVE AskedFor(k)
  <2>1. m \in StatusMessage
    BY TaskAssumption DEF Inv, TypeOK, TaskTypeOK
  <2>2. m.roundNum \in Nat
    BY <2>1 DEF StatusMessage
  <2>3. k <= m.roundNum
    BY <1>2, <2>2
  <2>4. QED
    BY <2>3 DEF AskedFor
<1>3. QED
  BY <1>1, <1>2 DEF AskedFor

\* What a worker's step leaves alone.
LEMMA WorkerMoves ==
  ASSUME Inv, NEW g \in Goroutine, Worker(g), UNCHANGED controlMode
  PROVE  /\ UNCHANGED <<pc, statusCh, published, concurrent, rounds, round, cursor>>
         /\ g \in Live /\ Live' \subseteq Live /\ Live \ {g} \subseteq Live'
         /\ \A h \in Live' : gid'[h] = gid[h]
         /\ \A h \in Live \ {g} : gpc'[h] = gpc[h] /\ turn'[h] = turn[h]
         /\ ~EndScene(g) => executed' = executed /\ turn' = turn
         /\ ~Unmap(g) => mapped' = mapped /\ active' = active
<1>1. /\ gpc \in [Goroutine -> WorkerPc] /\ gid \in [Goroutine -> Nat]
      /\ turn \in [Goroutine -> Nat] /\ Live \subseteq Goroutine
  BY DEF Inv, TypeOK, TaskTypeOK, Live
<1>2. UNCHANGED <<pc, statusCh, published, concurrent, rounds, round, cursor>>
  BY DEF Worker, StartScene, SendResult, EndScene, SceneReturns, Quit, Unmap, WorkerDone, KeepTask,
     KeepController, modeVars
<1>3. g \in Live
  BY DEF Live, Worker, StartScene, SendResult, EndScene, SceneReturns, Quit, Unmap, WorkerDone
<1>4. Live' \subseteq Live /\ Live \ {g} \subseteq Live'
  BY WorkerPool
<1>5. \A h \in Live' : gid'[h] = gid[h]
  <2>1. CASE WorkerDone(g)
    <3>1. g \notin Live'
      BY <1>1, <2>1 DEF WorkerDone, Live
    <3>2. QED
      BY <1>1, <1>4, <2>1, <3>1 DEF WorkerDone
  <2>2. CASE ~WorkerDone(g)
    BY <2>2 DEF Worker, StartScene, SendResult, EndScene, SceneReturns, Quit, Unmap, KeepTask
  <2>3. QED
    BY <2>1, <2>2
<1>6. \A h \in Live \ {g} : gpc'[h] = gpc[h] /\ turn'[h] = turn[h]
  BY <1>1 DEF Worker, StartScene, EnterScene, SendResult, EndScene, SceneReturns, Quit, Unmap,
     WorkerDone, KeepTask, modeVars
<1>7. ~EndScene(g) => executed' = executed /\ turn' = turn
  BY DEF Worker, StartScene, SendResult, Quit, Unmap, WorkerDone, modeVars
<1>8. ~Unmap(g) => mapped' = mapped /\ active' = active
  BY DEF Worker, StartScene, SendResult, EndScene, Quit, WorkerDone, KeepMap, modeVars
<1>9. QED
  BY <1>2, <1>3, <1>4, <1>5, <1>6, <1>7, <1>8

\* The end of a scene counts one execution, of its worker's id and no other.
LEMMA SceneCounts ==
  ASSUME Inv, NEW g \in Goroutine, EndScene(g)
  PROVE  /\ g \in Live /\ gpc[g] = "scene" /\ gid[g] \in Id /\ gid' = gid /\ Live' = Live
         /\ turn'[g] = turn[g] + 1 /\ executed'[gid[g]] = executed[gid[g]] + 1
         /\ \A i \in Id \ {gid[g]} : executed'[i] = executed[i]
         /\ \A h \in Live \ {g} : gid[h] # gid[g]
         /\ gpc'[g] = IF Centralized THEN "unmap" ELSE "head"
<1>1. /\ gpc \in [Goroutine -> WorkerPc] /\ turn \in [Goroutine -> Nat] /\ executed \in [Id -> Nat]
  BY DEF Inv, TypeOK, TaskTypeOK
<1>2. g \in Live /\ gpc[g] = "scene" /\ gid' = gid
  BY DEF EndScene, SceneReturns, Live
<1>3. gid[g] \in Id /\ \A h \in Live \ {g} : gid[h] # gid[g]
  BY <1>2 DEF Inv, IdInv, OneWorkerPerId
<1>4. gpc'[g] = (IF Centralized THEN "unmap" ELSE "head") /\ Live' = Live
  BY <1>1, <1>2 DEF EndScene, SceneReturns, Live
<1>5. QED
  BY <1>1, <1>2, <1>3, <1>4 DEF EndScene

\* A worker's steps keep what was executed within what was asked for.
LEMMA WorkerAsked ==
  ASSUME Inv, RoundsInv, NEW g \in Goroutine, Worker(g), UNCHANGED controlMode
  PROVE  AskedInv'
<1>1. /\ UNCHANGED <<pc, statusCh, published, concurrent, rounds, round>>
      /\ g \in Live
      /\ ~EndScene(g) => executed' = executed
      /\ ~Unmap(g) => mapped' = mapped
  BY WorkerMoves
<1>2. AskedFor(rounds)' /\ (published' = 0 => statusCh' = <<>>)
  BY <1>1 DEF RoundsInv, AskedInv, AskedFor
<1>3. pc \notin {"start", "enter"}
  BY <1>1 DEF Inv, PoolInv
<1>4. \A i \in Id : AskedFor(executed[i])'
  <2>1. CASE ~EndScene(g)
    BY <1>1, <2>1 DEF RoundsInv, AskedInv, AskedFor
  <2>2. CASE EndScene(g)
    <3>1. /\ gpc[g] = "scene" /\ gid[g] \in Id
          /\ executed'[gid[g]] = executed[gid[g]] + 1
          /\ \A i \in Id \ {gid[g]} : executed'[i] = executed[i]
      BY <2>2, SceneCounts
    <3>2. /\ rounds \in Nat /\ round \in Nat /\ executed[gid[g]] \in Nat
          /\ pc \in FramePc \cup {"loop", "select", "change", "spawn", "batch", "count", "drain"}
      BY <3>1 DEF Inv, TypeOK
    <3>3. AskedFor(executed[gid[g]] + 1)
      <4>1. CASE Centralized
        <5>1. pc \in {"spawn", "batch"}
          BY <1>1, <3>2, <4>1 DEF Inv, PoolInv, ReturnPc, FramePc
        <5>2. executed[gid[g]] <= round /\ round < rounds
          BY <1>1, <3>1, <4>1, <5>1 DEF RoundsInv, CentralRounds
        <5>3. executed[gid[g]] + 1 <= rounds
          BY <3>2, <5>2
        <5>4. QED
          BY <3>2, <5>3, AskedDown DEF RoundsInv, AskedInv
      <4>2. CASE ~Centralized
        BY <1>1, <3>1, <4>2 DEF RoundsInv, AloneRounds
      <4>3. QED
        BY <4>1, <4>2
    <3>4. QED
      BY <3>1, <3>3 DEF RoundsInv, AskedInv, AskedFor
  <2>3. QED
    BY <2>1, <2>2
<1>5. QED
  BY <1>1, <1>2, <1>3, <1>4 DEF AskedInv

\* Centralized, a worker adds its one execution to the round.
LEMMA WorkerCentral ==
  ASSUME Inv, RoundsInv, NEW g \in Goroutine, Worker(g), UNCHANGED controlMode, Centralized
  PROVE  CentralRounds' /\ QuietCentral'
<1>1. /\ UNCHANGED <<pc, statusCh, published, concurrent, rounds, round, cursor>>
      /\ g \in Live /\ Live' \subseteq Live /\ Live \ {g} \subseteq Live'
      /\ \A h \in Live' : gid'[h] = gid[h]
      /\ \A h \in Live \ {g} : gpc'[h] = gpc[h] /\ turn'[h] = turn[h]
      /\ ~EndScene(g) => executed' = executed /\ turn' = turn
      /\ ~Unmap(g) => mapped' = mapped /\ active' = active
  BY WorkerMoves
<1>2. /\ gpc \in [Goroutine -> WorkerPc] /\ executed \in [Id -> Nat]
      /\ {rounds, round, cursor} \subseteq Nat /\ Live \subseteq Goroutine
      /\ \A h \in Live : gid[h] \in Id
      /\ concurrent \in 0 .. MaxConcurrency
  BY DEF Inv, TypeOK, TaskTypeOK, IdInv, Live
<1>3. pc \in {"spawn", "batch"}
  BY <1>1 DEF Inv, PoolInv, TypeOK, ReturnPc, FramePc
<1>4. round < rounds
  BY <1>3 DEF RoundsInv, CentralRounds
<1>5. \A i \in mapped' : \E h \in Live' : gid'[h] = i /\ gpc'[h] # "done"
  <2>1. CASE Unmap(g)
    <3>1. mapped' = mapped \ {gid[g]}
      BY <2>1 DEF Unmap, GiveUp
    <3>2. QED
      BY <1>1, <3>1 DEF RoundsInv, CentralRounds
  <2>2. CASE ~Unmap(g)
    <3>1. gpc[g] # "done" => g \in Live' /\ gpc'[g] # "done"
      BY <1>1, <1>2, <2>2 DEF Live, Worker, StartScene, EnterScene, SendResult, EndScene,
         SceneReturns, Quit, WorkerDone
    <3>2. QED
      BY <1>1, <2>2, <3>1 DEF RoundsInv, CentralRounds
  <2>3. QED
    BY <2>1, <2>2
<1>6. CASE EndScene(g)
  <2>1. /\ gpc[g] = "scene" /\ gid[g] \in Id /\ gid' = gid /\ Live' = Live
        /\ executed'[gid[g]] = executed[gid[g]] + 1
        /\ \A i \in Id \ {gid[g]} : executed'[i] = executed[i]
        /\ \A h \in Live \ {g} : gid[h] # gid[g]
        /\ gpc'[g] = "unmap"
    BY <1>6, SceneCounts
  <2>2. executed[gid[g]] <= round
    BY <1>1, <2>1 DEF RoundsInv, CentralRounds
  <2>3. pc = "spawn" => gid[g] < cursor
    BY <1>1 DEF Inv, IdInv
  <2>4. CentralRounds'
    <3>1. \A i \in Id : executed'[i] <= round + 1
      BY <1>2, <1>3, <2>1, <2>2 DEF RoundsInv, CentralRounds, ReturnPc, FramePc
    <3>2. pc = "spawn" => \A i \in Id : i >= cursor => executed'[i] <= round
      <4>1. gid[g] \in Nat
        BY <2>1, RoundAssumption DEF Id
      <4>2. pc = "spawn" => \A i \in Id : i >= cursor => i # gid[g]
        BY <1>2, <2>3, <4>1
      <4>3. QED
        BY <2>1, <4>2 DEF RoundsInv, CentralRounds
    <3>3. \A h \in Live' : gpc'[h] \in {"head", "scene"} => executed'[gid'[h]] <= round'
      BY <1>1, <1>2, <2>1 DEF RoundsInv, CentralRounds
    <3>4. QED
      BY <1>1, <1>3, <1>4, <1>5, <3>1, <3>2, <3>3 DEF CentralRounds
  <2>5. ASSUME published = 0 PROVE QuietCentral'
    <3>1. round <= rounds
      BY <1>2, <1>4
    <3>2. ASSUME NEW i \in 0 .. concurrent - 1, Served(i) PROVE Served(i)'
      <4>1. i \in Id
        BY <1>2, RoundAssumption DEF Id
      <4>2. CASE i = gid[g]
        <5>1. executed[i] = round
          BY <1>2, <2>2, <3>2, <4>1, <4>2 DEF Served
        <5>2. QED
          BY <1>1, <2>1, <4>2, <5>1 DEF Served
      <4>3. CASE i # gid[g]
        <5>1. executed'[i] = executed[i]
          BY <2>1, <4>1, <4>3
        <5>2. QED
          BY <1>1, <2>1, <3>2, <4>3, <5>1 DEF Served
      <4>4. QED
        BY <4>2, <4>3
    <3>3. ASSUME NEW i \in 0 .. concurrent - 1, pc = "spawn", ~(i < cursor)
          PROVE  executed'[i] = round
      <4>1. i \in Id /\ i # gid[g]
        BY <1>2, <2>1, <2>3, <3>3, RoundAssumption DEF Id
      <4>2. executed[i] = round
        BY <2>5, <3>3 DEF RoundsInv, QuietCentral
      <4>3. QED
        BY <2>1, <4>1, <4>2
    <3>4. pc' \notin ReturnPc /\ pc' \notin {"loop", "select"}
      BY <1>1, <1>3 DEF ReturnPc, FramePc
    <3>5. \A i \in 0 .. concurrent - 1 :
            /\ pc = "spawn" /\ i < cursor => Served(i)
            /\ pc = "batch" => Served(i)
      BY <2>5 DEF RoundsInv, QuietCentral
    <3>6. QED
      BY <1>1, <3>1, <3>2, <3>3, <3>4, <3>5 DEF QuietCentral
  <2>6. QED
    BY <1>1, <2>4, <2>5 DEF QuietCentral
<1>7. CASE ~EndScene(g)
  <2>1. gpc'[g] \in {"head", "scene"} => gpc[g] \in {"head", "scene"}
    BY <1>2, <1>7 DEF Worker, StartScene, EnterScene, SendResult, Quit, Unmap, WorkerDone
  <2>2. CentralRounds'
    <3>1. \A h \in Live' : gpc'[h] \in {"head", "scene"} => gpc[h] \in {"head", "scene"}
      BY <1>1, <2>1
    <3>2. \A h \in Live' : gpc'[h] \in {"head", "scene"} => executed'[gid'[h]] <= round'
      BY <1>1, <1>7, <3>1 DEF RoundsInv, CentralRounds
    <3>3. \A i \in Id : executed'[i] <= round' + 1
      BY <1>1, <1>3, <1>7 DEF RoundsInv, CentralRounds, ReturnPc, FramePc
    <3>4. pc' = "spawn" => \A i \in Id : i >= cursor' => executed'[i] <= round'
      BY <1>1, <1>7 DEF RoundsInv, CentralRounds
    <3>5. QED
      BY <1>1, <1>3, <1>4, <1>5, <3>2, <3>3, <3>4 DEF CentralRounds
  <2>3. gpc[g] \in {"head", "scene"} => g \in Live' /\ gpc'[g] \in {"head", "scene"}
    BY <1>1, <1>2, <1>7 DEF Worker, StartScene, EnterScene, SendResult, Quit, Unmap, WorkerDone, Live
  <2>4. \A i \in 0 .. concurrent - 1 : Served(i) => Served(i)'
    <3>1. \A h \in Live : gpc[h] \in {"head", "scene"} =>
                            h \in Live' /\ gid'[h] = gid[h] /\ gpc'[h] \in {"head", "scene"}
      BY <1>1, <2>3
    <3>2. QED
      BY <1>1, <1>7, <3>1 DEF Served
  <2>5. ASSUME published = 0 PROVE QuietCentral'
    BY <1>1, <1>7, <2>4, <2>5 DEF RoundsInv, QuietCentral
  <2>6. QED
    BY <1>1, <2>2, <2>5 DEF QuietCentral
<1>8. QED
  BY <1>6, <1>7

\* Alone, a worker counts its executions and stops at the round number.
LEMMA WorkerAlone ==
  ASSUME Inv, RoundsInv, NEW g \in Goroutine, Worker(g), UNCHANGED controlMode, ~Centralized
  PROVE  AloneRounds' /\ QuietAlone'
<1>1. /\ UNCHANGED <<pc, statusCh, published, concurrent, rounds, round, cursor>>
      /\ g \in Live /\ Live' \subseteq Live /\ Live \ {g} \subseteq Live'
      /\ \A h \in Live' : gid'[h] = gid[h]
      /\ \A h \in Live \ {g} : gpc'[h] = gpc[h] /\ turn'[h] = turn[h]
      /\ ~EndScene(g) => executed' = executed /\ turn' = turn
      /\ ~Unmap(g) => mapped' = mapped /\ active' = active
  BY WorkerMoves
<1>2. /\ gpc \in [Goroutine -> WorkerPc] /\ executed \in [Id -> Nat] /\ turn \in [Goroutine -> Nat]
      /\ {rounds, round, cursor} \subseteq Nat /\ Live \subseteq Goroutine
      /\ \A h \in Live : gid[h] \in mapped
      /\ concurrent \in 0 .. MaxConcurrency /\ mapped \subseteq Id /\ active \subseteq mapped
  BY DEF Inv, TypeOK, TaskTypeOK, IdInv, Live
<1>3. Unmap(g) => mapped' = mapped /\ active' = active \ {gid[g]}
  BY <1>1, <1>2 DEF Unmap, GiveUp
<1>4. mapped' = mapped
  BY <1>1, <1>3
<1>5. pc \notin ReturnPc
  BY <1>1 DEF Inv, PoolInv
<1>6. CASE EndScene(g)
  <2>1. /\ gpc[g] = "scene" /\ gid[g] \in Id /\ gid' = gid /\ Live' = Live
        /\ turn'[g] = turn[g] + 1 /\ executed'[gid[g]] = executed[gid[g]] + 1
        /\ \A i \in Id \ {gid[g]} : executed'[i] = executed[i]
        /\ \A h \in Live \ {g} : gid[h] # gid[g]
        /\ gpc'[g] = "head"
    BY <1>6, SceneCounts
  <2>2. executed[gid[g]] = turn[g] /\ AskedFor(turn[g] + 1)
    BY <1>1, <2>1 DEF RoundsInv, AloneRounds
  <2>3. AloneRounds'
    <3>1. \A i \in Id \ mapped : executed'[i] = 0
      BY <1>1, <1>2, <2>1 DEF RoundsInv, AloneRounds
    <3>2. \A h \in Live \ {g} : /\ executed'[gid[h]] = turn'[h]
                                /\ gpc'[h] = "scene" => AskedFor(turn'[h] + 1)
      BY <1>1, <1>2, <2>1 DEF RoundsInv, AloneRounds
    <3>3. executed'[gid[g]] = turn'[g]
      BY <2>1, <2>2
    <3>4. QED
      BY <1>4, <2>1, <3>1, <3>2, <3>3 DEF AloneRounds, AskedFor
  <2>4. ASSUME published = 0 PROVE QuietAlone'
    <3>1. turn[g] < rounds /\ gid[g] \in active
      BY <1>1, <2>1, <2>4 DEF RoundsInv, QuietAlone
    <3>2. turn'[g] <= rounds
      BY <1>2, <2>1, <3>1
    <3>3. \A h \in Live' : /\ turn'[h] <= rounds
                           /\ gpc'[h] = "scene" => turn'[h] < rounds
                           /\ gpc'[h] = "unmap" => turn'[h] = rounds
                           /\ gpc'[h] # "done" => gid'[h] \in active
      BY <1>1, <2>1, <2>4, <3>1, <3>2 DEF RoundsInv, QuietAlone
    <3>4. active' = active
      BY <1>1, <1>6 DEF EndScene, KeepMap
    <3>5. \A i \in mapped \ active : executed'[i] = rounds
      BY <1>2, <2>1, <2>4, <3>1 DEF RoundsInv, QuietAlone
    <3>6. executed[gid[g]] # rounds
      BY <1>2, <2>2, <3>1
    <3>7. ASSUME NEW i \in 0 .. concurrent - 1, pc = "drain" PROVE executed'[i] = rounds
      <4>1. i \in Id /\ executed[i] = rounds
        BY <1>2, <2>4, <3>7, RoundAssumption DEF RoundsInv, QuietAlone, Id
      <4>2. QED
        BY <2>1, <3>6, <4>1
    <3>8. \A i \in 0 .. concurrent - 1 : /\ pc = "spawn" /\ i < cursor => i \in mapped
                                         /\ pc = "count" => i \in mapped
      BY <2>4 DEF RoundsInv, QuietAlone
    <3>9. QED
      BY <1>1, <1>4, <1>5, <3>3, <3>4, <3>5, <3>7, <3>8 DEF QuietAlone
  <2>5. QED
    BY <1>1, <2>3, <2>4 DEF QuietAlone
<1>7. CASE ~EndScene(g)
  <2>1. gpc'[g] = "scene" => gpc[g] = "scene" \/ (gpc[g] = "head" /\ turn[g] < rounds)
    BY <1>2, <1>7 DEF Worker, StartScene, EnterScene, HasTurn, SendResult, Quit, Unmap, WorkerDone
  <2>2. AskedFor(rounds)
    BY DEF RoundsInv, AskedInv
  <2>3. gpc'[g] = "scene" => AskedFor(turn[g] + 1)
    <3>1. CASE turn[g] < rounds
      <4>1. turn[g] \in Nat /\ turn[g] + 1 \in Nat /\ turn[g] + 1 <= rounds
        BY <1>2, <3>1
      <4>2. QED
        BY <1>2, <2>2, <4>1, AskedDown
    <3>2. CASE gpc[g] = "scene"
      BY <1>1, <3>2 DEF RoundsInv, AloneRounds
    <3>3. QED
      BY <2>1, <3>1, <3>2
  <2>4. AloneRounds'
    <3>1. \A h \in Live' : /\ executed'[gid'[h]] = turn'[h]
                           /\ gpc'[h] = "scene" => AskedFor(turn'[h] + 1)
      BY <1>1, <1>7, <2>3 DEF RoundsInv, AloneRounds
    <3>2. QED
      BY <1>1, <1>4, <1>7, <3>1 DEF RoundsInv, AloneRounds, AskedFor
  <2>5. ASSUME published = 0 PROVE QuietAlone'
    <3>1. /\ turn[g] <= rounds
          /\ gpc[g] = "scene" => turn[g] < rounds
          /\ gpc[g] = "unmap" => turn[g] = rounds
          /\ gpc[g] # "done" => gid[g] \in active
      BY <1>1, <2>5 DEF RoundsInv, QuietAlone
    <3>2. gpc'[g] = "unmap" => turn[g] = rounds
      <4>1. CASE Quit(g)
        <5>1. gpc[g] = "head" /\ ~HasTurn(g)
          BY <4>1 DEF Quit
        <5>2. turn[g] \in Nat /\ rounds \in Nat
          BY <1>2
        <5>3. QED
          BY <3>1, <5>1, <5>2 DEF HasTurn
      <4>2. CASE ~Quit(g)
        BY <1>2, <1>7, <3>1, <4>2 DEF Worker, StartScene, EnterScene, SendResult, Unmap, WorkerDone
      <4>3. QED
        BY <4>1, <4>2
    <3>3. CASE Unmap(g)
      <4>1. gpc[g] = "unmap" /\ gpc'[g] = "done"
        BY <1>2, <3>3 DEF Unmap
      <4>2. active' = active \ {gid[g]} /\ executed[gid[g]] = rounds
        BY <1>1, <1>3, <3>1, <3>3, <4>1 DEF RoundsInv, AloneRounds
      <4>3. \A h \in Live \ {g} : gid[h] # gid[g]
        BY <1>1 DEF Inv, IdInv, OneWorkerPerId
      <4>4. \A h \in Live' : /\ turn'[h] <= rounds
                             /\ gpc'[h] = "scene" => turn'[h] < rounds
                             /\ gpc'[h] = "unmap" => turn'[h] = rounds
                             /\ gpc'[h] # "done" => gid'[h] \in active'
        BY <1>1, <1>7, <2>5, <3>1, <4>1, <4>2, <4>3 DEF RoundsInv, QuietAlone
      <4>5. \A i \in mapped \ active' : executed[i] = rounds
        BY <2>5, <4>2 DEF RoundsInv, QuietAlone
      <4>6. QED
        BY <1>1, <1>4, <1>7, <2>5, <4>4, <4>5 DEF RoundsInv, QuietAlone
    <3>4. CASE ~Unmap(g)
      <4>1. gpc'[g] # "done" /\ gpc'[g] # "free" => gpc[g] # "done"
        BY <1>2, <1>7, <3>4 DEF Worker, StartScene, EnterScene, SendResult, Quit, WorkerDone
      <4>2. \A h \in Live' : /\ turn'[h] <= rounds
                             /\ gpc'[h] = "scene" => turn'[h] < rounds
                             /\ gpc'[h] = "unmap" => turn'[h] = rounds
                             /\ gpc'[h] # "done" => gid'[h] \in active'
        <5>1. ASSUME NEW h \in Live', h = g
              PROVE  /\ turn'[h] <= rounds
                     /\ gpc'[h] = "scene" => turn'[h] < rounds
                     /\ gpc'[h] = "unmap" => turn'[h] = rounds
                     /\ gpc'[h] # "done" => gid'[h] \in active'
          <6>1. gpc'[g] # "free"
            BY <5>1 DEF Live
          <6>2. QED
            BY <1>1, <1>7, <2>1, <3>1, <3>2, <3>4, <4>1, <5>1, <6>1
        <5>2. QED
          BY <1>1, <1>7, <2>5, <3>4, <5>1 DEF RoundsInv, QuietAlone
      <4>3. QED
        BY <1>1, <1>7, <2>5, <3>4, <4>2 DEF RoundsInv, QuietAlone
    <3>5. QED
      BY <3>3, <3>4
  <2>6. QED
    BY <1>1, <2>4, <2>5 DEF QuietAlone
<1>8. QED
  BY <1>6, <1>7

\* What a step of the controller leaves alone, unless it spawns.
LEMMA ControllerMoves ==
  ASSUME Inv, Controller, UNCHANGED controlMode, ~ \E g \in Goroutine : Spawn(g)
  PROVE  UNCHANGED <<gpc, gid, turn, executed, published, Live>>
<1>1. UNCHANGED <<gpc, gid, turn, executed, published>>
  BY DEF Controller, Enter, CheckRound, TakeOtherMessage, TakeStop, TakeNilModeConf, TakeChange,
     ApplyChange, StartSpawning, SkipId, EndSpawning, CountActive, WaitBatch, WaitAll, KeepPool, KeepPipe
<1>2. QED
  BY <1>1 DEF Live

\* What a spawn does to the pool and the map.
LEMMA SpawnMoves ==
  ASSUME Inv, NEW g \in Goroutine, Spawn(g)
  PROVE  /\ cursor \in Id /\ cursor < concurrent /\ cursor \notin mapped /\ cursor' = cursor + 1
         /\ mapped' = mapped \cup {cursor} /\ active' = active \cup {cursor}
         /\ Live' = Live \cup {g} /\ g \notin Live
         /\ gid'[g] = cursor /\ gpc'[g] = "head" /\ turn'[g] = 0
         /\ \A h \in Live : gid'[h] = gid[h] /\ gpc'[h] = gpc[h] /\ turn'[h] = turn[h]
         /\ pc = "spawn" /\ pc' = "spawn"
         /\ UNCHANGED <<statusCh, concurrent, rounds, round, executed, published>>
<1>1. /\ gpc \in [Goroutine -> WorkerPc] /\ gid \in [Goroutine -> Nat] /\ turn \in [Goroutine -> Nat]
      /\ cursor \in Nat /\ concurrent \in 0 .. MaxConcurrency
  BY DEF Inv, TypeOK, TaskTypeOK
<1>2. Live' = Live \cup {g} /\ g \notin Live
  BY <1>1 DEF Spawn, Go, Live
<1>3. cursor \in Id
  BY <1>1, RoundAssumption DEF Spawn, Id
<1>4. gid'[g] = cursor /\ gpc'[g] = "head" /\ turn'[g] = 0
  BY <1>1 DEF Spawn, Go
<1>5. \A h \in Live : gid'[h] = gid[h] /\ gpc'[h] = gpc[h] /\ turn'[h] = turn[h]
  BY <1>1, <1>2 DEF Spawn, Go, Live
<1>6. QED
  BY <1>2, <1>3, <1>4, <1>5 DEF Spawn, KeepPipe

\* The controller asks for no more rounds than the task or a message does.
LEMMA ControllerAsked ==
  ASSUME Inv, RoundsInv, Controller, UNCHANGED controlMode
  PROVE  AskedInv'
<1>1. UNCHANGED <<executed, published>>
  <2>1. ASSUME NEW g \in Goroutine, Spawn(g) PROVE UNCHANGED <<executed, published>>
    BY <2>1, SpawnMoves
  <2>2. QED
    BY <2>1, ControllerMoves
<1>2. pc' \notin {"start", "enter"}
  BY DEF Controller, Enter, CheckRound, TakeOtherMessage, TakeStop, TakeNilModeConf, TakeChange,
     ApplyChange, StartSpawning, SkipId, Spawn, EndSpawning, CountActive, WaitBatch, WaitAll,
     NextIteration
<1>3. published = 0 => statusCh' = <<>>
  <2>1. statusCh = <<>> => statusCh' = statusCh
    BY DEF Inv, PoolInv, Controller, Enter, CheckRound, TakeOtherMessage, TakeStop, TakeNilModeConf,
       TakeChange, ApplyChange, StartSpawning, SkipId, Spawn, EndSpawning, CountActive, WaitBatch, WaitAll
  <2>2. QED
    BY <2>1 DEF RoundsInv, AskedInv
<1>4. AskedFor(rounds)'
  <2>1. CASE TakeChange
    <3>1. Head(statusCh) \in Messages[controlMode]
      BY <2>1 DEF TakeChange, Inv, TypeOK, TaskTypeOK
    <3>2. Head(statusCh).roundNum \in Nat
      BY <3>1, TaskAssumption DEF StatusMessage, Inv, TypeOK, TaskTypeOK
    <3>3. rounds' = rounds \/ rounds' = Head(statusCh).roundNum
      BY <2>1 DEF TakeChange
    <3>4. QED
      BY <3>1, <3>2, <3>3 DEF RoundsInv, AskedInv, AskedFor
  <2>2. CASE ~TakeChange
    <3>1. rounds' = rounds
      BY <2>2 DEF Controller, Enter, CheckRound, TakeOtherMessage, TakeStop, TakeNilModeConf,
         ApplyChange, StartSpawning, SkipId, Spawn, EndSpawning, CountActive, WaitBatch, WaitAll
    <3>2. QED
      BY <3>1 DEF RoundsInv, AskedInv, AskedFor
  <2>3. QED
    BY <2>1, <2>2
<1>5. QED
  BY <1>1, <1>2, <1>3, <1>4 DEF RoundsInv, AskedInv, AskedFor

\* Centralized, the controller counts an iteration only when its batch has ended.
LEMMA ControllerCentral ==
  ASSUME Inv, RoundsInv, Controller, UNCHANGED controlMode, Centralized
  PROVE  CentralRounds' /\ QuietCentral'
<1>1. /\ executed \in [Id -> Nat] /\ {rounds, round, cursor} \subseteq Nat
      /\ concurrent \in 0 .. MaxConcurrency /\ Concurrency \in Nat /\ RoundNum \in Nat
      /\ 0 .. concurrent - 1 \subseteq Id /\ \A i \in Id : i \in Nat
  BY RoundAssumption DEF Inv, TypeOK, Id
<1>2. /\ pc \in {"select", "spawn", "batch"} => round < rounds
      /\ pc \notin ReturnPc => \A i \in Id :
           executed[i] <= IF pc \in {"spawn", "batch"} THEN round + 1 ELSE round
      /\ pc = "spawn" => \A i \in Id : i >= cursor => executed[i] <= round
      /\ \A g \in Live : gpc[g] \in {"head", "scene"} => executed[gid[g]] <= round
      /\ \A i \in mapped : \E g \in Live : gid[g] = i /\ gpc[g] # "done"
      /\ pc \notin {"count", "drain"}
  BY DEF RoundsInv, CentralRounds
<1>3. Live = {} => mapped = {}
  BY <1>2
<1>4. pc \notin {"spawn", "batch"} /\ pc \notin ReturnPc => Live = {} /\ \A i \in Id : executed[i] <= round
  BY <1>2 DEF Inv, PoolInv, TypeOK, ReturnPc, FramePc
<1>5. published = 0 =>
        /\ round <= rounds /\ statusCh = <<>> /\ pc # "change"
        /\ \A i \in 0 .. concurrent - 1 :
             /\ pc \in {"loop", "select"} => executed[i] = round
             /\ pc = "spawn" => IF i < cursor THEN Served(i) ELSE executed[i] = round
             /\ pc = "batch" => Served(i)
  BY DEF RoundsInv, QuietCentral, AskedInv, Inv, PoolInv
<1>6. ASSUME NEW g \in Goroutine, Spawn(g) PROVE CentralRounds' /\ QuietCentral'
  <2>1. /\ cursor \in Id /\ cursor < concurrent /\ cursor \notin mapped /\ cursor' = cursor + 1
        /\ mapped' = mapped \cup {cursor} /\ active' = active \cup {cursor}
        /\ Live' = Live \cup {g} /\ g \notin Live
        /\ gid'[g] = cursor /\ gpc'[g] = "head"
        /\ \A h \in Live : gid'[h] = gid[h] /\ gpc'[h] = gpc[h]
        /\ pc = "spawn" /\ pc' = "spawn"
        /\ UNCHANGED <<statusCh, concurrent, rounds, round, executed, published>>
    BY <1>6, SpawnMoves
  <2>2. executed[cursor] <= round
    BY <1>1, <1>2, <2>1
  <2>3. CentralRounds'
    <3>1. \A h \in Live' : gpc'[h] \in {"head", "scene"} => executed'[gid'[h]] <= round'
      BY <1>2, <2>1, <2>2
    <3>2. \A i \in Id : i >= cursor' => executed'[i] <= round'
      BY <1>1, <1>2, <2>1
    <3>3. \A i \in Id : executed'[i] <= round' + 1
      BY <1>2, <2>1 DEF ReturnPc, FramePc
    <3>4. \A i \in mapped' : \E h \in Live' : gid'[h] = i /\ gpc'[h] # "done"
      BY <1>2, <2>1
    <3>5. QED
      BY <1>2, <2>1, <3>1, <3>2, <3>3, <3>4 DEF CentralRounds
  <2>4. ASSUME published = 0, NEW i \in 0 .. concurrent - 1
        PROVE  IF i < cursor' THEN Served(i)' ELSE executed'[i] = round'
    <3>1. CASE i < cursor
      BY <1>1, <1>5, <2>1, <2>4, <3>1 DEF Served
    <3>2. CASE i = cursor
      <4>1. executed[i] = round
        BY <1>1, <1>5, <2>1, <2>4, <3>2
      <4>2. Served(i)'
        BY <2>1, <3>2, <4>1 DEF Served
      <4>3. QED
        BY <1>1, <2>1, <3>2, <4>2
    <3>3. CASE i > cursor
      BY <1>1, <1>5, <2>1, <2>4, <3>3
    <3>4. QED
      BY <1>1, <3>1, <3>2, <3>3
  <2>5. QED
    BY <1>5, <2>1, <2>3, <2>4 DEF QuietCentral, ReturnPc, FramePc
<1>7. CASE ~ \E g \in Goroutine : Spawn(g)
  <2>1. UNCHANGED <<gpc, gid, executed, published, Live>>
    BY <1>7, ControllerMoves
  <2>2. CASE Enter
    <3>1. /\ rounds = RoundNum /\ concurrent = Concurrency /\ round = 0
          /\ mapped = {} /\ (\A i \in Id : executed[i] = 0) /\ Live = {}
      BY <2>2 DEF Enter, RoundsInv, AskedInv, Inv, PoolInv
    <3>2. /\ pc' = IF Concurrency = 0 \/ RoundNum = 0 THEN "clearStart" ELSE "loop"
          /\ UNCHANGED <<concurrent, rounds, round, mapped>>
      BY <2>2 DEF Enter, KeepMap
    <3>3. CentralRounds'
      BY <1>1, <2>1, <3>1, <3>2 DEF CentralRounds, ReturnPc, FramePc
    <3>4. \A i \in 0 .. concurrent - 1 : executed[i] = 0 /\ (pc' \in ReturnPc => rounds = 0)
      BY <1>1, <3>1, <3>2 DEF ReturnPc, FramePc
    <3>5. QED
      BY <1>1, <2>1, <3>1, <3>2, <3>3, <3>4 DEF QuietCentral
  <2>3. CASE CheckRound
    <3>1. /\ pc = "loop" /\ UNCHANGED <<concurrent, rounds, round, mapped>>
          /\ pc' = IF round >= rounds THEN "clearStart" ELSE "select"
      BY <2>3 DEF CheckRound, KeepMap
    <3>2. Live = {} /\ \A i \in Id : executed[i] <= round
      BY <1>4, <3>1 DEF ReturnPc, FramePc
    <3>3. CentralRounds'
      BY <1>1, <1>3, <2>1, <3>1, <3>2 DEF CentralRounds
    <3>4. published = 0 /\ pc' = "clearStart" => round = rounds
      BY <1>1, <1>5, <3>1
    <3>5. QED
      BY <1>5, <2>1, <3>1, <3>3, <3>4 DEF QuietCentral, ReturnPc, FramePc
  <2>4. CASE TakeOtherMessage \/ TakeStop \/ TakeNilModeConf \/ TakeChange \/ ApplyChange
    <3>1. /\ pc \in {"select", "change"} /\ statusCh # <<>>
          /\ \/ pc' \in {"clearStart", "change"} /\ round' = round
             \/ pc' = "loop" /\ round' = round + 1
      BY <2>4 DEF TakeOtherMessage, TakeStop, TakeNilModeConf, TakeChange, ApplyChange, NextIteration,
         Inv, PoolInv
    <3>2. Live = {} /\ \A i \in Id : executed[i] <= round
      BY <1>4, <3>1 DEF ReturnPc, FramePc
    <3>3. mapped' = {}
      BY <1>3, <2>4, <3>2 DEF TakeOtherMessage, TakeStop, TakeNilModeConf, TakeChange, ApplyChange,
         GiveUp, KeepMap
    <3>4. \A i \in Id : executed[i] <= round'
      BY <1>1, <3>1, <3>2
    <3>5. CentralRounds'
      BY <2>1, <3>1, <3>2, <3>3, <3>4 DEF CentralRounds
    <3>6. published # 0
      BY <1>5, <3>1
    <3>7. QED
      BY <2>1, <3>5, <3>6 DEF QuietCentral
  <2>5. CASE StartSpawning
    <3>1. /\ pc = "select" /\ pc' = "spawn" /\ cursor' = 0
          /\ UNCHANGED <<concurrent, rounds, round, mapped>>
      BY <2>5 DEF StartSpawning, KeepMap
    <3>2. Live = {} /\ \A i \in Id : executed[i] <= round /\ executed[i] <= round + 1
      BY <1>1, <1>4, <3>1 DEF ReturnPc, FramePc
    <3>3. CentralRounds'
      BY <1>2, <1>3, <2>1, <3>1, <3>2 DEF CentralRounds
    <3>4. \A i \in 0 .. concurrent - 1 : ~(i < cursor')
      BY <3>1
    <3>5. QED
      BY <1>5, <2>1, <3>1, <3>3, <3>4 DEF QuietCentral, ReturnPc, FramePc
  <2>6. CASE SkipId
    <3>1. pc = "spawn" /\ cursor \in mapped
      BY <2>6 DEF SkipId
    <3>2. PICK g \in Live : gid[g] = cursor
      BY <1>2, <3>1
    <3>3. gid[g] < cursor
      BY <3>1 DEF Inv, IdInv
    <3>4. QED
      BY <1>1, <3>2, <3>3
  <2>7. CASE EndSpawning
    <3>1. /\ pc = "spawn" /\ pc' = "batch" /\ cursor >= concurrent
          /\ UNCHANGED <<concurrent, rounds, round, mapped>>
      BY <2>7 DEF EndSpawning, KeepMap
    <3>2. \A i \in Id : executed[i] <= round + 1
      BY <1>2, <3>1 DEF ReturnPc, FramePc
    <3>3. CentralRounds'
      BY <1>2, <2>1, <3>1, <3>2 DEF CentralRounds
    <3>4. \A i \in 0 .. concurrent - 1 : i < cursor
      BY <1>1, <3>1
    <3>5. published = 0 => \A i \in 0 .. concurrent - 1 : Served(i)'
      BY <1>5, <2>1, <3>1, <3>4 DEF Served
    <3>6. QED
      BY <1>5, <2>1, <3>1, <3>3, <3>5 DEF QuietCentral, ReturnPc, FramePc
  <2>8. CASE WaitBatch
    <3>1. /\ pc = "batch" /\ pc' = "loop" /\ round' = round + 1
          /\ UNCHANGED <<concurrent, rounds, mapped>>
      BY <2>8 DEF WaitBatch, NextIteration, KeepMap
    <3>2. Live = {}
      BY <2>8, ZeroIsEmpty DEF WaitBatch, Inv, PoolInv
    <3>3. \A i \in Id : executed[i] <= round + 1
      BY <1>2, <3>1 DEF ReturnPc, FramePc
    <3>4. CentralRounds'
      BY <1>3, <2>1, <3>1, <3>2, <3>3 DEF CentralRounds
    <3>5. published = 0 => round + 1 <= rounds /\ \A i \in 0 .. concurrent - 1 : executed[i] = round + 1
      BY <1>1, <1>2, <1>5, <3>1, <3>2 DEF Served
    <3>6. QED
      BY <2>1, <3>1, <3>4, <3>5 DEF QuietCentral, ReturnPc, FramePc
  <2>9. CASE CountActive \/ WaitAll
    BY <1>2, <2>9 DEF CountActive, WaitAll
  <2>10. QED
    BY <1>7, <2>2, <2>3, <2>4, <2>5, <2>6, <2>7, <2>8, <2>9 DEF Controller
<1>8. QED
  BY <1>6, <1>7

\* Alone, the controller ends its loop only when every id has been given up.
LEMMA ControllerAlone ==
  ASSUME Inv, RoundsInv, Controller, UNCHANGED controlMode, ~Centralized
  PROVE  AloneRounds' /\ QuietAlone'
<1>1. /\ executed \in [Id -> Nat] /\ {rounds, round, cursor} \subseteq Nat
      /\ concurrent \in 0 .. MaxConcurrency /\ Concurrency \in Nat /\ RoundNum \in Nat
      /\ 0 .. concurrent - 1 \subseteq Id /\ \A i \in Id : i \in Nat
      /\ mapped \subseteq Id /\ active \subseteq mapped
      /\ \A h \in Live : gid[h] \in mapped
  BY RoundAssumption DEF Inv, TypeOK, IdInv, Id
<1>2. /\ \A i \in Id \ mapped : executed[i] = 0
      /\ \A g \in Live : /\ executed[gid[g]] = turn[g]
                         /\ gpc[g] = "scene" => AskedFor(turn[g] + 1)
  BY DEF RoundsInv, AloneRounds
<1>3. published = 0 =>
        /\ statusCh = <<>> /\ pc # "change"
        /\ \A g \in Live : /\ turn[g] <= rounds
                           /\ gpc[g] = "scene" => turn[g] < rounds
                           /\ gpc[g] = "unmap" => turn[g] = rounds
                           /\ gpc[g] # "done" => gid[g] \in active
        /\ \A i \in mapped \ active : executed[i] = rounds
        /\ \A i \in 0 .. concurrent - 1 :
             /\ pc = "spawn" /\ i < cursor => i \in mapped
             /\ pc = "count" => i \in mapped
             /\ pc \in {"drain"} \cup ReturnPc => executed[i] = rounds
  BY DEF RoundsInv, QuietAlone, AskedInv, Inv, PoolInv
<1>4. ASSUME NEW g \in Goroutine, Spawn(g) PROVE AloneRounds' /\ QuietAlone'
  <2>1. /\ cursor \in Id /\ cursor < concurrent /\ cursor \notin mapped /\ cursor' = cursor + 1
        /\ mapped' = mapped \cup {cursor} /\ active' = active \cup {cursor}
        /\ Live' = Live \cup {g} /\ g \notin Live
        /\ gid'[g] = cursor /\ gpc'[g] = "head" /\ turn'[g] = 0
        /\ \A h \in Live : gid'[h] = gid[h] /\ gpc'[h] = gpc[h] /\ turn'[h] = turn[h]
        /\ pc = "spawn" /\ pc' = "spawn"
        /\ UNCHANGED <<statusCh, concurrent, rounds, round, executed, published>>
    BY <1>4, SpawnMoves
  <2>2. executed[cursor] = 0
    BY <1>2, <2>1
  <2>3. AloneRounds'
    <3>1. \A h \in Live' : /\ executed'[gid'[h]] = turn'[h]
                           /\ gpc'[h] = "scene" => AskedFor(turn'[h] + 1)
      BY <1>2, <2>1, <2>2
    <3>2. QED
      BY <1>2, <2>1, <3>1 DEF AloneRounds, AskedFor
  <2>4. ASSUME published = 0 PROVE QuietAlone'
    <3>1. \A h \in Live' : /\ turn'[h] <= rounds
                           /\ gpc'[h] = "scene" => turn'[h] < rounds
                           /\ gpc'[h] = "unmap" => turn'[h] = rounds
                           /\ gpc'[h] # "done" => gid'[h] \in active'
      BY <1>1, <1>3, <2>1, <2>4
    <3>2. \A i \in mapped' \ active' : executed[i] = rounds
      BY <1>3, <2>1, <2>4
    <3>3. \A i \in 0 .. concurrent - 1 : i < cursor' => i \in mapped'
      BY <1>1, <1>3, <2>1, <2>4
    <3>4. QED
      BY <2>1, <3>1, <3>2, <3>3 DEF QuietAlone, ReturnPc, FramePc
  <2>5. QED
    BY <2>1, <2>3, <2>4 DEF QuietAlone
<1>5. CASE ~ \E g \in Goroutine : Spawn(g)
  <2>1. UNCHANGED <<gpc, gid, turn, executed, published, Live>>
    BY <1>5, ControllerMoves
  <2>2. mapped \subseteq mapped'
    BY <1>5 DEF Controller, Enter, CheckRound, TakeOtherMessage, TakeStop, TakeNilModeConf, TakeChange,
       ApplyChange, StartSpawning, SkipId, EndSpawning, CountActive, WaitBatch, WaitAll, GiveUp, KeepMap
  <2>3. AloneRounds'
    BY <1>2, <2>1, <2>2 DEF AloneRounds, AskedFor
  <2>4. ASSUME published = 0 PROVE QuietAlone'
    <3>1. UNCHANGED <<concurrent, rounds, mapped, active>>
      BY <1>3, <1>5, <2>4 DEF Controller, Enter, CheckRound, TakeOtherMessage, TakeStop,
         TakeNilModeConf, TakeChange, ApplyChange, StartSpawning, SkipId, EndSpawning, CountActive,
         WaitBatch, WaitAll, KeepMap
    <3>2. \A i \in 0 .. concurrent - 1 : pc' = "spawn" /\ i < cursor' => i \in mapped
      <4>1. CASE StartSpawning
        BY <4>1 DEF StartSpawning
      <4>2. CASE SkipId
        BY <1>1, <1>3, <2>4, <4>2 DEF SkipId
      <4>3. CASE ~StartSpawning /\ ~SkipId
        BY <1>5, <4>3 DEF Controller, Enter, CheckRound, TakeOtherMessage, TakeStop, TakeNilModeConf,
           TakeChange, ApplyChange, EndSpawning, CountActive, WaitBatch, WaitAll, NextIteration
      <4>4. QED
        BY <4>1, <4>2, <4>3
    <3>3. pc' = "count" => pc = "spawn" /\ cursor >= concurrent
      BY <1>3, <1>5, <2>4 DEF Controller, Enter, CheckRound, TakeOtherMessage, TakeStop, TakeNilModeConf,
         TakeChange, ApplyChange, StartSpawning, SkipId, EndSpawning, CountActive, WaitBatch, WaitAll,
         NextIteration
    <3>4. ASSUME pc' \in {"drain"} \cup ReturnPc, NEW i \in 0 .. concurrent - 1
          PROVE  executed[i] = rounds
      <4>1. CASE Enter
        <5>1. /\ rounds = RoundNum /\ concurrent = Concurrency
              /\ (\A j \in Id : executed[j] = 0)
          BY <4>1 DEF Enter, RoundsInv, AskedInv
        <5>2. Concurrency = 0 \/ RoundNum = 0
          BY <3>4, <4>1 DEF Enter, ReturnPc, FramePc
        <5>3. QED
          BY <1>1, <5>1, <5>2
      <4>2. CASE CountActive
        <5>1. pc = "count" /\ active = {}
          BY <3>4, <4>2 DEF CountActive, ReturnPc, FramePc
        <5>2. QED
          BY <1>3, <2>4, <5>1
      <4>3. CASE WaitAll
        BY <1>3, <2>4, <4>3 DEF WaitAll
      <4>4. CASE ~Enter /\ ~CountActive /\ ~WaitAll
        <5>1. pc' \notin {"drain"} \cup ReturnPc
          BY <1>3, <1>5, <2>4, <4>4 DEF Controller, CheckRound, TakeOtherMessage, TakeStop,
             TakeNilModeConf, TakeChange, ApplyChange, StartSpawning, SkipId, EndSpawning, WaitBatch,
             NextIteration, ReturnPc, FramePc
        <5>2. QED
          BY <3>4, <5>1
      <4>5. QED
        BY <4>1, <4>2, <4>3, <4>4
    <3>5. \A i \in 0 .. concurrent - 1 : pc' = "count" => i \in mapped
      BY <1>1, <1>3, <2>4, <3>3
    <3>6. QED
      BY <1>3, <2>1, <2>4, <3>1, <3>2, <3>4, <3>5 DEF QuietAlone
  <2>5. QED
    BY <2>1, <2>3, <2>4 DEF QuietAlone
<1>6. QED
  BY <1>4, <1>5

\* The frame leaves the rounds alone, and moves on only when they are done.
LEMMA FrameRounds ==
  ASSUME Inv, RoundsInv, UNCHANGED <<controlMode, modeVars>>,
         TaskDecomposition \/ SendKafkaMsg \/ Publish
  PROVE  RoundsInv'
<1>1. UNCHANGED <<gpc, gid, turn, executed, Live, concurrent, rounds, round, mapped, active, cursor>>
  <2>1. UNCHANGED gpc
    BY DEF TaskDecomposition, SendKafkaMsg, Publish
  <2>2. QED
    BY <2>1 DEF TaskDecomposition, SendKafkaMsg, Publish, modeVars, Live
<1>2. \/ pc' = pc /\ pc \notin {"start", "enter"}
      \/ pc \in {"start", "enter"} /\ pc' \in {"start", "enter"}
      \/ pc \in ReturnPc /\ pc' \in ReturnPc
  BY DEF TaskDecomposition, SendStart, ClearStart, SetEnd, SendEnd, Close, SendKafkaMsg, Publish,
     ReturnPc, FramePc
<1>3. published' = 0 => published = 0 /\ statusCh' = statusCh
  BY DEF TaskDecomposition, SendKafkaMsg, Publish, Inv, TypeOK, TaskTypeOK
<1>4. AskedInv'
  <2>1. pc' \in {"start", "enter"} => pc \in {"start", "enter"}
    BY <1>2 DEF ReturnPc, FramePc
  <2>2. QED
    BY <1>1, <1>3, <2>1 DEF RoundsInv, AskedInv, AskedFor
<1>5. \A p \in {"select", "spawn", "batch", "loop", "count", "drain"} : pc' = p <=> pc = p
  BY <1>2 DEF ReturnPc, FramePc
<1>6. pc \in ReturnPc <=> pc' \in ReturnPc
  BY <1>2 DEF ReturnPc, FramePc
<1>7. CentralRounds' /\ AloneRounds'
  BY <1>1, <1>5, <1>6 DEF RoundsInv, CentralRounds, AloneRounds, AskedFor
<1>8. QuietCentral' /\ QuietAlone'
  BY <1>1, <1>3, <1>5, <1>6 DEF RoundsInv, QuietCentral, QuietAlone, Served
<1>9. QED
  BY <1>4, <1>7, <1>8 DEF RoundsInv

\* Every step keeps RoundsInv.
LEMMA StepRounds ==
  ASSUME Inv, RoundsInv, [Next]_vars
  PROVE  RoundsInv'
<1>1. CASE Controller /\ UNCHANGED controlMode
  <2>1. AskedInv'
    BY <1>1, ControllerAsked
  <2>2. CASE Centralized
    BY <1>1, <2>1, <2>2, ControllerCentral DEF RoundsInv, AloneRounds, QuietAlone
  <2>3. CASE ~Centralized
    BY <1>1, <2>1, <2>3, ControllerAlone DEF RoundsInv, CentralRounds, QuietCentral
  <2>4. QED
    BY <2>2, <2>3
<1>2. ASSUME UNCHANGED controlMode, NEW g \in Goroutine, Worker(g) PROVE RoundsInv'
  <2>1. AskedInv'
    BY <1>2, WorkerAsked
  <2>2. CASE Centralized
    BY <1>2, <2>1, <2>2, WorkerCentral DEF RoundsInv, AloneRounds, QuietAlone
  <2>3. CASE ~Centralized
    BY <1>2, <2>1, <2>3, WorkerAlone DEF RoundsInv, CentralRounds, QuietCentral
  <2>4. QED
    BY <2>2, <2>3
<1>3. CASE (TaskDecomposition \/ SendKafkaMsg \/ Publish) /\ UNCHANGED <<controlMode, modeVars>>
  BY <1>3, FrameRounds
<1>4. CASE UNCHANGED vars
  <2>1. UNCHANGED <<controlMode, pc, gpc, gid, Live, statusCh, published, concurrent, rounds, round,
                    mapped, active, cursor, turn, executed>>
    BY <1>4 DEF vars, taskVars, modeVars, Live
  <2>2. QED
    BY <2>1 DEF RoundsInv, AskedInv, AskedFor, CentralRounds, AloneRounds, QuietCentral, QuietAlone, Served
<1>5. QED
  BY <1>1, <1>2, <1>3, <1>4 DEF Next, Terminated

\* No id ever executes the scene more often than the largest round number asked for, and a
\* task without a message returns after exactly RoundNum executions of every id, whatever
\* the concurrency, the round number and the changes (roundModel.go:44-100 and 152-181).
THEOREM RoundRoundsAreAsAsked ==
  ASSUME Orderly
  PROVE  Spec => []RoundsAreAsAsked
<1>1. Init => RoundsInv
  <2> SUFFICES ASSUME Init PROVE RoundsInv
    OBVIOUS
  <2>1. /\ pc = "start" /\ rounds = RoundNum /\ concurrent = Concurrency /\ round = 0
        /\ mapped = {} /\ statusCh = <<>> /\ Live = {}
        /\ \A i \in Id : executed[i] = 0
    BY DEF Init, TaskInit, Live
  <2>2. \A i \in 0 .. concurrent - 1 : i \in Id
    BY <2>1, RoundAssumption DEF Id
  <2>3. AskedInv
    BY <2>1, RoundAssumption DEF AskedInv, AskedFor
  <2>4. CentralRounds /\ AloneRounds
    BY <2>1 DEF CentralRounds, AloneRounds
  <2>5. QuietCentral /\ QuietAlone
    BY <2>1, RoundAssumption DEF QuietCentral, QuietAlone, ReturnPc, FramePc, Init
  <2>6. QED
    BY <2>3, <2>4, <2>5 DEF RoundsInv
<1>2. Inv /\ [Next]_vars => Inv'
  BY StepInv
<1>3. Inv /\ RoundsInv /\ [Next]_vars => RoundsInv'
  BY StepRounds
<1>4. RoundsInv => RoundsAreAsAsked
  <2> SUFFICES ASSUME RoundsInv PROVE RoundsAreAsAsked
    OBVIOUS
  <2>1. \A i \in Id : AskedFor(executed[i])
    BY DEF RoundsInv, AskedInv
  <2>2. pc = "returned" /\ published = 0 => \A i \in 0 .. concurrent - 1 : executed[i] = rounds
    BY DEF RoundsInv, QuietCentral, QuietAlone, ReturnPc, FramePc
  <2>3. QED
    BY <2>1, <2>2 DEF RoundsAreAsAsked, AskedFor
<1>5. QED
  BY <1>1, <1>2, <1>3, <1>4, InitInv, PTL DEF Spec

-----------------------------------------------------------------------------
(* The end of the stream                                                   *)

\* The mode is never in the frame's places when it runs, and its workers have ended by
\* the time the frame goes on: neither disturbs the record with End.
LEMMA StepStream ==
  ASSUME Inv, StreamInv, [Next]_vars
  PROVE  StreamInv'
<1>1. CASE Controller
  <2>1. UNCHANGED <<startMsg, resultDataMsgCh, closed, sender, delivered>>
    BY <1>1 DEF Controller, Enter, CheckRound, TakeOtherMessage, TakeStop, TakeNilModeConf, TakeChange,
       ApplyChange, StartSpawning, SkipId, Spawn, EndSpawning, CountActive, WaitBatch, WaitAll, KeepPipe
  <2>2. pc \notin FramePc \ {"enter"} /\ pc' \notin FramePc \ {"clearStart"}
    BY <1>1 DEF Controller, Enter, CheckRound, TakeOtherMessage, TakeStop, TakeNilModeConf, TakeChange,
       ApplyChange, StartSpawning, SkipId, Spawn, EndSpawning, CountActive, WaitBatch, WaitAll, FramePc,
       NextIteration
  <2>3. QED
    BY <2>1, <2>2, ModeStream
<1>2. ASSUME NEW g \in Goroutine, Worker(g), UNCHANGED controlMode PROVE StreamInv'
  <2>1. UNCHANGED <<pc, startMsg, closed, sender, delivered>>
    BY <1>2 DEF Worker, StartScene, SendResult, EndScene, SceneReturns, Quit, Unmap, WorkerDone, KeepTask
  <2>2. pc' \notin ReturnPc
    BY <1>2, <2>1, WorkerMoves DEF Inv, PoolInv
  <2>3. QED
    BY <2>1, <2>2, ModeStream
<1>3. CASE TaskDecomposition
  BY <1>3, TaskDecompositionStream DEF Inv, TypeOK
<1>4. CASE SendKafkaMsg
  BY <1>4, SendKafkaMsgStream DEF Inv, TypeOK
<1>5. CASE Publish \/ UNCHANGED vars
  <2>1. UNCHANGED <<pc, startMsg, resultDataMsgCh, closed, sender, delivered>>
    BY <1>5 DEF Publish, taskVars, vars
  <2>2. QED
    BY <2>1, ModeStream
<1>6. QED
  BY <1>1, <1>2, <1>3, <1>4, <1>5 DEF Next, Terminated

\* In the round mode, too, the record with End is the last one delivered when the sender
\* stops because the channel is closed.
THEOREM RoundStreamIsComplete ==
  ASSUME Orderly
  PROVE  Spec => []StreamIsComplete
<1>1. Init => StreamInv
  BY StreamInvInit DEF Init
<1>2. Inv /\ [Next]_vars => Inv'
  BY StepInv
<1>3. Inv /\ StreamInv /\ [Next]_vars => StreamInv'
  BY StepStream
<1>4. Inv /\ StreamInv => StreamIsComplete
  BY StreamInvComplete DEF Inv, TypeOK
<1>5. QED
  BY <1>1, <1>2, <1>3, <1>4, InitInv, PTL DEF Spec
=============================================================================
