----------------------- MODULE ConcurrentModel_proofs -----------------------
(***************************************************************************)
(* TypeOK and PoolInv are inductive for every set of goroutines, channel   *)
(* capacity, concurrency, duration and set of status messages, so that the *)
(* concurrency mode never lets its caller close the channel under a worker *)
(* and implements ForkJoin.                                                *)
(*                                                                         *)
(* The alone mode needs one assumption: no status message addresses this   *)
(* machine without a ModeConf.  Such a message panics inside the mode, and *)
(* the recover of TaskDecomposition closes the channel under its workers.  *)
(***************************************************************************)
EXTENDS ConcurrentModel, StressTask_proofs

\* No message can make the alone mode panic.
Orderly == \A c \in ControlModes : c # "Centralized" => \A m \in Messages[c] : ~Dereferences(m)

USE DEF WorkerPc, Centralized

\* The first state is typed and has no worker.
LEMMA InitInv == Init => TypeOK /\ PoolInv
<1> SUFFICES ASSUME Init PROVE TypeOK /\ PoolInv
  OBVIOUS
<1>1. Live = {}
  BY DEF Init, TaskInit, Live
<1>2. WgCounts
  BY <1>1, FS_EmptySet DEF WgCounts, Init, TaskInit
<1>3. TaskTypeOK
  BY TaskInitTypes DEF Init
<1>4. TypeOK
  <2>1. 0 \in 0 .. MaxDuration + 1 /\ 0 \in 0 .. MaxDuration /\ {} \subseteq Nat
    BY ConcurrentAssumption
  <2>2. change \in [elapsed : 0 .. MaxDuration + 1, duration : 0 .. MaxDuration]
    BY <2>1 DEF Init
  <2>3. QED
    BY <1>3, <2>1, <2>2, ConcurrentAssumption DEF Init, TaskInit, TypeOK, FramePc
<1>5. PoolInv
  BY <1>1, <1>2 DEF Init, TaskInit, PoolInv
<1>6. QED
  BY <1>4, <1>5

\* What the controller's steps leave alone: the pipe, and the pool except when it spawns.
LEMMA ControllerTypes ==
  ASSUME TypeOK, PoolInv, Controller, UNCHANGED controlMode
  PROVE  TypeOK'
<1> USE DEF TypeOK, TaskTypeOK, FramePc, KeepConf, KeepPool, KeepPipe
<1>1. CASE Enter
  BY <1>1, ConcurrentAssumption DEF Enter
<1>2. CASE CheckTime
  BY <1>2 DEF CheckTime
<1>3. CASE TakeOtherMessage
  BY <1>3 DEF TakeOtherMessage
<1>4. CASE TakeStop
  <2>1. concurrentMap' \subseteq Nat
    BY <1>4 DEF TakeStop
  <2>2. QED
    BY <1>4, <2>1 DEF TakeStop
<1>5. CASE TakeNilModeConf
  BY <1>5 DEF TakeNilModeConf
<1>6. CASE TakeChange
  <2>1. Head(statusCh).duration \in 0 .. MaxDuration
    <3>1. Head(statusCh) \in Messages[controlMode]
      BY <1>6 DEF TakeChange
    <3>2. QED
      BY <3>1, ConcurrentAssumption
  <2>2. elapsed' \in 0 .. MaxDuration + 1
    BY <1>6, ConcurrentAssumption DEF TakeChange
  <2>3. change' \in [elapsed : 0 .. MaxDuration + 1, duration : 0 .. MaxDuration]
    BY <1>6, <2>1 DEF TakeChange
  <2>4. QED
    BY <1>6, <2>2, <2>3 DEF TakeChange
<1>7. CASE ApplyChange
  <2>1. statusCh # <<>>
    BY <1>7 DEF PoolInv, ApplyChange
  <2>2. Head(statusCh) \in Messages[controlMode] /\ statusCh' \in Seq(Messages[controlMode])
    BY <1>7, <2>1 DEF ApplyChange
  <2>3. Head(statusCh).concurrency \in Nat
    <3>1. Messages[controlMode] \subseteq StatusMessage
      BY TaskAssumption
    <3>2. QED
      BY <2>2, <3>1 DEF StatusMessage
  <2>4. concurrentMap' \subseteq Nat /\ concurrent' \in Nat
    BY <1>7, <2>3 DEF ApplyChange
  <2>5. duration' \in 0 .. MaxDuration
    BY <1>7 DEF ApplyChange
  <2>6. change' \in [elapsed : 0 .. MaxDuration + 1, duration : 0 .. MaxDuration]
    BY <1>7, ConcurrentAssumption DEF ApplyChange
  <2>7. QED
    BY <1>7, <2>2, <2>4, <2>5, <2>6 DEF ApplyChange
<1>8. CASE StartSpawning
  BY <1>8 DEF StartSpawning
<1>9. CASE SkipId
  BY <1>9 DEF SkipId
<1>10. ASSUME NEW g \in Goroutine, Spawn(g) PROVE TypeOK'
  BY <1>10 DEF Spawn, Go
<1>11. CASE EndSpawning
  BY <1>11 DEF EndSpawning
<1>12. CASE Wait
  BY <1>12 DEF Wait
<1>13. QED
  BY <1>1, <1>2, <1>3, <1>4, <1>5, <1>6, <1>7, <1>8, <1>9, <1>10, <1>11, <1>12
     DEF Controller

\* The controller reaches the places where the pool must be empty only through Wait.
LEMMA ControllerPool ==
  ASSUME Orderly, TypeOK, PoolInv, Controller, ~crashed, UNCHANGED controlMode
  PROVE  PoolInv'
<1>1. CASE \E g \in Goroutine : Spawn(g)
  <2>1. PICK g \in Goroutine : Spawn(g)
    BY <1>1
  <2>2. WgCounts'
    BY <2>1, GoCounts DEF TypeOK, TaskTypeOK, PoolInv, Spawn
  <2>3. QED
    BY <2>1, <2>2 DEF PoolInv, Spawn, KeepPipe, ReturnPc, FramePc
<1>2. CASE ~ \E g \in Goroutine : Spawn(g)
  <2>1. UNCHANGED <<gpc, wg, closed, crashed>>
    BY <1>2 DEF Controller, Enter, CheckTime, TakeOtherMessage, TakeStop, TakeNilModeConf,
       TakeChange, ApplyChange, StartSpawning, SkipId, EndSpawning, Wait, KeepPool, KeepPipe
  <2>2. Live' = Live /\ WgCounts'
    BY <2>1 DEF PoolInv, WgCounts, Live
  <2>3. pc' = "change" => statusCh' # <<>>
    BY <1>2 DEF Controller, Enter, CheckTime, TakeOtherMessage, TakeStop, TakeNilModeConf,
       TakeChange, ApplyChange, StartSpawning, SkipId, EndSpawning, Wait, PoolInv
  <2>4. pc = "select" /\ statusCh # <<>> /\ Dereferences(Head(statusCh)) => Centralized
    BY DEF Orderly, TypeOK, TaskTypeOK
  <2>5. CASE Wait
    <3>1. Live = {}
      BY <2>5, ZeroIsEmpty DEF Wait, PoolInv
    <3>2. QED
      BY <2>1, <2>2, <2>3, <2>5, <3>1 DEF PoolInv, Wait
  <2>6. CASE ~Wait
    <3>1. pc' \in ReturnPc \cup {"start", "enter"} => Live = {}
      BY <1>2, <2>4, <2>6 DEF Controller, Enter, CheckTime, TakeOtherMessage, TakeStop,
         TakeNilModeConf, TakeChange, ApplyChange, StartSpawning, SkipId, EndSpawning,
         PoolInv, ReturnPc, FramePc
    <3>2. Centralized /\ pc' \in {"loop", "select", "change"} => Live = {}
      BY <1>2, <2>6 DEF Controller, Enter, CheckTime, TakeOtherMessage, TakeStop,
         TakeNilModeConf, TakeChange, ApplyChange, StartSpawning, SkipId, EndSpawning,
         PoolInv
    <3>3. closed' => pc' = "returned"
      BY <1>2, <2>1, <2>6 DEF Controller, Enter, CheckTime, TakeOtherMessage, TakeStop,
         TakeNilModeConf, TakeChange, ApplyChange, StartSpawning, SkipId, EndSpawning,
         PoolInv
    <3>4. QED
      BY <2>1, <2>2, <2>3, <3>1, <3>2, <3>3 DEF PoolInv
  <2>7. QED
    BY <2>5, <2>6
<1>3. QED
  BY <1>1, <1>2

\* A worker's steps keep the types.
LEMMA WorkerTypes ==
  ASSUME TypeOK, PoolInv, NEW g \in Goroutine, Worker(g), UNCHANGED controlMode
  PROVE  TypeOK'
<1> USE DEF TypeOK
<1>1. CASE StartScene(g)
  <2>1. todo' \in [Goroutine -> 0 .. SceneSize]
    BY <1>1 DEF StartScene, EnterScene, TaskTypeOK
  <2>2. TaskTypeOK'
    BY <1>1, <2>1 DEF StartScene, EnterScene, TaskTypeOK
  <2>3. QED
    BY <1>1, <2>2 DEF StartScene, modeVars
<1>2. CASE SendResult(g) /\ UNCHANGED modeVars
  BY <1>2, SendResultTypes DEF modeVars, SendResult
<1>3. CASE SceneReturns(g, IF Centralized THEN "unmap" ELSE "head") /\ UNCHANGED modeVars
  BY <1>3 DEF SceneReturns, TaskTypeOK, modeVars
<1>4. CASE Quit(g)
  <2>1. gpc' \in [Goroutine -> WorkerPc]
    BY <1>4 DEF Quit, TaskTypeOK
  <2>2. TaskTypeOK'
    BY <1>4, <2>1 DEF Quit, TaskTypeOK
  <2>3. QED
    BY <1>4, <2>2 DEF Quit, modeVars
<1>5. CASE Unmap(g)
  <2>1. gpc' \in [Goroutine -> WorkerPc]
    BY <1>5 DEF Unmap, TaskTypeOK
  <2>2. TaskTypeOK'
    BY <1>5, <2>1 DEF Unmap, TaskTypeOK
  <2>3. concurrentMap' \subseteq Nat
    BY <1>5 DEF Unmap
  <2>4. QED
    BY <1>5, <2>2, <2>3 DEF Unmap
<1>6. CASE WorkerDone(g) /\ UNCHANGED modeVars
  <2>1. wg' \in Nat
    <3>1. gpc \in [Goroutine -> WorkerPc] /\ WgCounts
      BY DEF TaskTypeOK, PoolInv
    <3>2. wg \in Nat \ {0} /\ wg' = wg - 1
      BY <1>6, <3>1, DoneCounts DEF WorkerDone
    <3>3. QED
      BY <3>2
  <2>2. QED
    BY <1>6, <2>1 DEF WorkerDone, TaskTypeOK, modeVars
<1>7. QED
  BY <1>1, <1>2, <1>3, <1>4, <1>5, <1>6 DEF Worker

\* A worker never finds the channel closed, and ends only through its Done.
LEMMA WorkerPool ==
  ASSUME TypeOK, PoolInv, NEW g \in Goroutine, Worker(g), UNCHANGED controlMode
  PROVE  /\ PoolInv'
         /\ \/ Live' = Live
            \/ g \in Live /\ Live' = Live \ {g}
         /\ UNCHANGED <<pc, closed>>
<1>1. gpc \in [Goroutine -> WorkerPc]
  BY DEF TypeOK, TaskTypeOK
<1>2. UNCHANGED <<pc, closed, statusCh>>
  BY DEF Worker, StartScene, SendResult, SceneReturns, Quit, Unmap, WorkerDone
<1>3. gpc[g] # "free"
  BY DEF Worker, StartScene, SendResult, SceneReturns, Quit, Unmap, WorkerDone
<1>4. g \in Live /\ ~closed
  BY <1>3 DEF Live, PoolInv, ReturnPc, FramePc
<1>5. ~crashed'
  BY <1>4 DEF PoolInv, Worker, StartScene, SendResult, SceneReturns, Quit, Unmap, WorkerDone
<1>6. CASE WorkerDone(g)
  <2>1. WgCounts' /\ Live' = Live \ {g}
    BY <1>1, <1>6, DoneCounts DEF PoolInv
  <2>2. QED
    BY <1>2, <1>4, <1>5, <2>1 DEF PoolInv
<1>7. CASE ~WorkerDone(g)
  <2>1. wg' = wg /\ \E next \in WorkerPc \ {"free"} : gpc' = [gpc EXCEPT ![g] = next]
    <3>1. CASE StartScene(g)
      BY <3>1 DEF StartScene, EnterScene
    <3>2. CASE SendResult(g)
      BY <1>1, <1>3, <3>2 DEF SendResult
    <3>3. CASE SceneReturns(g, IF Centralized THEN "unmap" ELSE "head")
      BY <3>3 DEF SceneReturns
    <3>4. CASE Quit(g)
      BY <3>4 DEF Quit
    <3>5. CASE Unmap(g)
      BY <3>5 DEF Unmap
    <3>6. QED
      BY <1>7, <3>1, <3>2, <3>3, <3>4, <3>5 DEF Worker
  <2>2. WgCounts' /\ Live' = Live
    BY <1>1, <1>3, <2>1, MoveCounts DEF PoolInv
  <2>3. QED
    BY <1>2, <1>5, <2>2 DEF PoolInv
<1>8. QED
  BY <1>2, <1>4, <1>6, <1>7, DoneCounts, <1>1 DEF PoolInv

\* The steps around the mode keep the pool as it is; only Close closes the channel.
LEMMA FrameStep ==
  ASSUME TypeOK, PoolInv, ~crashed, UNCHANGED <<controlMode, modeVars>>,
         TaskDecomposition \/ SendKafkaMsg \/ Publish
  PROVE  TypeOK' /\ PoolInv' /\ Live' = Live
<1>1. TaskTypeOK'
  BY TaskDecompositionTypes, SendKafkaMsgTypes, PublishTypes DEF TypeOK
<1>2. pc' \in FramePc \cup {"loop", "select", "change", "spawn", "batch", "drain"}
  BY DEF TypeOK, TaskDecomposition, SendStart, ClearStart, SetEnd, SendEnd, Close,
     SendKafkaMsg, Publish, FramePc
<1>3. TypeOK'
  BY <1>1, <1>2 DEF TypeOK, modeVars
<1>4. UNCHANGED <<gpc, wg, crashed>>
  BY DEF TaskDecomposition, SendKafkaMsg, Publish
<1>5. Live' = Live /\ WgCounts'
  BY <1>4 DEF Live, WgCounts, PoolInv
<1>6. pc' = "change" => statusCh' # <<>>
  BY DEF TypeOK, TaskTypeOK, PoolInv, TaskDecomposition, SendStart, ClearStart, SetEnd, SendEnd, Close,
     SendKafkaMsg, Publish
<1>7. /\ pc' \in ReturnPc \cup {"start", "enter"} => Live = {}
      /\ Centralized /\ pc' \in {"loop", "select", "change"} => Live = {}
      /\ closed' => pc' = "returned"
  BY DEF PoolInv, TaskDecomposition, SendStart, ClearStart, SetEnd, SendEnd, Close,
     SendKafkaMsg, Publish, Receive, Marshal, SendMessage, SendFails, SenderDone, ReturnPc, FramePc
<1>8. QED
  BY <1>3, <1>4, <1>5, <1>6, <1>7 DEF PoolInv

\* Time passes without touching anything else.
LEMMA TickStep ==
  ASSUME TypeOK, PoolInv, Tick
  PROVE  TypeOK' /\ PoolInv' /\ Live' = Live
<1>1. UNCHANGED taskVars
  BY DEF Tick
<1>2. TaskTypeOK' /\ PoolInv' /\ Live' = Live
  BY <1>1 DEF TypeOK, TaskTypeOK, PoolInv, WgCounts, Live, taskVars
<1>3. elapsed' \in 0 .. MaxDuration + 1
  BY ConcurrentAssumption DEF Tick, TypeOK
<1>4. change' \in [elapsed : 0 .. MaxDuration + 1, duration : 0 .. MaxDuration]
  BY ConcurrentAssumption DEF Tick, TypeOK
<1>5. QED
  BY <1>1, <1>2, <1>3, <1>4 DEF TypeOK, Tick, taskVars

\* Every step of the specification keeps both invariants.
LEMMA StepInv ==
  ASSUME Orderly, TypeOK, PoolInv, [Next]_vars
  PROVE  TypeOK' /\ PoolInv'
<1>1. CASE ~crashed /\ Controller /\ UNCHANGED controlMode
  BY <1>1, ControllerTypes, ControllerPool
<1>2. ASSUME ~crashed, UNCHANGED controlMode, NEW g \in Goroutine, Worker(g)
      PROVE  TypeOK' /\ PoolInv'
  BY <1>2, WorkerTypes, WorkerPool
<1>3. CASE ~crashed /\ (TaskDecomposition \/ SendKafkaMsg \/ Publish)
          /\ UNCHANGED <<controlMode, modeVars>>
  BY <1>3, FrameStep
<1>4. CASE Tick
  BY <1>4, TickStep
<1>5. CASE UNCHANGED vars
  BY <1>5 DEF vars, taskVars, modeVars, TypeOK, TaskTypeOK, PoolInv, WgCounts, Live
<1>6. QED
  BY <1>1, <1>2, <1>3, <1>4, <1>5 DEF Next, Terminated

\* Every reachable state is typed and its pool is as PoolInv says.
THEOREM ConcurrentInvariants ==
  ASSUME Orderly
  PROVE  Spec => [](TypeOK /\ PoolInv)
<1>1. (TypeOK /\ PoolInv) /\ [Next]_vars => (TypeOK /\ PoolInv)'
  BY StepInv
<1>2. QED
  BY <1>1, InitInv, PTL DEF Spec

\* No worker ever sends on the closed result channel, whatever the number of workers, the
\* length of the task, the messages and the capacity of the channel.
THEOREM ConcurrentNeverSendsOnClosed ==
  ASSUME Orderly
  PROVE  Spec => []NoSendOnClosedChannel
<1>1. PoolInv => NoSendOnClosedChannel
  BY DEF PoolInv, NoSendOnClosedChannel
<1>2. QED
  BY <1>1, ConcurrentInvariants, PTL

\* A step of the mode is a step of ForkJoin or leaves its state alone.
LEMMA StepRefines ==
  ASSUME Orderly, TypeOK, PoolInv, TypeOK', PoolInv', [Next]_vars
  PROVE  [Promise!Next]_(Promise!vars)
<1> DEFINE phase == IF closed THEN "closed" ELSE IF pc \in ReturnPc THEN "joined" ELSE "forking"
<1> USE DEF Promise!Next, Promise!vars
<1>1. CASE ~crashed /\ \E g \in Goroutine : Spawn(g)
  <2>1. PICK g \in Goroutine : Spawn(g)
    BY <1>1
  <2>2. Live' = Live \cup {g}
    BY <2>1, GoCounts DEF Spawn, TypeOK, TaskTypeOK, PoolInv
  <2>3. g \notin Live
    BY <2>1 DEF Spawn, Go, Live
  <2>4. phase = "forking" /\ phase' = "forking"
    BY <2>1 DEF Spawn, PoolInv, KeepPipe, ReturnPc, FramePc
  <2>5. Promise!Fork(g)
    BY <2>2, <2>3, <2>4 DEF Promise!Fork
  <2>6. QED
    BY <2>5
<1>2. CASE ~crashed /\ Controller /\ ~ \E g \in Goroutine : Spawn(g)
  <2>1. UNCHANGED <<gpc, closed>> /\ pc \notin ReturnPc
    BY <1>2 DEF Controller, Enter, CheckTime, TakeOtherMessage, TakeStop, TakeNilModeConf,
       TakeChange, ApplyChange, StartSpawning, SkipId, EndSpawning, Wait, KeepPool, KeepPipe,
       ReturnPc, FramePc
  <2>2. Live' = Live /\ phase = "forking"
    BY <2>1 DEF Live, PoolInv, ReturnPc, FramePc
  <2>3. CASE pc' \in ReturnPc
    <3>1. Live = {} /\ phase' = "joined"
      BY <2>1, <2>2, <2>3 DEF PoolInv, ReturnPc, FramePc
    <3>2. Promise!Join
      BY <2>2, <3>1 DEF Promise!Join
    <3>3. QED
      BY <3>2
  <2>4. CASE pc' \notin ReturnPc
    BY <2>1, <2>2, <2>4
  <2>5. QED
    BY <2>3, <2>4
<1>3. ASSUME ~crashed, UNCHANGED controlMode, NEW g \in Goroutine, Worker(g)
      PROVE  [Promise!Next]_(Promise!vars)
  <2>1. phase' = phase
    BY <1>3, WorkerPool
  <2>2. CASE Live' = Live
    BY <2>1, <2>2
  <2>3. CASE g \in Live /\ Live' = Live \ {g}
    <3>1. Promise!End(g)
      BY <2>1, <2>3 DEF Promise!End
    <3>2. QED
      BY <3>1
  <2>4. QED
    BY <1>3, <2>2, <2>3, WorkerPool
<1>4. CASE ~crashed /\ TaskDecomposition /\ UNCHANGED <<controlMode, modeVars>>
  <2>1. Live' = Live
    BY <1>4, FrameStep
  <2>2. CASE Close
    <3>1. phase = "joined" /\ phase' = "closed"
      BY <2>2 DEF Close, PoolInv, ReturnPc, FramePc
    <3>2. Promise!Close
      BY <2>1, <3>1 DEF Promise!Close
    <3>3. QED
      BY <3>2
  <2>3. CASE ~Close
    <3>1. phase' = phase
      BY <1>4, <2>3 DEF TaskDecomposition, SendStart, ClearStart, SetEnd, SendEnd, ReturnPc, FramePc
    <3>2. QED
      BY <2>1, <3>1
  <2>4. QED
    BY <2>2, <2>3
<1>5. CASE ~crashed /\ (SendKafkaMsg \/ Publish) /\ UNCHANGED <<controlMode, modeVars>>
  <2>1. Live' = Live
    BY <1>5, FrameStep
  <2>2. UNCHANGED <<pc, closed>>
    BY <1>5 DEF SendKafkaMsg, Publish, Receive, Marshal, SendMessage, SendFails, SenderDone
  <2>3. QED
    BY <2>1, <2>2
<1>6. CASE Tick
  <2>1. Live' = Live /\ UNCHANGED <<pc, closed>>
    BY <1>6, TickStep DEF Tick, taskVars
  <2>2. QED
    BY <2>1
<1>7. CASE UNCHANGED vars
  BY <1>7 DEF vars, taskVars, Live
<1>8. QED
  BY <1>1, <1>2, <1>3, <1>4, <1>5, <1>6, <1>7 DEF Next, Terminated

\* The concurrency mode implements ForkJoin: it returns, and lets the channel be closed,
\* only when every worker it started has ended.
THEOREM ConcurrentRefinesForkJoin ==
  ASSUME Orderly
  PROVE  Spec => JoinsItsWorkers
<1>1. Init => Promise!Init
  BY DEF Init, TaskInit, Promise!Init, Live, ReturnPc, FramePc
<1>2. /\ TypeOK /\ PoolInv /\ (TypeOK /\ PoolInv)'
      /\ [Next]_vars
      => [Promise!Next]_(Promise!vars)
  BY StepRefines
<1>3. QED
  BY <1>1, <1>2, ConcurrentInvariants, PTL DEF Spec, JoinsItsWorkers, Promise!Spec

\* TypeOK by itself, under the name the run checks.
THEOREM ConcurrentTypes ==
  ASSUME Orderly
  PROVE  Spec => []TypeOK
BY ConcurrentInvariants, PTL

-----------------------------------------------------------------------------
(* The end of the stream                                                   *)

\* The mode is never in the frame's places when it runs, and its workers have ended by
\* the time the frame goes on: neither disturbs the record with End.
LEMMA StepStream ==
  ASSUME Orderly, TypeOK, PoolInv, StreamInv, [Next]_vars
  PROVE  StreamInv'
<1>1. CASE ~crashed /\ Controller /\ UNCHANGED controlMode
  <2>1. UNCHANGED <<startMsg, resultDataMsgCh, closed, sender, delivered>>
    BY <1>1 DEF Controller, Enter, CheckTime, TakeOtherMessage, TakeStop, TakeNilModeConf,
       TakeChange, ApplyChange, StartSpawning, SkipId, Spawn, EndSpawning, Wait, KeepPipe
  <2>2. pc \notin FramePc \ {"enter"} /\ pc' \notin FramePc \ {"clearStart"}
    BY <1>1 DEF Controller, Enter, CheckTime, TakeOtherMessage, TakeStop, TakeNilModeConf,
       TakeChange, ApplyChange, StartSpawning, SkipId, Spawn, EndSpawning, Wait, FramePc
  <2>3. QED
    BY <2>1, <2>2, ModeStream
<1>2. ASSUME NEW g \in Goroutine, Worker(g), UNCHANGED controlMode PROVE StreamInv'
  <2>1. UNCHANGED <<pc, startMsg, closed, sender, delivered>>
    BY <1>2 DEF Worker, StartScene, SendResult, SceneReturns, Quit, Unmap, WorkerDone
  <2>2. g \in Live
    BY <1>2 DEF Live, Worker, StartScene, SendResult, SceneReturns, Quit, Unmap, WorkerDone
  <2>3. pc' \notin ReturnPc
    BY <2>1, <2>2 DEF PoolInv
  <2>4. QED
    BY <2>1, <2>3, ModeStream
<1>3. CASE TaskDecomposition
  BY <1>3, TaskDecompositionStream DEF TypeOK
<1>4. CASE SendKafkaMsg
  BY <1>4, SendKafkaMsgStream DEF TypeOK
<1>5. CASE Publish \/ Tick \/ UNCHANGED vars
  <2>1. UNCHANGED <<pc, startMsg, resultDataMsgCh, closed, sender, delivered>>
    BY <1>5 DEF Publish, Tick, taskVars, vars
  <2>2. QED
    BY <2>1, ModeStream
<1>6. QED
  BY <1>1, <1>2, <1>3, <1>4, <1>5 DEF Next, Terminated

\* When the sender stops because the channel is closed, the record with End was the last
\* one delivered, for every number of workers, channel capacity and length of the task.
THEOREM ConcurrentStreamIsComplete ==
  ASSUME Orderly
  PROVE  Spec => []StreamIsComplete
<1>1. Init => StreamInv
  BY StreamInvInit DEF Init
<1>2. TypeOK /\ PoolInv /\ StreamInv /\ [Next]_vars => StreamInv'
  BY StepStream
<1>3. TypeOK /\ StreamInv => StreamIsComplete
  BY StreamInvComplete DEF TypeOK
<1>4. QED
  BY <1>1, <1>2, <1>3, ConcurrentInvariants, PTL DEF Spec

-----------------------------------------------------------------------------
(* Ids and workers                                                         *)

\* What IdsAndWorkersAgree rests on, centralized: the ids in use are those the spawning
\* loop has passed in this batch.
BatchInv ==
  Centralized =>
    /\ pc = "spawn" => cursor <= concurrent
    /\ \A g \in Live : gid[g] < concurrent /\ (pc = "spawn" => gid[g] < cursor)
    /\ \A g, h \in Live : gid[g] = gid[h] => g = h

\* Every id of the map has a worker that will delete it.
HeldInv == \A i \in concurrentMap : \E g \in Live : gid[g] = i /\ gpc[g] # "done"

\* The controller adds an id together with its worker, and changes the concurrency only
\* between two batches.
LEMMA ControllerIds ==
  ASSUME TypeOK, PoolInv, BatchInv, HeldInv, Controller, UNCHANGED controlMode
  PROVE  BatchInv' /\ HeldInv'
<1>1. ASSUME NEW g \in Goroutine, Spawn(g) PROVE BatchInv' /\ HeldInv'
  <2>1. /\ gpc \in [Goroutine -> WorkerPc] /\ gid \in [Goroutine -> Nat]
        /\ cursor \in Nat /\ concurrent \in Nat
    BY DEF TypeOK, TaskTypeOK
  <2>2. /\ gpc[g] = "free" /\ gpc' = [gpc EXCEPT ![g] = "head"]
        /\ gid' = [gid EXCEPT ![g] = cursor]
        /\ concurrentMap' = concurrentMap \cup {cursor}
        /\ cursor < concurrent /\ cursor' = cursor + 1 /\ concurrent' = concurrent
        /\ pc = "spawn" /\ pc' = "spawn"
    BY <1>1 DEF Spawn, Go, KeepConf
  <2>3. Live' = Live \cup {g} /\ g \notin Live
    BY <2>1, <2>2 DEF Live
  <2>4. gid'[g] = cursor /\ gpc'[g] = "head"
    BY <2>1, <2>2
  <2>5. \A h \in Live : h \in Goroutine /\ gid'[h] = gid[h] /\ gpc'[h] = gpc[h]
    BY <2>1, <2>2, <2>3 DEF Live
  <2>6. HeldInv'
    BY <2>2, <2>3, <2>4, <2>5 DEF HeldInv
  <2>7. ASSUME Centralized PROVE BatchInv'
    <3>1. \A h \in Live : gid[h] \in Nat /\ gid[h] < concurrent /\ gid[h] < cursor
      BY <2>1, <2>2, <2>5, <2>7 DEF BatchInv
    <3>2. \A h \in Live' : gid'[h] < concurrent' /\ gid'[h] < cursor'
      BY <2>1, <2>2, <2>3, <2>4, <2>5, <3>1
    <3>3. \A h \in Live : gid'[h] # gid'[g]
      BY <2>1, <2>4, <2>5, <3>1
    <3>4. \A h, k \in Live' : gid'[h] = gid'[k] => h = k
      BY <2>3, <2>5, <2>7, <3>3 DEF BatchInv
    <3>5. QED
      BY <2>1, <2>2, <3>2, <3>4 DEF BatchInv
  <2>8. QED
    BY <2>6, <2>7 DEF BatchInv
<1>2. CASE ~ \E g \in Goroutine : Spawn(g)
  <2>1. UNCHANGED <<gpc, gid>> /\ concurrentMap' \subseteq concurrentMap
    BY <1>2 DEF Controller, Enter, CheckTime, TakeOtherMessage, TakeStop, TakeNilModeConf,
       TakeChange, ApplyChange, StartSpawning, SkipId, EndSpawning, Wait, KeepPool
  <2>2. Live' = Live /\ HeldInv'
    BY <2>1 DEF Live, HeldInv
  <2>3. CASE ~Centralized
    BY <2>2, <2>3 DEF BatchInv
  <2>4. CASE Centralized /\ Live = {}
    <3>1. pc' = "spawn" => cursor' <= concurrent'
      BY <1>2, <2>4 DEF Controller, Enter, CheckTime, TakeOtherMessage, TakeStop, TakeNilModeConf,
         TakeChange, ApplyChange, StartSpawning, SkipId, EndSpawning, Wait, KeepConf, BatchInv,
         TypeOK
    <3>2. QED
      BY <2>2, <2>4, <3>1 DEF BatchInv
  <2>5. CASE Centralized /\ Live # {}
    <3>1. concurrent' = concurrent
      BY <1>2, <2>5 DEF PoolInv, Controller, Enter, CheckTime, TakeOtherMessage, TakeStop,
         TakeNilModeConf, TakeChange, ApplyChange, StartSpawning, SkipId, EndSpawning, Wait,
         KeepConf
    <3>2. pc' = "spawn" => pc = "spawn" /\ cursor' = cursor + 1 /\ cursor < concurrent
      BY <1>2, <2>5 DEF PoolInv, Controller, Enter, CheckTime, TakeOtherMessage, TakeStop,
         TakeNilModeConf, TakeChange, ApplyChange, StartSpawning, SkipId, EndSpawning, Wait
    <3>3. \A g \in Live : gid[g] \in Nat
      BY DEF Live, TypeOK, TaskTypeOK
    <3>4. cursor \in Nat /\ concurrent \in Nat
      BY DEF TypeOK
    <3>5. QED
      BY <2>1, <2>2, <2>5, <3>1, <3>2, <3>3, <3>4 DEF BatchInv
  <2>6. QED
    BY <2>3, <2>4, <2>5
<1>3. QED
  BY <1>1, <1>2

\* A worker keeps its id until its Done, and deletes it before.
LEMMA WorkerIds ==
  ASSUME TypeOK, PoolInv, BatchInv, HeldInv, NEW g \in Goroutine, Worker(g),
         UNCHANGED controlMode
  PROVE  BatchInv' /\ HeldInv'
<1>1. gpc \in [Goroutine -> WorkerPc] /\ gid \in [Goroutine -> Nat]
  BY DEF TypeOK, TaskTypeOK
<1>2. UNCHANGED <<pc, cursor, concurrent>> /\ Live' \subseteq Live
  <2>1. UNCHANGED <<pc, cursor, concurrent>>
    BY DEF Worker, StartScene, SendResult, SceneReturns, Quit, Unmap, WorkerDone, modeVars
  <2>2. QED
    BY <2>1, WorkerPool
<1>3. \A h \in Live' : gid'[h] = gid[h]
  BY <1>1 DEF Live, Worker, StartScene, SendResult, SceneReturns, Quit, Unmap, WorkerDone
<1>4. BatchInv'
  BY <1>2, <1>3 DEF BatchInv
<1>5. \A h \in Live : h # g => h \in Live' /\ gpc'[h] = gpc[h]
  BY <1>1 DEF Live, Worker, StartScene, EnterScene, SendResult, SceneReturns, Quit, Unmap,
     WorkerDone
<1>6. CASE Unmap(g)
  <2>1. concurrentMap' = concurrentMap \ {gid[g]}
    BY <1>6 DEF Unmap
  <2>2. QED
    BY <1>3, <1>4, <1>5, <2>1 DEF HeldInv
<1>7. CASE ~Unmap(g)
  <2>1. concurrentMap' = concurrentMap
    BY <1>7 DEF Worker, StartScene, SendResult, SceneReturns, Quit, WorkerDone, modeVars
  <2>2. gpc[g] # "done" => g \in Live' /\ gpc'[g] # "done"
    BY <1>1, <1>7 DEF Live, Worker, StartScene, EnterScene, SendResult, SceneReturns, Quit,
       WorkerDone
  <2>3. QED
    BY <1>3, <1>4, <1>5, <2>1, <2>2 DEF HeldInv
<1>8. QED
  BY <1>6, <1>7

\* Every step keeps both.
LEMMA StepIds ==
  ASSUME TypeOK, PoolInv, BatchInv, HeldInv, [Next]_vars
  PROVE  BatchInv' /\ HeldInv'
<1>1. CASE Controller /\ UNCHANGED controlMode
  BY <1>1, ControllerIds
<1>2. ASSUME NEW g \in Goroutine, Worker(g), UNCHANGED controlMode PROVE BatchInv' /\ HeldInv'
  BY <1>2, WorkerIds
<1>3. CASE TaskDecomposition /\ UNCHANGED <<controlMode, modeVars>>
  <2>1. UNCHANGED <<gpc, gid, cursor, concurrent, concurrentMap, controlMode>> /\ pc' # "spawn"
    BY <1>3 DEF TaskDecomposition, SendStart, ClearStart, SetEnd, SendEnd, Close, modeVars
  <2>2. QED
    BY <2>1 DEF BatchInv, HeldInv, Live
<1>4. CASE (SendKafkaMsg \/ Publish) /\ UNCHANGED <<controlMode, modeVars>>
  <2>1. UNCHANGED <<gpc, gid, cursor, concurrent, concurrentMap, controlMode, pc>>
    BY <1>4 DEF SendKafkaMsg, Publish, modeVars
  <2>2. QED
    BY <2>1 DEF BatchInv, HeldInv, Live
<1>5. CASE Tick \/ UNCHANGED vars
  <2>1. UNCHANGED <<gpc, gid, cursor, concurrent, concurrentMap, controlMode, pc>>
    BY <1>5 DEF Tick, taskVars, vars, modeVars
  <2>2. QED
    BY <2>1 DEF BatchInv, HeldInv, Live
<1>6. QED
  BY <1>1, <1>2, <1>3, <1>4, <1>5 DEF Next, Terminated

\* An id of the map always has a worker that will delete it, and centralized there are
\* never more workers than the concurrency, each with an id of its own.
THEOREM ConcurrentIdsAndWorkersAgree ==
  ASSUME Orderly
  PROVE  Spec => []IdsAndWorkersAgree
<1>1. Init => BatchInv /\ HeldInv
  BY DEF Init, TaskInit, Live, BatchInv, HeldInv
<1>2. TypeOK /\ PoolInv /\ (BatchInv /\ HeldInv) /\ [Next]_vars => (BatchInv /\ HeldInv)'
  BY StepIds
<1>3. TypeOK /\ PoolInv /\ BatchInv /\ HeldInv => IdsAndWorkersAgree
  <2> SUFFICES ASSUME TypeOK, PoolInv, BatchInv, HeldInv PROVE IdsAndWorkersAgree
    OBVIOUS
  <2>1. ASSUME Centralized PROVE Cardinality(Live) <= concurrent
    <3>1. /\ IsFiniteSet(Live) /\ gid \in [Goroutine -> Nat] /\ concurrent \in Nat
          /\ \A g \in Live : gid[g] < concurrent
          /\ \A g, h \in Live : gid[g] = gid[h] => g = h
      BY <2>1 DEF TypeOK, TaskTypeOK, PoolInv, WgCounts, BatchInv
    <3>2. QED
      BY <3>1, IdsBoundWorkers
  <2>2. QED
    BY <2>1 DEF IdsAndWorkersAgree, BatchInv, HeldInv
<1>4. QED
  BY <1>1, <1>2, <1>3, ConcurrentInvariants, PTL DEF Spec

-----------------------------------------------------------------------------
(* A stop                                                                  *)

\* Centralized, the loop is left in the step that takes the stop message.
LeftInv == Centralized /\ stopped => pc \in ReturnPc

\* Every step keeps LeftInv: past the loop, only the frame moves.
LEMMA StepLeft ==
  ASSUME LeftInv, [Next]_vars
  PROVE  LeftInv'
<1>1. CASE Controller /\ UNCHANGED controlMode
  BY <1>1 DEF LeftInv, Controller, Enter, CheckTime, TakeOtherMessage, TakeStop, TakeNilModeConf,
     TakeChange, ApplyChange, StartSpawning, SkipId, Spawn, EndSpawning, Wait, ReturnPc, FramePc
<1>2. ASSUME NEW g \in Goroutine, Worker(g), UNCHANGED controlMode PROVE LeftInv'
  BY <1>2 DEF LeftInv, Worker, StartScene, SendResult, SceneReturns, Quit, Unmap, WorkerDone,
     modeVars
<1>3. CASE TaskDecomposition /\ UNCHANGED <<controlMode, modeVars>>
  BY <1>3 DEF LeftInv, TaskDecomposition, SendStart, ClearStart, SetEnd, SendEnd, Close, modeVars,
     ReturnPc, FramePc
<1>4. CASE (SendKafkaMsg \/ Publish) /\ UNCHANGED <<controlMode, modeVars>>
  BY <1>4 DEF LeftInv, SendKafkaMsg, Publish, modeVars
<1>5. CASE Tick \/ UNCHANGED vars
  BY <1>5 DEF LeftInv, Tick, taskVars, vars, modeVars
<1>6. QED
  BY <1>1, <1>2, <1>3, <1>4, <1>5 DEF Next, Terminated

\* Centralized, no step starts a worker or a scene once a stop message was received.
THEOREM ConcurrentCentralStopIsFinal ==
  ASSUME Orderly
  PROVE  Spec => CentralStopIsFinal
<1>1. Init => LeftInv
  BY DEF Init, LeftInv
<1>2. LeftInv /\ [Next]_vars => LeftInv'
  BY StepLeft
<1>3. TypeOK /\ PoolInv /\ LeftInv /\ [Next]_vars
        => [Centralized /\ stopped => NothingStarts]_vars
  <2> SUFFICES ASSUME TypeOK, PoolInv, LeftInv, Next, Centralized, stopped
               PROVE  NothingStarts
    BY DEF vars
  <2>1. pc \in ReturnPc /\ Live = {}
    BY DEF LeftInv, PoolInv
  <2>2. \A g \in Goroutine : gpc[g] = "free"
    BY <2>1 DEF Live
  <2>3. ~ \E g \in Goroutine : Worker(g)
    BY <2>2 DEF Worker, StartScene, SendResult, SceneReturns, Quit, Unmap, WorkerDone
  <2>4. ~Controller
    BY <2>1 DEF Controller, Enter, CheckTime, TakeOtherMessage, TakeStop, TakeNilModeConf,
       TakeChange, ApplyChange, StartSpawning, SkipId, Spawn, EndSpawning, Wait, ReturnPc, FramePc
  <2>5. gpc' = gpc
    BY <2>3, <2>4 DEF Next, Terminated, TaskDecomposition, SendKafkaMsg, Publish, Tick, taskVars,
       vars
  <2>6. QED
    BY <2>2, <2>5 DEF NothingStarts
<1>4. QED
  BY <1>1, <1>2, <1>3, ConcurrentInvariants, PTL DEF Spec, CentralStopIsFinal
=============================================================================
