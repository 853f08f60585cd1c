----------------------------- MODULE RoundModel -----------------------------
(***************************************************************************)
(* The round mode: every concurrency id executes the scene RoundNum times. *)
(* Under the centralized control mode one iteration of the controller is   *)
(* one round of all the ids; under the alone mode each worker runs its     *)
(* rounds by itself and the controller polls the map until no id is left.  *)
(***************************************************************************)
EXTENDS StressTask

CONSTANTS
  Concurrency,     \* ConfigTask.ModeConf.Concurrency
  RoundNum,        \* ConfigTask.ModeConf.RoundNum
  MaxConcurrency   \* bound on every concurrency of the run

ASSUME RoundAssumption ==
  /\ MaxConcurrency \in Nat
  /\ Concurrency \in 0 .. MaxConcurrency
  /\ RoundNum \in Nat
  /\ \A c \in ControlModes : \A m \in Messages[c] : m.concurrency \in 0 .. MaxConcurrency

VARIABLES
  concurrent, rounds,
  round,      \* i of the centralized loop
  mapped,     \* the ids present in concurrentMap
  active,     \* those of them whose value is true
  cursor,     \* i (j) of the spawning loop
  turn,       \* j of each worker
  executed,   \* history: how many times each id executed the scene
  stopped     \* history: a stop message was received

modeVars == <<concurrent, rounds, round, mapped, active, cursor, turn, executed, stopped>>
vars == <<taskVars, modeVars>>

Id == 0 .. MaxConcurrency - 1

KeepPipe == UNCHANGED <<startMsg, resultDataMsgCh, closed, crashed, sender, delivered, published>>
KeepPool == UNCHANGED <<gpc, gid, todo, wg, turn, executed>>
KeepMap  == UNCHANGED <<mapped, active>>

-----------------------------------------------------------------------------
(* The controller                                                          *)

Enter ==
  /\ pc = "enter"
  /\ pc' = IF Concurrency = 0 \/ RoundNum = 0 THEN "clearStart" ELSE "loop"
  /\ UNCHANGED <<statusCh, concurrent, rounds, round, cursor, stopped>>
  /\ KeepMap /\ KeepPool /\ KeepPipe

\* centralized: i < rounds; alone: !stop, decided in CountActive
CheckRound ==
  /\ pc = "loop"
  /\ pc' = IF Centralized /\ round >= rounds THEN "clearStart" ELSE "select"
  /\ UNCHANGED <<statusCh, concurrent, rounds, round, cursor, stopped>>
  /\ KeepMap /\ KeepPool /\ KeepPipe

\* The iteration ends: centralized counts it as a round, whatever it did; alone polls the
\* map, unless the message made it continue.
NextIteration(polls) ==
  /\ round' = IF Centralized THEN round + 1 ELSE round
  /\ pc' = IF polls /\ ~Centralized THEN "count" ELSE "loop"

\* nil configuration or another machine: continue; other type or text: fall out of the select
TakeOtherMessage ==
  /\ pc = "select"
  /\ statusCh # <<>>
  /\ LET m == Head(statusCh)
     IN  /\ ~StopsPlan(m) /\ ~Addressed(m)
         /\ NextIteration(m.machineModeConf /\ m.type # "ReportChange")
  /\ statusCh' = Tail(statusCh)
  /\ UNCHANGED <<concurrent, rounds, cursor, stopped>>
  /\ KeepMap /\ KeepPool /\ KeepPipe

\* both control modes return at once; the alone mode leaves its workers running
TakeStop ==
  /\ pc = "select"
  /\ statusCh # <<>>
  /\ StopsPlan(Head(statusCh))
  /\ statusCh' = Tail(statusCh)
  /\ stopped' = TRUE
  /\ pc' = "clearStart"
  /\ UNCHANGED <<concurrent, rounds, round, cursor>>
  /\ KeepMap /\ KeepPool /\ KeepPipe

TakeNilModeConf ==
  /\ pc = "select"
  /\ statusCh # <<>>
  /\ Dereferences(Head(statusCh))
  /\ statusCh' = Tail(statusCh)
  /\ pc' = "clearStart"
  /\ UNCHANGED <<concurrent, rounds, round, cursor, stopped>>
  /\ KeepMap /\ KeepPool /\ KeepPipe

TakeChange ==
  /\ pc = "select"
  /\ statusCh # <<>>
  /\ Changes(Head(statusCh))
  /\ rounds' = IF Head(statusCh).roundNum > 0 THEN Head(statusCh).roundNum ELSE rounds
  /\ pc' = "change"
  /\ UNCHANGED <<statusCh, concurrent, round, cursor, stopped>>
  /\ KeepMap /\ KeepPool /\ KeepPipe

\* Faulty variant: the alone mode deletes the ids, as the concurrency mode does.
GiveUpByDelete(S) ==
  /\ active' = active \ S
  /\ mapped' = mapped \ S

\* The ids of S are given up: centralized deletes them, alone stores false for each.
GiveUp(S) ==
  /\ active' = active \ S
  /\ mapped' = IF Centralized THEN mapped \ S ELSE mapped \cup S

ApplyChange ==
  /\ pc = "change"
  /\ LET c == Head(statusCh).concurrency
     IN  IF c > 0 /\ c # concurrent
         THEN GiveUp(c .. concurrent - 1) /\ concurrent' = c
         ELSE KeepMap /\ UNCHANGED concurrent
  /\ statusCh' = Tail(statusCh)
  /\ NextIteration(TRUE)
  /\ UNCHANGED <<rounds, cursor, stopped>>
  /\ KeepPool /\ KeepPipe

StartSpawning ==
  /\ pc = "select"
  /\ statusCh = <<>>
  /\ pc' = "spawn"
  /\ cursor' = 0
  /\ UNCHANGED <<statusCh, concurrent, rounds, round, stopped>>
  /\ KeepMap /\ KeepPool /\ KeepPipe

SkipId ==
  /\ pc = "spawn"
  /\ cursor < concurrent
  /\ cursor \in mapped
  /\ cursor' = cursor + 1
  /\ UNCHANGED <<pc, statusCh, concurrent, rounds, round, stopped>>
  /\ KeepMap /\ KeepPool /\ KeepPipe

Spawn(g) ==
  /\ pc = "spawn"
  /\ cursor < concurrent
  /\ cursor \notin mapped
  /\ mapped' = mapped \cup {cursor}
  /\ active' = active \cup {cursor}
  /\ Go(g, cursor)
  /\ turn' = [turn EXCEPT ![g] = 0]
  /\ cursor' = cursor + 1
  /\ UNCHANGED <<pc, statusCh, concurrent, rounds, round, executed, stopped>>
  /\ KeepPipe

EndSpawning ==
  /\ pc = "spawn"
  /\ cursor >= concurrent
  /\ pc' = IF Centralized THEN "batch" ELSE "count"
  /\ cursor' = 0
  /\ UNCHANGED <<statusCh, concurrent, rounds, round, stopped>>
  /\ KeepMap /\ KeepPool /\ KeepPipe

\* after the 50 ms pause: no id with value true ends the loop
CountActive ==
  /\ pc = "count"
  /\ pc' = IF active = {} THEN "drain" ELSE "loop"
  /\ UNCHANGED <<statusCh, concurrent, rounds, round, cursor, stopped>>
  /\ KeepMap /\ KeepPool /\ KeepPipe

\* Faulty variant: a round is counted while its batch is still running.
BatchUnwaited ==
  /\ pc = "batch"
  /\ NextIteration(FALSE)
  /\ UNCHANGED <<statusCh, concurrent, rounds, cursor, stopped>>
  /\ KeepMap /\ KeepPool /\ KeepPipe

WaitBatch ==
  /\ pc = "batch"
  /\ wg = 0
  /\ NextIteration(FALSE)
  /\ UNCHANGED <<statusCh, concurrent, rounds, cursor, stopped>>
  /\ KeepMap /\ KeepPool /\ KeepPipe

WaitAll ==
  /\ pc = "drain"
  /\ wg = 0
  /\ pc' = "clearStart"
  /\ UNCHANGED <<statusCh, concurrent, rounds, round, cursor, stopped>>
  /\ KeepMap /\ KeepPool /\ KeepPipe

Controller ==
  \/ Enter \/ CheckRound
  \/ TakeOtherMessage \/ TakeStop \/ TakeNilModeConf \/ TakeChange \/ ApplyChange
  \/ StartSpawning \/ SkipId \/ (\E g \in Goroutine : Spawn(g)) \/ EndSpawning
  \/ CountActive \/ WaitBatch \/ WaitAll

-----------------------------------------------------------------------------
(* The workers                                                             *)

KeepTask == UNCHANGED <<pc, startMsg, resultDataMsgCh, closed, crashed, sender, delivered,
                        gid, wg, statusCh, published>>
KeepController == UNCHANGED <<concurrent, rounds, round, cursor, stopped>>

\* Faulty variant: j <= rounds.
HasTurnInclusive(g) == turn[g] <= rounds /\ gid[g] \in active

\* j < rounds and the id's value is true
HasTurn(g) == turn[g] < rounds /\ gid[g] \in active

StartScene(g) ==
  /\ gpc[g] = "head"
  /\ Centralized \/ HasTurn(g)
  /\ EnterScene(g)
  /\ KeepTask /\ UNCHANGED modeVars

EndScene(g) ==
  /\ SceneReturns(g, IF Centralized THEN "unmap" ELSE "head")
  /\ turn' = [turn EXCEPT ![g] = @ + 1]
  /\ executed' = [executed EXCEPT ![gid[g]] = @ + 1]
  /\ KeepMap /\ KeepController

Quit(g) ==
  /\ gpc[g] = "head"
  /\ ~Centralized /\ ~HasTurn(g)
  /\ gpc' = [gpc EXCEPT ![g] = "unmap"]
  /\ UNCHANGED todo
  /\ KeepTask /\ UNCHANGED modeVars

\* the deferred call: centralized deletes the id, alone stores false, so that it stays taken
Unmap(g) ==
  /\ gpc[g] = "unmap"
  /\ gpc' = [gpc EXCEPT ![g] = "done"]
  /\ GiveUp({gid[g]})
  /\ UNCHANGED <<todo, turn, executed>>
  /\ KeepTask /\ KeepController

Worker(g) ==
  \/ StartScene(g)
  \/ SendResult(g) /\ UNCHANGED modeVars
  \/ EndScene(g)
  \/ Quit(g)
  \/ Unmap(g)
  \/ WorkerDone(g) /\ UNCHANGED modeVars

-----------------------------------------------------------------------------
\* the task and its sender have ended, or the process is gone
Terminated ==
  /\ crashed \/ (pc = "returned" /\ sender.pc \in {"done", "failed"})
  /\ UNCHANGED vars

Init ==
  /\ TaskInit
  /\ concurrent = Concurrency
  /\ rounds = RoundNum
  /\ round = 0
  /\ mapped = {}
  /\ active = {}
  /\ cursor = 0
  /\ turn = [g \in Goroutine |-> 0]
  /\ executed = [i \in Id |-> 0]
  /\ stopped = FALSE

Next ==
  \/ /\ ~crashed
     /\ UNCHANGED controlMode
     /\ \/ TaskDecomposition /\ UNCHANGED modeVars
        \/ SendKafkaMsg /\ UNCHANGED modeVars
        \/ Publish /\ UNCHANGED modeVars
        \/ Controller
        \/ \E g \in Goroutine : Worker(g)
  \/ Terminated

Spec == Init /\ [][Next]_vars

-----------------------------------------------------------------------------
(* Properties                                                              *)

TypeOK ==
  /\ TaskTypeOK
  /\ pc \in FramePc \cup {"loop", "select", "change", "spawn", "batch", "count", "drain"}
  /\ concurrent \in 0 .. MaxConcurrency
  /\ {rounds, round, cursor} \subseteq Nat
  /\ mapped \subseteq Id
  /\ active \subseteq mapped
  /\ turn \in [Goroutine -> Nat]
  /\ executed \in [Id -> Nat]
  /\ stopped \in BOOLEAN

\* The mode returns only when every worker it started has ended, so that its caller may
\* close the result channel (roundModel.go:97 and 181 against dispose.go:167).
Promise == INSTANCE ForkJoin WITH
  live  <- Live,
  phase <- IF closed THEN "closed" ELSE IF pc \in ReturnPc THEN "joined" ELSE "forking"
JoinsItsWorkers == Promise!Spec

\* No two workers ever hold one id: the map hands an id out again only after its worker has
\* run its deferred call and, centralized, after the batch was waited for; the alone mode
\* never hands it out again (roundModel.go:84-97 and 144-152).
OneWorkerPerId == \A g, h \in Live : gid[g] = gid[h] => g = h

\* The rounds asked for are the rounds executed.  However often the configuration shrinks
\* and grows, no id executes the scene more often than the largest round number ever asked
\* for (roundModel.go:152-165); and a task that received no message executed every id
\* RoundNum times when it returns ("运行了%d轮次, 任务正常结束", roundModel.go:100).  A
\* message may cost rounds: the iteration that receives it counts as one (44), and the poll
\* of the alone mode ends the task when it comes before the first worker (169-177).
RoundsAreAsAsked ==
  /\ \A i \in Id : executed[i] <= RoundNum \/ \E m \in Messages[controlMode] : executed[i] <= m.roundNum
  /\ pc = "returned" /\ published = 0 => \A i \in 0 .. concurrent - 1 : executed[i] = rounds
=============================================================================
