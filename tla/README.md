# A TLA+ model of the RunnerGo engine

The RunnerGo engine is the service that puts load on a system under test. A management service sends it a plan
(a scene and a task configuration) over HTTP; the engine executes the scene with many goroutines, writes one result
record per request to Kafka, and takes status messages (stop, debug, change of the configuration) from redis while it
runs. This directory holds its specification: how requests to the service become tasks, how a task forks and joins its
goroutines in each of its modes, how its records reach Kafka, which nodes of a scene an execution runs, what variables
they see, what a request is made of and how its outcome is judged, and how long connections end.

Paths below are relative to `src/`.

## 1. The system

| part | state it keeps | operations | modules |
|---|---|---|---|
| service: `api/`, `server/dispose.go`, `server/auto/` | the clients of each request, the WaitGroup of an automation plan, its stop in redis | the handlers, `ExecutionPlan`, `DebugScene`, `DebugApi`, `DisposeAutoPlan`, `sceneDecomposition`, `disposeCase` | Service |
| stress task frame: `server/dispose.go`, `model/request_kafka.go` | the result channel (500000 places), the start record, the sender goroutine | `TaskDecomposition`, `SendKafkaMsg` | StressTask, StressPlan |
| concurrency mode: `server/execution/concurrentModel.go` | wanted concurrency, start time, duration, map of ids, WaitGroup | loop of the controller, loop of a worker | ConcurrentModel |
| round mode: `server/execution/roundModel.go` | rounds, the round reached, map id to "active" | the same | RoundModel |
| ladder and threshold modes: `executionLadderModel.go`, `errorRateModel.go`, `executionRTModel.go`, `executionRpsModel.go` | concurrency, step, maximum, length of a stage, marker of the last stage; the report read back and the events not yet at their threshold | the same | LadderModel |
| scene execution: `server/golink/link.go` | map of the nodes' results, WaitGroup of the round | `DisposeScene`, `disposePlanNode`, `disposeDebugNode`, `DisposeRequest` | SceneRun |
| parameters and variables: `model/scene.go`, `model/file.go`, `model/request.go` | columns of the files, the row index, the list of scene variables all workers share | `UseFile`, `SupToSub`, `InitReplace`, `VarToSceneKV`, prepositions | SceneVariables |
| HTTP, SQL and Dubbo requests, assertions: `model/request*.go`, `model/assert.go` | the map of Dubbo references; else none | substitute, send, extract, assert, report | HttpRequest, SqlRequest, DubboRequest |
| long connections: `model/request_ws.go`, `request_tcp.go` | a connection, a status channel, timers, a reader and a writer | dial, send, receive, redial, stop | LongConnection |
| heartbeat, tools, notification, configuration, logging, proto | one record, constants, generated code | I/O, pure helpers | not modelled |

How they interact:

```
management service --HTTP--> handler --go--> ExecutionPlan --go--> SendKafkaMsg --> Kafka
                                |                 |                     ^
                                |        TaskDecomposition         resultDataMsgCh
                                |   start record   |   end record, close |
management service --redis--> statusCh --> a mode (controller)           |
                                |                 | go, currentWg        |
                                |               workers -> DisposeScene -> nodes (go, sceneWg) -> requests
                                +-- DebugScene, DebugApi --> nodes --> Mongo
                                +-- DisposeAutoPlan -> scenes (in order, or go and WaitGroup) -> cases -> DisposeScene
```

What is hard in it, and so what the properties are about:

- **Join before close.** `TaskDecomposition` closes the result channel when the mode returns. A goroutine that still
  runs then sends on a closed channel, outside every `recover`, and the process ends. Each mode has its own ways to
  return; each must have waited. (`JoinsItsWorkers`, `NoSendOnClosedChannel`, `EndSealsTheStream`)
- **The map of ids.** A worker is told to end by taking its id out of a map; it takes its id out itself when it ends.
  Both race with a controller that gives ids out again. (`IdsAndWorkersAgree`, `OneWorkerPerId`, `OneSceneAtATime`,
  `IdsAreServed`)
- **Messages between the steps.** A status message takes an iteration of a loop which also counts rounds, or measures
  a stage. (`RoundsAreAsAsked`, `EveryRung`, `CentralStopIsFinal`)
- **One record, two sends.** The start record and the end record are the same allocation.
  (`EndMarksTheLastRecord`, `StreamIsComplete`)
- **A failed sender.** When Kafka refuses one record the sender ends, nobody drains the channel, and a full channel
  blocks everybody. (`TaskIsEnded` names that case and no other)
- **Results of predecessors.** A node looks once at what its predecessors left. Only the barrier between rounds makes
  that enough. (`RunsAfterPredecessors`, `RoundInv`, `NothingBehindAMiss`, `FullWeightReports`, `JoinsItsNodes`,
  `SceneReturns`; `WithinShare` for the ids that share a node)
- **A list shared by all workers.** Rows are drawn under a lock and appended to a common slice outside it.
  (`RowsAreDealtInTurn`, `UndisturbedSceneHasItsRow`; `ReferencesAreShared` for the Dubbo references)
- **Levels that overlay each other.** Headers and assertions come from the plan, the scene, the api and the request.
  (`OwnHeaderWins`, `AssertionsOfEveryLevelCount`, `NoAnswerIsNoSuccess`)
- **Two goroutines on one socket.** Reader and writer share a socket, a subscription and, in a WebSocket, the variable
  itself. (`StopMarksTheEnd`, `ClosesItsSockets`, `SurvivesItsPeer`, `DurationEndsTheConnection`)
- **Clients closed by whoever returns first.** (`CasesRunInOrder`, `ReportedWhenAllRan`, `ClientsOutliveTheirUse`,
  `RequestsEnd`)

## 2. The modules

**Service** is the outer layer. `plan[r]` is the body of request `r`, `stage[r]` where its handler or the goroutine
it started is. `Refuse` and `Accept` are the checks of the handlers; `NewKafkaProducer` and `NewMongoClient` open what a
request needs and may fail; `StartTask`, `TaskDecomposition`, `EndTask`, `Disconnect`, `Close`, `SenderEnds` a stress
task seen from outside; `StartScene`, `StopScenes`, `EndScenes`, `Report` the loop of `sceneDecomposition`;
`StartCase`, `SkipCase`, `EndCase`, `EndScene` are `disposeCase`. A panic in a handler is recovered by gin; a panic in a
goroutine of this repository ends the process (`Die`), except inside `TaskDecomposition`.

**StressTask** is one run of a task without its mode: the goroutine of `TaskDecomposition` (`pc` in `FramePc`), the
start record `startMsg`, the channel `resultDataMsgCh`, the sender (`sender`, `delivered`), the workers (`gpc`, `gid`,
`todo`), the counter `wg` of `currentWg`, and the status messages (`statusCh`, `published`). The modes extend it
and own the values of `pc` between `"enter"` and `"clearStart"`. The workers are a set of handles, `Goroutine`; a
handle is free again when its goroutine has ended.

| definition | code |
|---|---|
| `SendStart`, `ClearStart`, `SetEnd`, `SendEnd`, `Close` | `TaskDecomposition`, `server/dispose.go:234-299` and 167; its `recover` runs the same steps |
| `Receive`, `Marshal`, `SendMessage`, `SendFails`, `SenderDone` | `SendKafkaMsg`: the record is marshalled field by field, so a boundary record is read in two steps |
| `Publish`, `StopsPlan`, `Addressed`, `Changes`, `Dereferences` | the redis subscription and the tests on a message, in the order of the code |
| `Go`, `EnterScene`, `SendResult`, `SceneReturns`, `WorkerDone` | a worker; its scene sends any number of results up to `SceneSize` |

**StressPlan** is the switch over the modes: it instantiates the three modules below over one set of variables, with
the fairness of the goroutines stated once for all of them.

**ForkJoin** is the abstract specification of a mode and of a scene: goroutines are forked only while it runs, it is
left only when all have ended, and only then its channel may be closed. It translates no code.

**ConcurrentModel**, **RoundModel**, **LadderModel** are the modes. `Controller` has one action per branch of the loop
(`CheckTime` or `CheckRound`, one `Take...` per kind of message, `ApplyChange`, the spawning loop, `Wait`), `Worker(g)`
one action per step of a worker. `controlMode` is an argument of the task: under `"Centralized"` a worker runs the
scene once and the controller waits for the batch; under `"Alone"` a worker loops by itself. Where the controller
writes two variables that workers read without a lock, the write is split: `TakeChange` and `ApplyChange` are the
two ends of it, and `Clocks` (`StepTimes`) is the set of values a worker may read in between.

LadderModel is four modes, chosen by its variable `mode`. They repeat one loop in four texts; each definition is mapped
to one of them, and where a text differs the definition says so: the look at the report before the loop body (`Query`,
`StayBelow`, `ReachThreshold`, `TickOff`), the jump of RPS to the top (`ToTheTop`), the response-time mode that answers
a stop by emptying a map nobody reads (`Returns`, `Empties`), does not store its ids (`NotStored`) and whose alone workers
look up the loop variable of the spawning loop (`Sharing`, `LookedUp`), the ids a lower maximum deletes (`Deletes`).

**SceneRun** is one execution of a scene by one concurrency id: `Spawn`, `EndRound` and `Wait` are `DisposeScene`;
`Skip`, `Run`, `Request`, `EndRequest`, `Decide`, `EndPause`, `Ignore` and `Done` are a node under `disposePlanNode`
(`runType = "plan"`) or `disposeDebugNode` (`"scene"`). The two differ in weights, in what they store, and in who
reports. A mode sees such an execution as `EnterScene`, `SendResult`, `SceneReturns`: `JoinsItsNodes` justifies that.

**SceneVariables** is the executions of one scene by several workers: the columns (`file`) that `UseFile` and the SQL
prepositions fill, the row index, the shared list, and for each worker the variables of its execution (`vars`) and the
round it is in. An append is two steps, the read of the slice and its write. Each node of a round is a goroutine
(`node[<<worker, n>>]`): `StartRound` begins them, `NextRound` waits for all. They work on one map of variables; an HTTP
request begins to replace its references (`Begin`), has replaced them (`Prepare`, with what it may have seen of the
stores of other nodes in between: `Mixed`), and is answered (`Respond`); a Dubbo request looks for its reference, makes
one, stores it and invokes in steps of their own (`LookUp`, `InitDubbo`, `StoreReference`, `Invoke`).
**HttpRequest**, **SqlRequest** and **DubboRequest**
are operators: how a request is prepared (`references` `{{x}}` replaced in each part), what its answer may be, what is
extracted, what the assertions say, what is reported and recorded. A text is a sequence of literals, references and calls.

**LongConnection** is one TCP or WebSocket request: `Main` its goroutine (`Connect`, `StartSides`, `Join`, and the
short forms `Exchange`, `Answer`), `Runs(s)` a side. The sides share `statusCh`; those of a WebSocket also `conn`, which
each dials anew when it is nil (attempt by attempt: every failed one assigns nil, the loop of `retryNum` goes on, and a
successful one overwrites whatever the other side has dialled meanwhile), and the struct a message is decoded into
(`Cell`). A write is begun in one step and done in another (`WriteTaken`): it has no deadline, and a peer that does not read
keeps its side there. `Peer`, `Fire` and `Publish` are the
other end, the clock and the management service.

**MC...** modules give the constants values; **..._proofs** modules hold the theorems.

### What is abstracted

- A result record is one of `"boundary"` and `"result"`; only the flags of the boundary record are kept.
- Time is kept relative to `startTime` and saturates one above `MaxDuration`; `Tick` may come between any two steps.
- A mode's subscription is open from `"enter"` on, although the code opens it a few statements later.
- `controlMode` has the two values the constants of the code have; with any other the mode would do nothing.
- A report is nothing, unreadable, or the set of events above their thresholds; any of them at any time.
- In SceneRun the outcome of a condition is either of two, and a request always answers.
- `FloatUp` says which floating-point products exceed the exact one; `Known` lists all up to a concurrency of 100
  for the concurrencies the runs use.
- A node's predecessors lie in earlier rounds. The management service lays scenes out so; the code does not test it.
- In SceneVariables what one answer stores into the variables is one step, and a request that is being prepared sees each
  variable as it was when the replacing began or as it is when it ends: one variable has one value throughout a request,
  and a value that is overwritten twice meanwhile is not seen in between. Conditions, pauses and weights are SceneRun's.
  Left out of requests: the case of header names, the Host and Connection headers, the TLS client, digest and the rarer
  kinds of authorisation, variables without a value, JSON values that are not strings, gRPC.
- In Service a task, a case and a debugged scene begin, use their clients, and end; the other modules say what they do.

## 3. The runs

| run | bounds | what it shows |
|---|---|---|
| `conc` | 3 goroutines, concurrency 2 (a change asks for 1, 2 or 3), channel of 1, 1 result, 2 messages of 9 kinds, clock to 3 | both control modes of the concurrency mode: ids and workers agree, no send on a closed channel, a complete stream, a central stop is final, implements ForkJoin |
| `round` | 3 goroutines, concurrency 2, 2 rounds (changed to 1 or 3), 2 messages | one worker per id, the rounds asked for, all joined |
| `ladder` | the four climbing modes; 3 goroutines, from 1 to 2 (or 3) by 1 (or 2), stages of 1 and 2, 1 message of 7 kinds, 2 events, every report | scenes do not overlap under an id, every rung is used, batches joined |
| `plan_live` | every mode (one climbing), 2 goroutines, 1 message, Kafka may fail | as time passes a task and its sender end; ids are served even while no time passes |
| `scene` | 3 nodes: fork, join, chain, and diamonds of 4; all types, weights of 0, 50, 100; at most one node disabled; both run types | the rounds, the misses, the full weight, an execution returns |
| `variables` | 20 plans, each about one thing; 2 workers, 2 or 3 executions; plans with two Dubbo requests in one round, and with an HTTP request beside one that stores what it refers to; 3 HTTP answers, 3 Dubbo answers, 2 tables | the rows, the levels, the references |
| `connection` | TCP and WebSocket, every kind of connection and send mode, 0, 1 or 2 attempts to dial, 2 messages, 3 dials, 2 failed reads | ends told and final, sockets closed, the process survives, the duration ends it |
| `service` | 2 requests of 19 bodies: each kind well formed and with one part missing, plans of 2 scenes and 4 cases in each mode | the cases in order, the report, the clients, the end |
| `conc_end_marker`, `ladder_alone_end`, `scene_share`, `variables_failed` | as above, smaller | a disagreement between the code and its own text, see section 5 |

Why the bounds are enough: with a channel of one place every send can block; with two ids and three goroutines a
worker that was given up can still run beside the one that replaced it; two messages give every ordered pair of
(stop, shrink, grow, change of the time, debug, of another machine, without configuration). With three handles a
spawn may have to wait for a fourth goroutine to end, which the code never does: it only removes behaviours with four
goroutines alive, and the theorems cover every number. Handles are symmetric, and runs without liveness use it.
`scene` takes every assignment of the types that decide control. Two workers suffice for a lost append, two draws of one
row and two references made at once; the third execution wraps the index around. Three dials are the one of the
request and two more of its sides, in which one overwrites the other's; with two attempts a side goes on behind the other.
In `service` two requests show that the death of the process is the only way they touch.

Deadlock is checked, except in `plan_live` (behind a failed sender the program really stops), `variables`,
`connection` and `service` (they end). A crashed process stutters; that it never happens is `NoSendOnClosedChannel`.

The alone modes of `conc` and `round` leave messages out (`Handled`): a change without a `ModeConf`, on which the
code panics under its workers, and for `round` a stop, which returns under its workers. Section 5 says what happens with
them. `plan_live` leaves out the alone climbing modes, which return without their workers.

Fairness, and why the code justifies it: weak fairness of each goroutine (`TaskDecomposition`, `SendKafkaMsg`, the
controller, each worker, each node, each side, each handler and case), because the Go scheduler runs every goroutine that
can go on, and no step of one can be undone by another for ever. `TakeTimer` has strong fairness: a `select` chooses at
random among what is ready, so that a fired timer is not passed over for ever. The concurrency mode assumes nothing of
the clock: `TaskIsEnded` names the fairness of the clock as its premise, and `IdsAreServed` holds without it. None is
assumed of `Publish` and `StopPlan`, nor of the peer of a connection: a write has no deadline, so that `WriteTaken` is the
peer's as much as what it sends. `DurationEndsTheConnection` states both as premises: the peer takes what is written and,
for a WebSocket, sends or leaves. A stress task is assumed to end (`EndTask`) only while its channel is drained, and not
where an alone threshold mode loops on (`Ends`); `RequestsEnd` leaves those, and no other, executing.
Requests answer: every HTTP request of the code has a timeout or an error path.

## 4. What is proved

`tlapm` checks every theorem; the constants are arbitrary under the named assumptions of the modules.

**ConcurrentModel_proofs.** `ConcurrentInvariants`: `TypeOK` and `PoolInv` are invariants. `PoolInv` is the inductive
strengthening of `NoSendOnClosedChannel`: the counter of the WaitGroup is the number of live goroutines (`WgCounts`;
the lemmas of `StressTask_proofs` say how `Go`, `WorkerDone` and a move change both); so `Wait` is left with an empty
pool; centralized, the pool stays empty until the next spawning loop; hence every way out of the mode finds it empty;
and only `Close`, behind the mode, closes the channel. `ConcurrentNeverSendsOnClosed` and `ConcurrentRefinesForkJoin`
follow. They assume `Orderly`: in the alone mode no message panics. Without that the invariant is false.
`ConcurrentStreamIsComplete`: `StreamInv` (in `StressTask_proofs`, for every mode) follows the flags of the record with
End through the frame, the channel and the sender; the pool being empty behind the mode keeps anything from following
it. `ConcurrentIdsAndWorkersAgree`: `BatchInv` says that the spawning loop has passed the ids in use, `HeldInv` that an
id of the map has a worker that will delete it; fewer workers than the concurrency is then an injection into the ids.
`ConcurrentCentralStopIsFinal` is an action property, from the loop being left in the step that takes the stop.

**RoundModel_proofs.** `RoundTypes`, `RoundOneWorkerPerId`, `RoundRefinesForkJoin`, along the same lines. Its `PoolInv`
says where the pool is empty; `IdInv` strengthens `OneWorkerPerId`: alone the map never loses an id, so an id that has a
worker is in it and is skipped; centralized the spawning loop has passed the ids it gave out. `Orderly` here also
leaves out the stop of the alone mode, which returns without waiting. `RoundStreamIsComplete` is as above.
`RoundRoundsAreAsAsked` needs the count of every id at every place of the loop: `CentralRounds` and `AloneRounds` bound
it (a batch adds one; alone an id has one worker for good, which counts), `QuietCentral` and `QuietAlone` say that
without a message no id falls behind (it has executed this round, or has a worker that will).

**LadderModel_proofs**, for the ladder and the three threshold modes, both control modes and every configuration, with no
`Orderly`: `LadderTypes`, `LadderRefinesForkJoin` and `LadderKeepsItsStream` (both about the centralized modes; the alone
ones break these promises), `LadderOneSceneAtATime` (the alone ladder's map keeps an id while its worker holds it).
`LadderUsesEveryRung`: `StairsInv` says that batches were started with every rung below the concurrency and with no
other level, `QuietInv` that without a message the configuration stays and the clock is restarted at the top, so that
the loop ends there; the lemmas on multiples of a step say that the next level is the next rung. It assumes `Climbable`: the
first level is not above the last, a rung and the top have a duration. The code checks none of it; a ladder that starts
above its maximum has no rungs to use.

**SceneRun_proofs.** `SceneRounds`: `RoundInv` is inductive, for any finite scene. `SceneRunsAfterPredecessors`
follows from the layout. `SceneRespectsMisses`: `MissInv` says one generation of it (a node that is held back makes
its successors be held back, and stores in time); that all generations follow needs no induction, as the nodes held
back are a set closed under successors, which is how `Behind` is defined. `SceneRefinesForkJoin`: as for the mode.
`SceneTypes` bounds the concurrency a node takes over from its predecessors; the maximum of a finite set of numbers it
takes is shown to exist as the least of its upper bounds. `SceneFullWeightReports`: by `FullInv` a node nothing in front of narrows hands the
whole concurrency on; when the execution has returned its last round is over.

**SceneVariables_proofs.** `VariablesReferencesAreShared`, for every finite set of workers and any plan: `SharedInv` says
that until somebody has stored a reference to a service the references made to it are held by goroutines about to store
one; from then on the second look finds it and none is made. These goroutines are nodes of the rounds the
workers are in; with at most m nodes a round that ask the service they are at most m for each worker.
`VariablesRowsAreDealtInTurn`: the index of a column separates the rows that were dealt once more (`ColumnInv`).
`VariablesTypes`: what the files and the prepositions leave in a column is a sequence of rows.

What a fold leaves is proved by way of its table. `FoldLeft` chooses a function on the sets of positions that gives the
base for the empty set and one more step for each larger one. `TableExists` shows that there is such a function for any step
into a set (the least length without one would have one), so the chosen one is it, and its values on `1 .. k` are what
is there after `k` elements: the lemmas `...Steps`, one for each fold, say so. What follows for all elements is then
an induction over positions (`UpToInduction`, from the least counterexample). So for assertions (`AssertionMeaning`),
for merging two levels (`AddMissingMerges`), for the lines of the files, the prepositions, and the variables loaded.

`VariablesUndisturbedSceneHasItsRow`: by `AppendInv` an execution nobody disturbs is the only one that appends, its copy
of the slice is the slice, and each variable it drew is still to append or the last of its name in the slice, which is the
one that counts when the slice is loaded (`LoadedLast`). By `PlaceInv` columns of one length are at one row, and with one
file whose names differ they hold the values of its lines (`OneFile`, set up in `OneFileIsThere`).
`VariablesAssertionsCount`: an assertion without references gets through four merges and through the replacement of what
the others refer to (`PlainIsSent`), unless another one may be taken for it; `JudgedInv` says that what is prepared is made of the
merged levels. `VariablesOwnHeaderWins`: what is added stands behind the request's own fields and differs from
each of them by name, so that the last field of an own name is the request's (`OwnIsSent`).
The proofs assume what decoding a plan guarantees (`IsPlan`: lists are slices, the elements have their fields) and that a
table has a list in each column (`TablesAssumption`); TLC evaluates both for the plans of the run.

Two properties were stated too strongly before they were proved, and TLC's plans did not show it. A name that stands twice
in the first line of a file gets two values of each line, so its column runs ahead of the others: `UndisturbedSceneHasItsRow`
now speaks of files whose names differ (`Distinct`). And `SupToSub` may take for an assertion another one whose
references are replaced by the same texts: `Plain` now leaves that one out as well (`MayAgree`).

**Service_proofs.** `ServiceRunsCasesInOrder`, `ServiceReportsWhenAllRan`, `ServiceClientsOutliveTheirUse` and
`ServiceTypes`, for any number of requests, scenes and cases. `ScenesInv` relates the loop, the cases and the WaitGroup:
the loop has called exactly the scenes before the one it is at; in the order mode all but the last are over; the
counter is the number of active scenes; where the case mode is the order mode, a scene that is at a case, or over in a
plan nobody stopped, has executed every checked case before. `ReportedWhenAllRan` says which plans the code executes
(`ExecutesCases`) and that the others execute nothing, case mode 2 among them (section 5).
`StagesInv` relates the stage of a request to its clients: what is active keeps the plan from leaving
`wait`, and only a stop gets past it. Every action is shown to keep both; the actions of a scene go through one lemma, `CaseStep`.

**LongConnection_proofs.** `ConnectionTypes`, `ConnectionStopMarksTheEnd` and `ConnectionSurvivesItsPeer`, for any number
of messages, dials and failed reads. `SocketsInv`: a first connection, once made, is the only one; nobody dials again,
`conn` never becomes nil and the reader holds socket 1, so that a panic has no cause but the ones the property names.
`RecordsInv`: while a side runs its last record has no IsStop, and what the request inserts for both sides when it returns
is what `StopMarksTheEnd` says, exception by exception. The moves of a side, its end and its panic are a lemma each.
`ConnectionClosesItsSockets`: `LeakInv` counts the sockets `conn` does not point to; only the sides of a WebSocket whose
first dial failed dial. With one attempt each (`RaceInv`) a side that overwrites the connection of the other is the last
to dial, and one socket is lost. With two or more it is not so: a side whose attempt failed assigns nil over what the other
dialled, and both loops go on; the theorem says nothing of these.

Only model-checked: the liveness properties (`TaskIsEnded`, `IdsAreServed`, `SceneReturns`, `DurationEndsTheConnection`,
`RequestsEnd`), which need `ENABLED`. Every safety property of a passing run is proved, with the premises named above.

## 5. Where the code and its texts differ

Checked by a run that finds the property violated:

- `conc_end_marker`: the end record overwrites the start record, which may still be in the channel. Kafka then gets
  two records marked End, with results between them (`server/dispose.go:290`).
- `ladder_alone_end`: the alone ladder returns at its normal end without waiting (`executionLadderModel.go:208`).
- `scene_share`: a node with a weight runs for one or two ids too many (`link.go:178`, 196).
- `variables_failed`: a request that got no answer is a success when its only assertion is on the code 200, which the
  empty response has: the verdict of the assertions overwrites `isSucceed` (`request_http.go:101`).

Met while modelling; the models follow the code, and the message sets or the guards of the properties leave them out.

Modes:
- A change without a `ModeConf` is a nil dereference; in the alone modes the channel is then closed under the workers
  (`concurrentModel.go:132`). This is why `Handled` leaves it out and the theorems assume `Orderly`.
- A stop in the alone concurrency mode leaves only the `select`, and new workers start (`concurrentModel.go:121`); in
  the alone round mode it returns without waiting (`roundModel.go:117`).
- In the round mode a message uses up a round (`roundModel.go:44`), and a debug message before the first worker ends
  an alone task with no round run (169-177). `RoundsAreAsAsked` states that no round is missing of tasks without messages.
- Raising the maximum of a ladder after its last stage began makes the task end "abnormally", without running at the
  new maximum: the marker `target` is never reset (`executionLadderModel.go:128`). `EveryRung` is stated of tasks
  without messages. A step of 0, or a start above the maximum, never reaches the top stage.
- In the alone concurrency mode an id that is revoked and given out again before its worker looks leaves the old
  worker running beside the new one (`concurrentModel.go:164`).
- A report that cannot be read makes an alone threshold mode wait for workers that loop on (`errorRateModel.go:176`);
  the threshold itself makes it return without them. The centralized response-time mode ignores a stop
  (`executionRTModel.go:106`). The jump of RPS to the top does not restart the clock (`executionRpsModel.go:199`).
- The parameter check of the concurrency mode refuses only a task with neither concurrency nor duration, its message
  says "or" (`concurrentModel.go:31-32`).

Scenes and variables:
- A condition or pause takes over the weight of its predecessor and applies it to the predecessor's concurrency, which
  already contains it (`link.go:127`). No text says what it should do; `FullWeightReports` is about the full weight.
- The shared list of variables grows with every execution, loses appends, and an execution may see another's row
  (`link.go:34`); `UndisturbedSceneHasItsRow` is stated of executions no other one disturbs.
- A variable that is no string, used where a key, a path or an expression is expected, ends the process, as do a typed
  parameter whose value does not convert and a request without `query` or `auth` (`request_http.go:1597`).
- A header name with spaces makes a column without rows; two files that share a column, or a name that stands twice in
  the first line (`file.go:85-92`), misalign the lines.
- Assertions on `rows_affected` are never compared, one with index -1 always fails, one below -1 panics
  (`request_sql.go`). Dubbo and TCP results are always reported as not succeeded. A Dubbo regex that finds nothing
  panics (`request_dubbo.go:401`), an unchecked parameter ends the list of parameters, and every goroutine that asks a
  service before its reference is stored may make one (208-216), of several workers or of one round.
- A failed HTTP request with no assertion, and a failed SQL request, are reported without a type of error
  (`result.go:88` has one for request errors; `link.go:607` takes none from SQL).

Connections:
- A failed write of TCP reports the end and goes on; `ReConnection` is never reached; a task with 0 attempts, or an unknown send
  mode, panics. One stop message ends one side: the other goes on with a closed socket until its own timer.
- A WebSocket reader waits for a silent peer past its duration (`request_ws.go:34`), and a peer that neither reads nor
  sends keeps both sides of either protocol past it, the writer in a write without a deadline (`request_tcp.go:219`). A peer
  that leaves is read over and over until the library panics. After a failed first dial both sides dial: with one attempt
  each one socket may be left open, with more any number.
- The end of a request does not always reach its records: what a short WebSocket sent is not marked when the read fails
  (`request_ws.go:376`), and an unknown type of connection or send mode inserts nothing for a side (274).

Service:
- Case mode 2, which `model/auto/task.go:8` calls "同时执行" (at the same time), executes no case, and the end of the plan is
  reported all the same (`auto/dispose.go:207`). `ReportedWhenAllRan` says so in its formula; TLC finds it violated when
  `ExecutesCases` is replaced by one that includes mode 2.
- The configuration `ExecutionPlan` makes up for a plan goes to a copy, and `TaskDecomposition` dereferences nil before
  its `recover`: the process ends. So it does when an api is debugged without variables or with an empty column, and
  when a scene of an automation plan has no configuration.
- When Mongo cannot be reached the client stays connected, and the producer of a stress task open (`dispose.go:79`).
- A stopped automation plan does not wait, does not report, and disconnects its client under running cases; the loop looks for the stop
  under the scene's own ids (`auto/dispose.go:140-155`).

## 6. Not modelled, and what is left

- *Heartbeat*: two goroutines share one record of measurements without a lock; nothing relates its fields.
- *Process end*: a SIGTERM ends `main` at once; nothing is persisted or resumed.
- *MQTT, gRPC, the client pool, scripts*: MQTT is called by no code of the repository, the others are single calls of
  a library. *Tools, notification, configuration, logging, proto*: pure helpers, I/O, generated code.

The plan is done: every component that keeps state is modelled as far as section 2 says, and every safety property of
a passing run is proved (section 4).

## 7. Running it

```
tlc -workers 2 -config conc.cfg MCConcurrent
tlapm Service_proofs.tla
```
