------------------------------- MODULE Service -------------------------------
(***************************************************************************)
(* The service around the scene execution: the handlers of api/api.go, what *)
(* they check and open, and the goroutine each of them starts: a stress    *)
(* task (server/dispose.go), the debugging of a scene or of an api, an     *)
(* automation plan (server/auto/dispose.go) with its scenes and cases.     *)
(*                                                                         *)
(* A panic in a handler is recovered by gin.  A panic in a goroutine of    *)
(* this repository, outside TaskDecomposition, ends the process and every  *)
(* other request with it: alive becomes FALSE.                             *)
(*                                                                         *)
(* What a task, a case or a debugged scene does is the subject of the      *)
(* other modules; here it is begun, uses its Mongo client, and ends.       *)
(***************************************************************************)
EXTENDS Integers, Sequences, FiniteSets

CONSTANTS
  Requests,   \* the HTTP requests the service receives
  Plans       \* what a request may ask for

\* the fields the automation plans are executed by; the others are read where they matter
ASSUME PlansAssumption ==
  \A p \in Plans : p.scenes \in Seq([cases : Seq(BOOLEAN), configured : BOOLEAN, ids : BOOLEAN])

VARIABLES
  plan,       \* plan[r]: the body of request r
  stage,      \* stage[r]: where its handler, or the goroutine it started, is
  answer,     \* answer[r]: what the client was told
  producer,   \* producer[r]: the Kafka producer of r
  mongo,      \* mongo[r]: the Mongo client of r
  busy,       \* the requests whose task or debugged scene is being executed
  draining,   \* the requests with a sender that receives from an open channel
  stopped,    \* the automation plans with a stop in redis
  scene,      \* scene[r]: the scene the loop of sceneDecomposition is at
  case,       \* case[r][s]: the case disposeCase of scene s is at, 0 before it is called
  running,    \* running[r]: the cases, as <<scene, case>>, being executed
  executed,   \* executed[r]: those whose execution has ended
  wg,         \* wg[r]: the WaitGroup of an automation plan
  reported,   \* the automation plans whose end was reported
  alive       \* the process runs

vars == <<plan, stage, answer, producer, mongo, busy, draining, stopped, scene, case, running, executed, wg, reported, alive>>
clients == <<producer, mongo>>
cases   == <<scene, case, running, executed, wg, reported>>

OrderMode == 1
SameMode  == 2
Over      == -1   \* disposeCase has returned

ScenesOf(r) == DOMAIN plan[r].scenes
CasesOf(r, s) == DOMAIN plan[r].scenes[s].cases
Checked(r) == {p \in UNION {{s} \X CasesOf(r, s) : s \in ScenesOf(r)} : plan[r].scenes[p[1]].cases[p[2]]}

Init ==
  /\ plan \in [Requests -> Plans]
  /\ stage = [r \in Requests |-> "received"]
  /\ answer = [r \in Requests |-> "none"]
  /\ producer = [r \in Requests |-> "none"]
  /\ mongo = [r \in Requests |-> "none"]
  /\ busy = {} /\ draining = {} /\ stopped = {} /\ reported = {}
  /\ scene = [r \in Requests |-> 1]
  /\ case = [r \in Requests |-> [s \in ScenesOf(r) |-> 0]]
  /\ running = [r \in Requests |-> {}]
  /\ executed = [r \in Requests |-> {}]
  /\ wg = [r \in Requests |-> 0]
  /\ alive = TRUE

-----------------------------------------------------------------------------
(* The handlers *)

At(r, kind, s) == alive /\ plan[r].kind = kind /\ stage[r] = s
Goto(r, s)     == stage' = [stage EXCEPT ![r] = s]
Answer(r, a)   == answer' = [answer EXCEPT ![r] = a]
Set(client, r, state) == [client EXCEPT ![r] = state]
Die == /\ alive' = FALSE
       /\ UNCHANGED <<plan, stage, answer, clients, busy, draining, stopped, cases>>

Quiet == UNCHANGED <<plan, busy, draining, stopped, cases, alive>>

\* the first panic of a handler: an empty list of rounds, a request without a body
HandlerPanics(p) == \/ p.kind = "stress" /\ p.rounds = "empty"
                    \/ p.kind = "api" /\ ~p.body

\* the checks before anything is opened, and what they answer; an automation
\* plan without a ConfigTask is only logged
Refusal(p) ==
  IF ~p.decodes THEN "refused"
  ELSE IF HandlerPanics(p) THEN "panicked"
  ELSE CASE p.kind = "stress" -> IF p.rounds = "full" /\ p.ids /\ p.task THEN "none" ELSE "refused"
         [] p.kind = "auto"   -> IF p.scenes = <<>> \/ ~p.ids THEN "refused" ELSE IF p.task THEN "none" ELSE "silent"
         [] OTHER             -> "none"

Refuse(r) ==
  /\ alive /\ stage[r] = "received" /\ Refusal(plan[r]) # "none"
  /\ Answer(r, Refusal(plan[r])) /\ Goto(r, "over")
  /\ Quiet /\ UNCHANGED clients

\* the debug handlers answer before anything is opened
Accept(r) ==
  /\ alive /\ stage[r] = "received" /\ Refusal(plan[r]) = "none"
  /\ answer' = IF plan[r].kind \in {"scene", "api"} THEN [answer EXCEPT ![r] = "ok"] ELSE answer
  /\ Goto(r, CASE plan[r].kind = "stress" -> "producer" [] plan[r].kind = "api" -> "variables" [] OTHER -> "mongo")
  /\ Quiet /\ UNCHANGED clients

NewKafkaProducer(r) ==
  /\ alive /\ stage[r] = "producer"
  /\ \/ producer' = Set(producer, r, "open") /\ Goto(r, "mongo") /\ UNCHANGED answer
     \/ Answer(r, "refused") /\ Goto(r, "over") /\ UNCHANGED producer
  /\ Quiet /\ UNCHANGED mongo

\* the failure of the ping leaves a connected client behind, and any failure
\* the producer of a stress task
NewMongoClient(r) ==
  /\ alive /\ stage[r] = "mongo"
  /\ \/ mongo' = Set(mongo, r, "open") /\ Goto(r, "opened") /\ UNCHANGED answer
     \/ /\ mongo' \in {mongo, Set(mongo, r, "open")}
        /\ Goto(r, "over")
        /\ answer' = CASE plan[r].kind = "stress" -> [answer EXCEPT ![r] = "refused"]
                       [] plan[r].kind = "auto"   -> [answer EXCEPT ![r] = "silent"]
                       [] OTHER -> answer
  /\ Quiet /\ UNCHANGED producer

-----------------------------------------------------------------------------
(* A stress task *)

StartTask(r) ==
  /\ At(r, "stress", "opened")
  /\ Answer(r, "ok") /\ Goto(r, "planned")
  /\ draining' = draining \cup {r}   \* go SendKafkaMsg
  /\ UNCHANGED <<plan, clients, busy, stopped, cases, alive>>

\* ExecutionPlan sets the configuration of a copy of the scene that
\* TaskDecomposition does not see
TaskDecomposition(r) ==
  /\ At(r, "stress", "planned")
  /\ IF plan[r].configured
     THEN /\ busy' = busy \cup {r} /\ Goto(r, "executing")
          /\ UNCHANGED <<plan, answer, clients, draining, stopped, cases, alive>>
     ELSE Die

\* the mode returns, or its panic is recovered, and the end record is sent; a mode
\* that does not join its workers leaves them to use the client and to send
EndTask(r) ==
  /\ At(r, "stress", "executing")
  /\ Goto(r, "disconnect")
  /\ busy' \in IF plan[r].joins THEN {busy \ {r}} ELSE {busy, busy \ {r}}
  /\ UNCHANGED <<plan, answer, clients, draining, stopped, cases, alive>>

LeaveLate(r) ==
  /\ alive /\ plan[r].kind = "stress" /\ r \in busy /\ stage[r] # "executing"
  /\ \/ busy' = busy \ {r} /\ alive' = alive
     \/ stage[r] = "over" /\ alive' = FALSE /\ busy' = busy   \* a send on the closed channel
  /\ UNCHANGED <<plan, stage, answer, clients, draining, stopped, cases>>

\* the deferred calls of TaskDecomposition, the last one first
Disconnect(r) ==
  /\ alive /\ stage[r] = "disconnect"
  /\ mongo' = Set(mongo, r, "closed")
  /\ Goto(r, IF plan[r].kind = "stress" THEN "close" ELSE "over")
  /\ Quiet /\ UNCHANGED <<answer, producer>>

Close(r) ==
  /\ At(r, "stress", "close")
  /\ Goto(r, "over")
  /\ Quiet /\ UNCHANGED <<answer, clients>>

\* the sender leaves its loop when the channel is closed and empty, or when
\* Kafka refuses a record, and closes the producer
CloseProducer(r) == /\ draining' = draining \ {r}
                    /\ producer' = Set(producer, r, "closed")
                    /\ UNCHANGED <<plan, stage, answer, mongo, busy, stopped, cases, alive>>
SenderEnds(r)  == alive /\ r \in draining /\ stage[r] = "over" /\ CloseProducer(r)
SenderFails(r) == alive /\ r \in draining /\ CloseProducer(r)

-----------------------------------------------------------------------------
(* Debugging *)

\* DebugApi: neither a global nor a scene variable leaves ApiVariable nil, and a
\* column without rows has no first one
Variables(r) ==
  /\ At(r, "api", "variables")
  /\ IF (plan[r].global \/ plan[r].configured) /\ ~plan[r].emptyColumn
     THEN Goto(r, "mongo") /\ Quiet /\ UNCHANGED <<answer, clients>>
     ELSE Die

StartDebug(r) ==
  /\ alive /\ plan[r].kind \in {"scene", "api"} /\ stage[r] = "opened"
  /\ busy' = busy \cup {r} /\ Goto(r, "executing")
  /\ UNCHANGED <<plan, answer, clients, draining, stopped, cases, alive>>

EndDebug(r) ==
  /\ alive /\ plan[r].kind \in {"scene", "api"} /\ stage[r] = "executing"
  /\ busy' = busy \ {r} /\ Goto(r, "disconnect")
  /\ UNCHANGED <<plan, answer, clients, draining, stopped, cases, alive>>

-----------------------------------------------------------------------------
(* An automation plan *)

\* the loop of the handler over copies of the scenes: a Configuration made for
\* one is lost, and the global variables go to a nil SceneVariable
DisposeAutoPlan(r) ==
  LET lacks(s) == ~plan[r].scenes[s].configured
  IN  /\ At(r, "auto", "opened")
      /\ IF plan[r].global /\ \E s \in ScenesOf(r) : lacks(s)
         THEN Answer(r, "panicked") /\ Goto(r, "over")
         ELSE Answer(r, "ok") /\ Goto(r, "scenes")
      /\ Quiet /\ UNCHANGED clients

\* the stop is looked up under the ids the scene came with, before it is given
\* those of the plan
StopsScenes(r, s) == r \in stopped /\ plan[r].scenes[s].ids

Mode(r) == plan[r].sceneMode
\* the order mode starts its scenes with go
TurnAtOnce(r, s) == Mode(r) \in {OrderMode, SameMode}


Turn(r, s) == \/ Mode(r) = SameMode
              \/ Mode(r) = OrderMode /\ \A t \in 1..(s - 1) : case[r][t] = Over

\* the Add is left to the goroutine, after the Wait may have passed
StartSceneUncounted(r) ==
  LET s == scene[r]
  IN  /\ At(r, "auto", "scenes") /\ s \in ScenesOf(r) /\ Turn(r, s) /\ ~StopsScenes(r, s)
      /\ scene' = [scene EXCEPT ![r] = s + 1]
      /\ case' = [case EXCEPT ![r][s] = 1]
      /\ UNCHANGED <<plan, stage, answer, clients, busy, draining, stopped, running, executed, wg, reported, alive>>


StartScene(r) ==
  LET s == scene[r]
  IN  /\ At(r, "auto", "scenes") /\ s \in ScenesOf(r) /\ Turn(r, s) /\ ~StopsScenes(r, s)
      /\ scene' = [scene EXCEPT ![r] = s + 1]
      /\ case' = [case EXCEPT ![r][s] = 1]
      /\ wg' = [wg EXCEPT ![r] = @ + IF Mode(r) = SameMode THEN 1 ELSE 0]
      /\ UNCHANGED <<plan, stage, answer, clients, busy, draining, stopped, running, executed, reported, alive>>

\* the Disconnect is not deferred but called after the report
StopScenesConnected(r) ==
  /\ At(r, "auto", "scenes") /\ scene[r] \in ScenesOf(r)
  /\ Turn(r, scene[r]) /\ StopsScenes(r, scene[r])
  /\ Goto(r, "over")
  /\ Quiet /\ UNCHANGED <<answer, clients>>

\* it returns past the Wait and past the report
StopScenes(r) ==
  /\ At(r, "auto", "scenes") /\ scene[r] \in ScenesOf(r)
  /\ Turn(r, scene[r]) /\ StopsScenes(r, scene[r])
  /\ Goto(r, "disconnect")
  /\ Quiet /\ UNCHANGED <<answer, clients>>

EndScenes(r) ==
  /\ At(r, "auto", "scenes")
  /\ Mode(r) \in {OrderMode, SameMode} => scene[r] > Len(plan[r].scenes) /\ Turn(r, scene[r])
  /\ Goto(r, "wait")
  /\ Quiet /\ UNCHANGED <<answer, clients>>

\* the Wait is forgotten
ReportAtOnce(r) ==
  /\ At(r, "auto", "wait")
  /\ reported' = reported \cup {r} /\ Goto(r, "disconnect")
  /\ UNCHANGED <<plan, answer, clients, busy, draining, stopped, scene, case, running, executed, wg, alive>>

\* wg.Wait and SendStopAutoReport
Report(r) ==
  /\ At(r, "auto", "wait") /\ wg[r] = 0
  /\ reported' = reported \cup {r} /\ Goto(r, "disconnect")
  /\ UNCHANGED <<plan, answer, clients, busy, draining, stopped, scene, case, running, executed, wg, alive>>

\* disposeCase of scene s; a scene without cases is over at once
InScene(r, s) == /\ alive /\ plan[r].kind = "auto" /\ case[r][s] > 0
                 /\ <<s, case[r][s]>> \notin running[r]
Left(r, s)    == case[r][s] \in CasesOf(r, s)

EndScene(r, s) ==
  /\ InScene(r, s) /\ (~Left(r, s) \/ r \in stopped)
  /\ case' = [case EXCEPT ![r][s] = Over]
  /\ wg' = [wg EXCEPT ![r] = @ - IF Mode(r) = SameMode THEN 1 ELSE 0]
  /\ UNCHANGED <<plan, stage, answer, clients, busy, draining, stopped, scene, running, executed, reported, alive>>

\* a case that is not checked, or any case of a mode other than the order mode
SkipCase(r, s) ==
  /\ InScene(r, s) /\ Left(r, s) /\ r \notin stopped
  /\ ~plan[r].scenes[s].cases[case[r][s]] \/ plan[r].caseMode # OrderMode
  /\ case' = [case EXCEPT ![r][s] = @ + 1]
  /\ UNCHANGED <<plan, stage, answer, clients, busy, draining, stopped, scene, running, executed, wg, reported, alive>>

\* DisposeScene dereferences the configuration of the scene
StartCase(r, s) ==
  /\ InScene(r, s) /\ Left(r, s) /\ r \notin stopped
  /\ plan[r].scenes[s].cases[case[r][s]] /\ plan[r].caseMode = OrderMode
  /\ IF plan[r].scenes[s].configured
     THEN /\ running' = [running EXCEPT ![r] = @ \cup {<<s, case[r][s]>>}]
          /\ UNCHANGED <<plan, stage, answer, clients, busy, draining, stopped, scene, case, executed, wg, reported, alive>>
     ELSE Die

EndCase(r, s) ==
  LET c == <<s, case[r][s]>>
  IN  /\ alive /\ plan[r].kind = "auto" /\ c \in running[r]
      /\ running' = [running EXCEPT ![r] = @ \ {c}]
      /\ executed' = [executed EXCEPT ![r] = @ \cup {c}]
      /\ case' = [case EXCEPT ![r][s] = @ + 1]
      /\ UNCHANGED <<plan, stage, answer, clients, busy, draining, stopped, scene, wg, reported, alive>>

\* the management service writes StopAutoPlan:<team>:<plan>:<report>, once, and
\* not when all of it is over, where it changes nothing
StopPlan(r) ==
  /\ alive /\ r \notin stopped /\ plan[r].kind = "auto" /\ answer[r] = "ok" /\ stage[r] \in {"scenes", "wait"}
  /\ stopped' = stopped \cup {r}
  /\ UNCHANGED <<plan, stage, answer, clients, busy, draining, cases, alive>>

-----------------------------------------------------------------------------
Handler(r) == Refuse(r) \/ Accept(r) \/ NewKafkaProducer(r) \/ NewMongoClient(r)
              \/ StartTask(r) \/ DisposeAutoPlan(r)
Task(r)    == TaskDecomposition(r) \/ Disconnect(r) \/ Close(r)
Debug(r)   == Variables(r) \/ StartDebug(r) \/ EndDebug(r)
Scenes(r)  == StartScene(r) \/ StopScenes(r) \/ EndScenes(r) \/ Report(r)
Case(r, s) == EndScene(r, s) \/ SkipCase(r, s) \/ StartCase(r, s) \/ EndCase(r, s)

Main(r)    == Handler(r) \/ Task(r) \/ Debug(r) \/ Scenes(r)

Next == \E r \in Requests : \/ Main(r) \/ EndTask(r)
                            \/ SenderEnds(r) \/ SenderFails(r) \/ LeaveLate(r) \/ StopPlan(r)
                            \/ \E s \in ScenesOf(r) : Case(r, s)

\* A task ends, as TaskIsEnded says of the modes: while somebody drains its channel, and
\* unless an alone threshold mode was left with workers nobody tells to end.
Ends(r) == plan[r].ends /\ r \in draining

\* goroutines are scheduled, and what they execute ends; nobody has to stop a plan
Fairness == \A r \in Requests :
              /\ WF_vars(Main(r)) /\ WF_vars(Ends(r) /\ EndTask(r))
              /\ WF_vars(SenderEnds(r)) /\ WF_vars(LeaveLate(r))
              /\ \A s \in UNION {DOMAIN p.scenes : p \in Plans} : WF_vars(s \in ScenesOf(r) /\ Case(r, s))

Spec == Init /\ [][Next]_vars /\ Fairness

-----------------------------------------------------------------------------
(* Properties *)

Stages == {"received", "variables", "producer", "mongo", "opened", "planned", "scenes", "wait",
           "executing", "disconnect", "close", "over"}

TypeOK ==
  /\ plan \in [Requests -> Plans]
  /\ stage \in [Requests -> Stages]
  /\ answer \in [Requests -> {"none", "ok", "refused", "silent", "panicked"}]
  /\ producer \in [Requests -> {"none", "open", "closed"}]
  /\ mongo \in [Requests -> {"none", "open", "closed"}]
  /\ busy \cup draining \cup stopped \cup reported \subseteq Requests
  /\ wg \in [Requests -> Nat]
  /\ \A r \in Requests :
       /\ scene[r] \in 1..(Len(plan[r].scenes) + 1)
       /\ case[r] \in [ScenesOf(r) -> Nat \cup {Over}]
       /\ running[r] \cup executed[r] \subseteq Checked(r)
  /\ alive \in BOOLEAN

\* In the order mode the scenes of an automation plan are executed one after
\* the other, and in both modes the cases of a scene are: a case runs only when
\* every checked case before it has ended (dispose.go:140 to 155, 188 to 211).
CasesRunInOrder ==
  \A r \in Requests : \A c \in running[r], d \in Checked(r) :
    \/ d[1] = c[1] /\ d[2] < c[2]
    \/ d[1] < c[1] /\ Mode(r) = OrderMode /\ r \notin stopped
    => d \in executed[r]

\* scenes are executed in two modes, but the cases of a scene in the order mode only
ExecutesCases(r) == Mode(r) \in {OrderMode, SameMode} /\ plan[r].caseMode = OrderMode

\* The end of an automation plan is reported when none of its cases is running
\* any more; when nothing stopped it, every checked case has been executed if the
\* code executes the cases of its modes at all, and none if it does not, although
\* mode 2 of the cases should execute them at the same time (auto/task.go:8): the
\* WaitGroup counts exactly the scenes that were started (dispose.go:145 to 177, 207).
ReportedWhenAllRan ==
  \A r \in reported :
    /\ running[r] = {}
    /\ r \notin stopped => executed[r] = IF ExecutesCases(r) THEN Checked(r) ELSE {}

\* A Mongo client is not disconnected under the task, the debugged scene or the
\* case that writes its records with it, nor a producer closed under its sender,
\* except by the two returns that wait for nobody: a stopped automation plan
\* and a stress mode that does not join its workers.
ClientsOutliveTheirUse ==
  \A r \in Requests :
    /\ r \in busy /\ (plan[r].kind = "stress" => plan[r].joins) => mongo[r] = "open"
    /\ running[r] # {} /\ r \notin stopped => mongo[r] = "open"
    /\ r \in draining => producer[r] = "open"

\* What was begun ends while the process lives: its clients are closed, and an
\* automation plan nobody stopped has reported its end.  A stress task whose sender
\* failed may be blocked on the channel nobody drains, and an alone threshold mode
\* may wait for ever (dispose.go:290, errorRateModel.go:176): those stay executing.
RequestsEnd ==
  \A r \in Requests :
    /\ stage[r] \in {"planned", "executing", "scenes"}
         ~> \/ ~alive
            \/ stage[r] = "over" /\ mongo[r] = "closed" /\ producer[r] # "open"
            \/ [](At(r, "stress", "executing") /\ ~Ends(r))
    /\ stage[r] = "scenes" ~> ~alive \/ r \in reported \cup stopped
=============================================================================
