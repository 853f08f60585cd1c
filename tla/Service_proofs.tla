---------------------------- MODULE Service_proofs ----------------------------
(***************************************************************************)
(* The cases of an automation plan run in order, its end is reported when  *)
(* all have run, and clients outlive their use: for every number of        *)
(* requests, scenes and cases.  The invariant has two halves.  ScenesInv   *)
(* relates the loop over the scenes, the cases each scene is at and the    *)
(* WaitGroup; StagesInv relates where a request is to what is left of it.  *)
(***************************************************************************)
EXTENDS Service, FiniteSetTheorems, TLAPS

\* the scenes whose disposeCase has been called and has not returned
Active(r) == {s \in ScenesOf(r) : case[r][s] > 0}

Known(r) == Mode(r) \in {OrderMode, SameMode}

\* The variables of the automation plans are functions of the request.
Domains ==
  /\ DOMAIN scene = Requests /\ DOMAIN case = Requests
  /\ DOMAIN running = Requests /\ DOMAIN executed = Requests

\* The loop has called disposeCase for the scenes before the one it is at, and
\* a scene is at a case behind those that have been executed.
ScenesInv(r) ==
  /\ \A s \in ScenesOf(r) : case[r][s] # 0 <=> s < scene[r]
  /\ scene[r] # 1 => Known(r)
  /\ wg[r] = IF Mode(r) = SameMode THEN Cardinality(Active(r)) ELSE 0
  /\ Mode(r) = OrderMode => \A s, t \in ScenesOf(r) : t < s /\ case[r][s] # 0 => case[r][t] = Over
  /\ \A c \in running[r] : case[r][c[1]] = c[2] /\ plan[r].caseMode = OrderMode
  /\ \A d \in Checked(r) :
       /\ plan[r].caseMode = OrderMode
       /\ d[2] < case[r][d[1]] \/ (case[r][d[1]] = Over /\ r \notin stopped)
       => d \in executed[r]
  /\ executed[r] # {} => Known(r) /\ plan[r].caseMode = OrderMode

\* What is begun only where its client is open, and left only when it is over.
StagesInv(r) ==
  /\ stage[r] \in {"scenes", "wait"} => plan[r].kind = "auto"
  /\ stage[r] \in {"opened", "planned", "executing", "scenes", "wait", "disconnect"} => mongo[r] = "open"
  /\ plan[r].kind = "stress" /\ stage[r] \in {"mongo", "opened"} => producer[r] = "open"
  /\ r \in busy => stage[r] = "executing" \/ (plan[r].kind = "stress" /\ ~plan[r].joins)
  /\ r \in draining => /\ producer[r] = "open"
                       /\ stage[r] \in {"planned", "executing", "disconnect", "close", "over"}
                       /\ plan[r].kind = "stress"
  /\ Active(r) # {} => \/ stage[r] = "scenes"
                       \/ Mode(r) = SameMode /\ (stage[r] = "wait" \/ r \in stopped)
  /\ stage[r] = "wait" /\ Known(r) => scene[r] > Len(plan[r].scenes)
  /\ r \in reported => /\ stage[r] \in {"disconnect", "over"} /\ Active(r) = {} /\ plan[r].kind = "auto"
                       /\ Known(r) => scene[r] > Len(plan[r].scenes)

Inv == /\ TypeOK /\ Domains
       /\ \A r \in Requests : ScenesInv(r) /\ StagesInv(r)

-----------------------------------------------------------------------------
(* What the plans look like *)

LEMMA PlanShape ==
  ASSUME TypeOK, NEW r \in Requests
  PROVE  /\ Len(plan[r].scenes) \in Nat
         /\ ScenesOf(r) = 1..Len(plan[r].scenes)
         /\ \A s \in ScenesOf(r) : /\ Len(plan[r].scenes[s].cases) \in Nat
                                   /\ CasesOf(r, s) = 1..Len(plan[r].scenes[s].cases)
<1>1. plan[r] \in Plans
  BY DEF TypeOK
<1> DEFINE S == [cases : Seq(BOOLEAN), configured : BOOLEAN, ids : BOOLEAN]
<1>2. plan[r].scenes \in Seq(S)
  BY <1>1, PlansAssumption
<1>3. \A s \in ScenesOf(r) : plan[r].scenes[s].cases \in Seq(BOOLEAN)
  <2>1. \A s \in ScenesOf(r) : plan[r].scenes[s] \in S
    <3> HIDE DEF S
    <3>1. QED
      BY <1>2 DEF ScenesOf
  <2>2. QED
    BY <2>1
<1>4. Len(plan[r].scenes) \in Nat /\ ScenesOf(r) = 1..Len(plan[r].scenes)
  BY <1>2 DEF ScenesOf
<1>5. ASSUME NEW s \in ScenesOf(r)
      PROVE  /\ Len(plan[r].scenes[s].cases) \in Nat
             /\ CasesOf(r, s) = 1..Len(plan[r].scenes[s].cases)
  <2>1. plan[r].scenes[s].cases \in Seq(BOOLEAN)
    BY <1>3, <1>5
  <2>2. QED
    BY <2>1 DEF CasesOf
<1>6. QED
  BY <1>4, <1>5

\* a checked case is one of the cases of one of the scenes
LEMMA CheckedShape ==
  ASSUME TypeOK, NEW r \in Requests
  PROVE  \A d \in Checked(r) : /\ d = <<d[1], d[2]>>
                               /\ d[1] \in ScenesOf(r) /\ d[2] \in CasesOf(r, d[1])
                               /\ d[2] \in Nat \ {0}
                               /\ plan[r].scenes[d[1]].cases[d[2]]
<1>1. SUFFICES ASSUME NEW d \in Checked(r)
               PROVE  /\ d = <<d[1], d[2]>>
                      /\ d[1] \in ScenesOf(r) /\ d[2] \in CasesOf(r, d[1])
                      /\ d[2] \in Nat \ {0}
                      /\ plan[r].scenes[d[1]].cases[d[2]]
  OBVIOUS
<1>2. PICK s \in ScenesOf(r) : d \in {s} \X CasesOf(r, s)
  BY DEF Checked
<1>3. d = <<d[1], d[2]>> /\ d[1] = s /\ d[2] \in CasesOf(r, s)
  BY <1>2
<1>4. plan[r].scenes[d[1]].cases[d[2]]
  BY DEF Checked
<1>5. QED
  BY <1>3, <1>4, PlanShape

LEMMA ActiveFinite ==
  ASSUME TypeOK, NEW r \in Requests
  PROVE  /\ IsFiniteSet(Active(r))
         /\ Cardinality(Active(r)) \in Nat
         /\ Cardinality(Active(r)) = 0 => Active(r) = {}
<1>1. IsFiniteSet(ScenesOf(r))
  BY PlanShape, FS_Interval
<1>2. IsFiniteSet(Active(r))
  BY <1>1, FS_Subset DEF Active
<1>3. QED
  BY <1>2, FS_CardinalityType, FS_EmptySet

-----------------------------------------------------------------------------
(* The first state *)

LEMMA InitInv == Init => Inv
<1> SUFFICES ASSUME Init PROVE Inv
  OBVIOUS
<1>1. TypeOK
  <2>1. \A r \in Requests : Len(plan[r].scenes) \in Nat
    BY PlansAssumption DEF Init
  <2>2. QED
    BY <2>1 DEF Init, TypeOK, Stages, Checked
<1>2. Domains
  BY DEF Init, Domains
<1>3. ASSUME NEW r \in Requests
      PROVE  ScenesInv(r) /\ StagesInv(r)
  <2>1. Active(r) = {}
    BY <1>3 DEF Init, Active
  <2>2. \A s \in ScenesOf(r) : case[r][s] = 0 /\ ~(s < scene[r])
    BY <1>1, <1>3, PlanShape DEF Init
  <2>3. ScenesInv(r)
    BY <1>1, <1>3, <2>1, <2>2, CheckedShape, FS_EmptySet DEF Init, ScenesInv, Over
  <2>4. StagesInv(r)
    BY <1>3, <2>1 DEF Init, StagesInv
  <2>5. QED
    BY <2>3, <2>4
<1>4. QED
  BY <1>1, <1>2, <1>3 DEF Inv

-----------------------------------------------------------------------------
(* A step that leaves the automation plans alone, but for a stop *)

Scenery == <<plan, scene, case, running, executed, wg>>

LEMMA SceneryKept ==
  ASSUME Inv, UNCHANGED Scenery, stopped \subseteq stopped'
  PROVE  /\ Domains'
         /\ \A r \in Requests : /\ ScenesInv(r)' /\ Active(r)' = Active(r)
                                /\ Known(r)' <=> Known(r)
                                /\ Mode(r)' = Mode(r)
<1>1. Domains'
  BY DEF Inv, Domains, Scenery
<1>2. ASSUME NEW r \in Requests
      PROVE  /\ ScenesInv(r)' /\ Active(r)' = Active(r)
             /\ Known(r)' <=> Known(r)
             /\ Mode(r)' = Mode(r)
  <2>1. /\ Mode(r)' = Mode(r) /\ Checked(r)' = Checked(r) /\ ScenesOf(r)' = ScenesOf(r)
        /\ Active(r)' = Active(r)
    BY DEF Mode, Checked, ScenesOf, CasesOf, Active, Scenery
  <2>2. Known(r)' <=> Known(r)
    BY <2>1 DEF Known
  <2>3. ScenesInv(r)'
    BY <1>2, <2>1, <2>2 DEF Inv, ScenesInv, Scenery
  <2>4. QED
    BY <2>1, <2>2, <2>3
<1>3. QED
  BY <1>1, <1>2

LEMMA TypesKept ==
  ASSUME TypeOK, UNCHANGED Scenery,
         stage' \in [Requests -> Stages],
         answer' \in [Requests -> {"none", "ok", "refused", "silent", "panicked"}],
         producer' \in [Requests -> {"none", "open", "closed"}],
         mongo' \in [Requests -> {"none", "open", "closed"}],
         busy' \cup draining' \cup stopped' \cup reported' \subseteq Requests,
         alive' \in BOOLEAN
  PROVE  TypeOK'
BY DEF TypeOK, Scenery, Checked, ScenesOf, CasesOf

\* what is left to show of such a step
LEMMA SceneryStep ==
  ASSUME Inv, UNCHANGED Scenery, stopped \subseteq stopped',
         stage' \in [Requests -> Stages],
         answer' \in [Requests -> {"none", "ok", "refused", "silent", "panicked"}],
         producer' \in [Requests -> {"none", "open", "closed"}],
         mongo' \in [Requests -> {"none", "open", "closed"}],
         busy' \cup draining' \cup stopped' \cup reported' \subseteq Requests,
         alive' \in BOOLEAN,
         \A r \in Requests : StagesInv(r)'
  PROVE  Inv'
BY SceneryKept, TypesKept DEF Inv

\* Where the loop may leave, no scene of the order mode is active any more.
LEMMA InTurnNoneActive ==
  ASSUME Inv, NEW r \in Requests, Mode(r) # SameMode,
         Mode(r) = OrderMode => Turn(r, scene[r])
  PROVE  Active(r) = {}
<1>1. SUFFICES ASSUME NEW s \in ScenesOf(r), case[r][s] > 0 PROVE FALSE
  BY DEF Active
<1>2. s < scene[r] /\ scene[r] # 1 /\ s \in Nat \ {0} /\ scene[r] \in Nat
  <2>1. case[r][s] \in Nat \cup {Over} /\ scene[r] \in 1..(Len(plan[r].scenes) + 1)
    BY DEF Inv, TypeOK
  <2>2. s \in 1..Len(plan[r].scenes) /\ Len(plan[r].scenes) \in Nat
    BY PlanShape DEF Inv
  <2>3. case[r][s] # 0
    BY <1>1, <2>1 DEF Over
  <2>4. s < scene[r]
    BY <2>3 DEF Inv, ScenesInv
  <2>5. QED
    BY <2>1, <2>2, <2>4
<1>3. Mode(r) = OrderMode
  BY <1>2 DEF Inv, ScenesInv, Known
<1>4. case[r][s] = Over
  BY <1>2, <1>3 DEF Turn, SameMode, OrderMode
<1>5. QED
  BY <1>1, <1>4 DEF Over

LEMMA HandlerStep ==
  ASSUME Inv, NEW r \in Requests, Handler(r)
  PROVE  Inv'
<1> USE DEF Quiet, Goto, Answer, Set, At, clients, cases
<1>1. UNCHANGED Scenery /\ UNCHANGED <<stopped, reported, busy, alive>>
  BY DEF Handler, Refuse, Accept, NewKafkaProducer, NewMongoClient, StartTask, DisposeAutoPlan, Scenery
<1>2. \A q \in Requests : Active(q)' = Active(q) /\ Mode(q)' = Mode(q) /\ (Known(q)' <=> Known(q))
  BY <1>1, SceneryKept
<1>3. /\ stage' \in [Requests -> Stages]
      /\ answer' \in [Requests -> {"none", "ok", "refused", "silent", "panicked"}]
      /\ producer' \in [Requests -> {"none", "open", "closed"}]
      /\ mongo' \in [Requests -> {"none", "open", "closed"}]
      /\ draining' \subseteq Requests
  <2>1. CASE Refuse(r)
    BY <2>1 DEF Inv, TypeOK, Stages, Refuse, Refusal
  <2>2. CASE Accept(r)
    BY <2>2 DEF Inv, TypeOK, Stages, Accept
  <2>3. CASE NewKafkaProducer(r)
    <3>1. producer' \in [Requests -> {"none", "open", "closed"}] /\ mongo' = mongo /\ draining' = draining
      BY <2>3 DEF Inv, TypeOK, NewKafkaProducer
    <3>2. stage' \in [Requests -> Stages]
      <4>1. stage' = [stage EXCEPT ![r] = "mongo"] \/ stage' = [stage EXCEPT ![r] = "over"]
        BY <2>3 DEF NewKafkaProducer
      <4>2. QED
        BY <4>1 DEF Inv, TypeOK, Stages
    <3>3. answer' \in [Requests -> {"none", "ok", "refused", "silent", "panicked"}]
      BY <2>3 DEF Inv, TypeOK, NewKafkaProducer
    <3>4. QED
      BY <3>1, <3>2, <3>3 DEF Inv, TypeOK
  <2>4. CASE NewMongoClient(r)
    <3>1. mongo' \in [Requests -> {"none", "open", "closed"}] /\ producer' = producer /\ draining' = draining
      BY <2>4 DEF Inv, TypeOK, NewMongoClient
    <3>2. stage' \in [Requests -> Stages]
      <4>1. stage' = [stage EXCEPT ![r] = "opened"] \/ stage' = [stage EXCEPT ![r] = "over"]
        BY <2>4 DEF NewMongoClient
      <4>2. QED
        BY <4>1 DEF Inv, TypeOK, Stages
    <3>3. answer' \in [Requests -> {"none", "ok", "refused", "silent", "panicked"}]
      BY <2>4 DEF Inv, TypeOK, NewMongoClient
    <3>4. QED
      BY <3>1, <3>2, <3>3 DEF Inv, TypeOK
  <2>5. CASE StartTask(r)
    BY <2>5 DEF Inv, TypeOK, Stages, StartTask
  <2>6. CASE DisposeAutoPlan(r)
    BY <2>6 DEF Inv, TypeOK, Stages, DisposeAutoPlan
  <2>7. QED
    BY <2>1, <2>2, <2>3, <2>4, <2>5, <2>6 DEF Handler
<1>4. ASSUME NEW q \in Requests
      PROVE  StagesInv(q)'
  <2> USE DEF Inv, TypeOK, StagesInv, Scenery
  <2>1. CASE Refuse(r)
    BY <1>1, <1>2, <1>4, <2>1 DEF Refuse
  <2>2. CASE Accept(r)
    BY <1>1, <1>2, <1>4, <2>2 DEF Accept
  <2>3. CASE NewKafkaProducer(r)
    BY <1>1, <1>2, <1>4, <2>3 DEF NewKafkaProducer
  <2>4. CASE NewMongoClient(r)
    BY <1>1, <1>2, <1>4, <2>4 DEF NewMongoClient
  <2>5. CASE StartTask(r)
    BY <1>1, <1>2, <1>4, <2>5 DEF StartTask
  <2>6. CASE DisposeAutoPlan(r)
    BY <1>1, <1>2, <1>4, <2>6 DEF DisposeAutoPlan
  <2>7. QED
    BY <2>1, <2>2, <2>3, <2>4, <2>5, <2>6 DEF Handler
<1>5. QED
  BY <1>1, <1>3, <1>4, SceneryStep DEF Inv, TypeOK

\* The steps of a task, of debugging, of the senders, and a stop.
Outer(r) == \/ Task(r) \/ EndTask(r) \/ Debug(r) \/ StopScenes(r) \/ EndScenes(r)
            \/ SenderEnds(r) \/ SenderFails(r) \/ LeaveLate(r) \/ StopPlan(r)

LEMMA OuterStep ==
  ASSUME Inv, NEW r \in Requests, Outer(r)
  PROVE  Inv'
<1> USE DEF Quiet, Goto, Set, At, Die, clients, cases
<1>1. UNCHANGED Scenery /\ stopped \subseteq stopped' /\ UNCHANGED <<reported, answer>>
  <2>1. ASSUME Task(r) \/ EndTask(r) PROVE UNCHANGED Scenery /\ UNCHANGED <<stopped, reported, answer>>
    BY <2>1 DEF Task, TaskDecomposition, EndTask, Disconnect, Close, Scenery
  <2>2. ASSUME Debug(r) PROVE UNCHANGED Scenery /\ UNCHANGED <<stopped, reported, answer>>
    BY <2>2 DEF Debug, Variables, StartDebug, EndDebug, Scenery
  <2>3. ASSUME StopScenes(r) \/ EndScenes(r) PROVE UNCHANGED Scenery /\ UNCHANGED <<stopped, reported, answer>>
    BY <2>3 DEF StopScenes, EndScenes, Scenery
  <2>4. ASSUME SenderEnds(r) \/ SenderFails(r) \/ LeaveLate(r)
        PROVE  UNCHANGED Scenery /\ UNCHANGED <<stopped, reported, answer>>
    BY <2>4 DEF SenderEnds, SenderFails, CloseProducer, LeaveLate, Scenery
  <2>5. ASSUME StopPlan(r) PROVE UNCHANGED Scenery /\ stopped \subseteq stopped' /\ UNCHANGED <<reported, answer>>
    BY <2>5 DEF StopPlan, Scenery
  <2>6. QED
    BY <2>1, <2>2, <2>3, <2>4, <2>5 DEF Outer
<1>2. \A q \in Requests : Active(q)' = Active(q) /\ Mode(q)' = Mode(q) /\ (Known(q)' <=> Known(q))
  BY <1>1, SceneryKept
<1>3. /\ stage' \in [Requests -> Stages]
      /\ producer' \in [Requests -> {"none", "open", "closed"}]
      /\ mongo' \in [Requests -> {"none", "open", "closed"}]
      /\ busy' \cup draining' \cup stopped' \subseteq Requests
      /\ alive' \in BOOLEAN
  <2> USE DEF Inv, TypeOK
  <2>1. CASE TaskDecomposition(r) \/ EndTask(r)
    <3>1. CASE TaskDecomposition(r)
      <4>1. CASE plan[r].configured
        <5>1. /\ stage' = [stage EXCEPT ![r] = "executing"] /\ busy' = busy \cup {r}
              /\ UNCHANGED <<producer, mongo, draining, stopped, alive>>
          BY <3>1, <4>1 DEF TaskDecomposition
        <5>2. QED
          BY <5>1 DEF Stages
      <4>2. CASE ~plan[r].configured
        BY <3>1, <4>2 DEF TaskDecomposition
      <4>3. QED
        BY <4>1, <4>2
    <3>2. CASE EndTask(r)
      BY <3>2 DEF EndTask, Stages
    <3>3. QED
      BY <2>1, <3>1, <3>2
  <2>2. CASE Disconnect(r)
    <3>1. stage' = [stage EXCEPT ![r] = "close"] \/ stage' = [stage EXCEPT ![r] = "over"]
      BY <2>2 DEF Disconnect
    <3>2. stage' \in [Requests -> Stages]
      BY <3>1 DEF Stages
    <3>3. QED
      BY <2>2, <3>2 DEF Disconnect
  <2>3. CASE Close(r)
    BY <2>3 DEF Close, Stages
  <2>4. CASE Variables(r)
    BY <2>4 DEF Variables, Stages
  <2>5. CASE StartDebug(r)
    BY <2>5 DEF StartDebug, Stages
  <2>6. CASE EndDebug(r)
    BY <2>6 DEF EndDebug, Stages
  <2>7. CASE StopScenes(r)
    BY <2>7 DEF StopScenes, Stages
  <2>8. CASE EndScenes(r)
    BY <2>8 DEF EndScenes, Stages
  <2>9. CASE SenderEnds(r) \/ SenderFails(r)
    BY <2>9 DEF SenderEnds, SenderFails, CloseProducer
  <2>10. CASE LeaveLate(r) \/ StopPlan(r)
    BY <2>10 DEF LeaveLate, StopPlan
  <2>11. QED
    BY <2>1, <2>2, <2>3, <2>4, <2>5, <2>6, <2>7, <2>8, <2>9, <2>10 DEF Outer, Task, Debug
<1>4. ASSUME NEW q \in Requests
      PROVE  StagesInv(q)'
  <2> USE DEF Inv, TypeOK, StagesInv, Scenery
  <2>1. CASE TaskDecomposition(r)
    <3>1. CASE plan[r].configured
      BY <1>1, <1>2, <1>4, <2>1, <3>1 DEF TaskDecomposition
    <3>2. CASE ~plan[r].configured
      BY <1>1, <1>2, <1>4, <2>1, <3>2 DEF TaskDecomposition
    <3>3. QED
      BY <3>1, <3>2
  <2>2. CASE EndTask(r)
    BY <1>1, <1>2, <1>4, <2>2 DEF EndTask
  <2>3. CASE Disconnect(r) \/ Close(r)
    <3>1. CASE Disconnect(r)
      BY <1>1, <1>2, <1>4, <3>1 DEF Disconnect
    <3>2. CASE Close(r)
      BY <1>1, <1>2, <1>4, <3>2 DEF Close
    <3>3. QED
      BY <2>3, <3>1, <3>2
  <2>4. CASE Variables(r) \/ StartDebug(r) \/ EndDebug(r)
    BY <1>1, <1>2, <1>4, <2>4 DEF Variables, StartDebug, EndDebug
  <2>5. CASE StopScenes(r)
    <3>1. Mode(r) # SameMode => Active(r) = {}
      BY <2>5, InTurnNoneActive DEF StopScenes
    <3>2. r \in stopped
      BY <2>5 DEF StopScenes, StopsScenes
    <3>3. QED
      BY <1>1, <1>2, <1>4, <2>5, <3>1, <3>2 DEF StopScenes
  <2>6. CASE EndScenes(r)
    <3>1. Mode(r) # SameMode => Active(r) = {}
      BY <2>6, InTurnNoneActive DEF EndScenes
    <3>2. Known(r) => scene[r] > Len(plan[r].scenes)
      BY <2>6 DEF EndScenes, Known
    <3>3. QED
      BY <1>1, <1>2, <1>4, <2>6, <3>1, <3>2 DEF EndScenes
  <2>7. CASE SenderEnds(r) \/ SenderFails(r)
    BY <1>1, <1>2, <1>4, <2>7 DEF SenderEnds, SenderFails, CloseProducer
  <2>8. CASE LeaveLate(r) \/ StopPlan(r)
    BY <1>1, <1>2, <1>4, <2>8 DEF LeaveLate, StopPlan
  <2>9. QED
    BY <2>1, <2>2, <2>3, <2>4, <2>5, <2>6, <2>7, <2>8 DEF Outer, Task, Debug
<1>5. QED
  BY <1>1, <1>3, <1>4, SceneryStep DEF Inv, TypeOK

-----------------------------------------------------------------------------
(* The steps of the scenes and cases of one automation plan *)

\* all they leave alone of the other requests
Others(r) == \A q \in Requests \ {r} :
  /\ scene'[q] = scene[q] /\ case'[q] = case[q] /\ wg'[q] = wg[q]
  /\ running'[q] = running[q] /\ executed'[q] = executed[q]

Around == <<plan, stage, answer, clients, busy, draining, stopped>>

LEMMA OthersKept ==
  ASSUME Inv, NEW r \in Requests, Others(r), UNCHANGED <<Around, reported>>
  PROVE  \A q \in Requests \ {r} : ScenesInv(q)' /\ StagesInv(q)'
<1>1. ASSUME NEW q \in Requests \ {r}
      PROVE  ScenesInv(q)' /\ StagesInv(q)'
  <2>1. /\ Mode(q)' = Mode(q) /\ Checked(q)' = Checked(q) /\ ScenesOf(q)' = ScenesOf(q)
        /\ Active(q)' = Active(q)
    BY <1>1 DEF Mode, Checked, ScenesOf, CasesOf, Active, Around, Others
  <2>2. Known(q)' <=> Known(q)
    BY <2>1 DEF Known
  <2>3. ScenesInv(q)'
    BY <1>1, <2>1, <2>2 DEF Inv, ScenesInv, Around, Others
  <2>4. StagesInv(q)'
    BY <1>1, <2>1, <2>2 DEF Inv, StagesInv, Around, Others, clients
  <2>5. QED
    BY <2>3, <2>4
<1>2. QED
  BY <1>1

\* what is left to show of such a step
LEMMA OneRequestStep ==
  ASSUME Inv, NEW r \in Requests, Others(r), UNCHANGED <<Around, reported>>, alive' \in BOOLEAN,
         Domains', ScenesInv(r)', StagesInv(r)',
         wg' \in [Requests -> Nat],
         scene'[r] \in 1..(Len(plan[r].scenes) + 1),
         case'[r] \in [ScenesOf(r) -> Nat \cup {Over}],
         running'[r] \cup executed'[r] \subseteq Checked(r)
  PROVE  Inv'
<1>1. \A q \in Requests : ScenesInv(q)' /\ StagesInv(q)'
  BY OthersKept
<1>2. \A q \in Requests : ScenesOf(q)' = ScenesOf(q) /\ Checked(q)' = Checked(q)
  BY DEF ScenesOf, Checked, CasesOf, Around
<1>3. ASSUME NEW q \in Requests
      PROVE  /\ scene'[q] \in 1..(Len(plan'[q].scenes) + 1)
             /\ case'[q] \in [ScenesOf(q)' -> Nat \cup {Over}]
             /\ running'[q] \cup executed'[q] \subseteq Checked(q)'
  <2>1. CASE q = r
    BY <1>2, <2>1 DEF Around
  <2>2. CASE q # r
    BY <1>2, <1>3, <2>2 DEF Inv, TypeOK, Others, Around
  <2>3. QED
    BY <2>1, <2>2
<1>4. TypeOK'
  BY <1>3 DEF Inv, TypeOK, Around, clients
<1>5. QED
  BY <1>1, <1>4 DEF Inv

\* The scene that is started was not active, and is counted in.
LEMMA StartSceneStep ==
  ASSUME Inv, NEW r \in Requests, StartScene(r)
  PROVE  Inv'
<1> DEFINE s == scene[r]
<1>1. /\ s \in ScenesOf(r) /\ Turn(r, s) /\ alive /\ plan[r].kind = "auto" /\ stage[r] = "scenes"
      /\ scene' = [scene EXCEPT ![r] = s + 1]
      /\ case' = [case EXCEPT ![r][s] = 1]
      /\ wg' = [wg EXCEPT ![r] = @ + IF Mode(r) = SameMode THEN 1 ELSE 0]
      /\ UNCHANGED <<Around, reported, running, executed, alive>>
  BY DEF StartScene, At, Around
<1>2. /\ s \in 1..Len(plan[r].scenes) /\ Len(plan[r].scenes) \in Nat
      /\ ScenesOf(r) = 1..Len(plan[r].scenes)
      /\ case[r] \in [ScenesOf(r) -> Nat \cup {Over}]
  BY <1>1, PlanShape DEF Inv, TypeOK
<1>3. /\ Domains' /\ Others(r)
      /\ scene'[r] = s + 1 /\ case'[r] = [case[r] EXCEPT ![s] = 1]
      /\ running'[r] = running[r] /\ executed'[r] = executed[r]
  BY <1>1 DEF Inv, Domains, Others
<1>4. /\ Mode(r)' = Mode(r) /\ Checked(r)' = Checked(r) /\ ScenesOf(r)' = ScenesOf(r)
      /\ Known(r)' = Known(r)
  BY <1>1 DEF Mode, Checked, ScenesOf, CasesOf, Around, Known
<1>5. case[r][s] = 0 /\ Known(r)
  BY <1>1, <1>2 DEF Inv, ScenesInv, Turn, Known
<1>6. Active(r)' = Active(r) \cup {s} /\ s \notin Active(r)
  BY <1>2, <1>3, <1>4, <1>5 DEF Active, Over
<1>7. Cardinality(Active(r)') = Cardinality(Active(r)) + 1 /\ Cardinality(Active(r)) \in Nat
  <2>1. IsFiniteSet(Active(r)) /\ Cardinality(Active(r)) \in Nat
    BY ActiveFinite DEF Inv
  <2>2. Cardinality(Active(r) \cup {s}) = Cardinality(Active(r)) + 1
    BY <1>6, <2>1, FS_AddElement
  <2>3. QED
    BY <1>6, <2>1, <2>2
<1>8. wg' \in [Requests -> Nat] /\ wg'[r] = IF Mode(r) = SameMode THEN Cardinality(Active(r)') ELSE 0
  BY <1>1, <1>7 DEF Inv, TypeOK, ScenesInv, OrderMode, SameMode
<1>9. ScenesInv(r)'
  <2>1. \A t \in ScenesOf(r) : case'[r][t] # 0 <=> t < scene'[r]
    BY <1>2, <1>3 DEF Inv, ScenesInv
  <2>2. Mode(r) = OrderMode =>
          \A u, t \in ScenesOf(r) : t < u /\ case'[r][u] # 0 => case'[r][t] = Over
    <3>1. SUFFICES ASSUME Mode(r) = OrderMode, NEW u \in ScenesOf(r), NEW t \in ScenesOf(r),
                          t < u, case'[r][u] # 0
                   PROVE  case'[r][t] = Over
      OBVIOUS
    <3>2. u < s + 1 /\ t < s
      BY <1>2, <1>3, <2>1, <3>1
    <3>3. case[r][t] = Over
      BY <1>1, <1>2, <3>1, <3>2 DEF Turn, SameMode, OrderMode
    <3>4. QED
      BY <1>2, <1>3, <3>2, <3>3
  <2>3. \A c \in running[r] : case'[r][c[1]] = c[2] /\ plan[r].caseMode = OrderMode
    <3>1. SUFFICES ASSUME NEW c \in running[r]
                   PROVE  case'[r][c[1]] = c[2] /\ plan[r].caseMode = OrderMode
      OBVIOUS
    <3>2. c \in Checked(r) /\ case[r][c[1]] = c[2] /\ plan[r].caseMode = OrderMode
      BY <3>1 DEF Inv, TypeOK, ScenesInv
    <3>3. c[1] \in ScenesOf(r) /\ c[2] # 0
      BY <3>2, CheckedShape DEF Inv
    <3>4. QED
      BY <1>3, <1>5, <3>2, <3>3
  <2>4. \A d \in Checked(r) :
          /\ plan[r].caseMode = OrderMode
          /\ d[2] < case'[r][d[1]] \/ (case'[r][d[1]] = Over /\ r \notin stopped)
          => d \in executed[r]
    <3>1. SUFFICES ASSUME NEW d \in Checked(r), plan[r].caseMode = OrderMode,
                          d[2] < case'[r][d[1]] \/ (case'[r][d[1]] = Over /\ r \notin stopped)
                   PROVE  d \in executed[r]
      OBVIOUS
    <3>2. d[1] \in ScenesOf(r) /\ d[2] \in Nat \ {0}
      BY <3>1, CheckedShape DEF Inv
    <3>3. d[1] # s
      BY <1>2, <1>3, <3>1, <3>2 DEF Over
    <3>4. case'[r][d[1]] = case[r][d[1]]
      BY <1>2, <1>3, <3>2, <3>3
    <3>5. QED
      BY <3>1, <3>4 DEF Inv, ScenesInv
  <2>5. executed'[r] # {} => Known(r) /\ plan[r].caseMode = OrderMode
    BY <1>3 DEF Inv, ScenesInv
  <2>6. QED
    BY <1>1, <1>3, <1>4, <1>5, <1>8, <2>1, <2>2, <2>3, <2>4, <2>5 DEF ScenesInv, Around
<1>10. StagesInv(r)'
  BY <1>1, <1>4, <1>6 DEF Inv, StagesInv, Around, clients
<1>11. /\ scene'[r] \in 1..(Len(plan[r].scenes) + 1)
       /\ case'[r] \in [ScenesOf(r) -> Nat \cup {Over}]
       /\ running'[r] \cup executed'[r] \subseteq Checked(r)
  BY <1>2, <1>3 DEF Inv, TypeOK
<1>12. QED
  BY <1>1, <1>3, <1>8, <1>9, <1>10, <1>11, OneRequestStep DEF Inv, TypeOK

\* The report comes when the WaitGroup is at zero: nothing is active.
LEMMA ReportStep ==
  ASSUME Inv, NEW r \in Requests, Report(r)
  PROVE  Inv'
<1>1. /\ alive /\ plan[r].kind = "auto" /\ stage[r] = "wait" /\ wg[r] = 0
      /\ stage' = [stage EXCEPT ![r] = "disconnect"]
      /\ reported' = reported \cup {r}
      /\ UNCHANGED <<Scenery, answer, clients, busy, draining, stopped, alive>>
  BY DEF Report, At, Goto, Scenery
<1>2. Active(r) = {}
  <2>1. CASE Mode(r) = SameMode
    <3>1. Cardinality(Active(r)) = 0
      BY <1>1, <2>1 DEF Inv, ScenesInv
    <3>2. QED
      BY <3>1, ActiveFinite DEF Inv
  <2>2. CASE Mode(r) # SameMode
    BY <1>1, <2>2 DEF Inv, StagesInv
  <2>3. QED
    BY <2>1, <2>2
<1>3. \A q \in Requests : Active(q)' = Active(q) /\ Mode(q)' = Mode(q) /\ (Known(q)' <=> Known(q))
  BY <1>1, SceneryKept
<1>4. ASSUME NEW q \in Requests
      PROVE  StagesInv(q)'
  BY <1>1, <1>2, <1>3, <1>4 DEF Inv, TypeOK, StagesInv, Scenery, clients
<1>5. stage' \in [Requests -> Stages] /\ reported' \subseteq Requests
  BY <1>1 DEF Inv, TypeOK, Stages
<1>6. QED
  BY <1>1, <1>4, <1>5, SceneryStep DEF Inv, TypeOK, clients

\* An active scene moves on to its case v, or is over.
LEMMA CaseStep ==
  ASSUME Inv, NEW r \in Requests, NEW s \in ScenesOf(r), case[r][s] > 0,
         NEW v \in (Nat \ {0}) \cup {Over},
         Others(r), UNCHANGED <<Around, reported, scene>>, alive' \in BOOLEAN, Domains',
         case'[r] = [case[r] EXCEPT ![s] = v],
         wg' = [wg EXCEPT ![r] = @ - IF v = Over /\ Mode(r) = SameMode THEN 1 ELSE 0],
         running'[r] \cup executed'[r] \subseteq Checked(r),
         executed[r] \subseteq executed'[r],
         executed'[r] # executed[r] => plan[r].caseMode = OrderMode,
         \A c \in running'[r] : /\ c[1] = s => c[2] = v /\ plan[r].caseMode = OrderMode
                                /\ c[1] # s => c \in running[r],
         \A d \in Checked(r) :
           /\ plan[r].caseMode = OrderMode /\ d[1] = s
           /\ d[2] < v \/ (v = Over /\ r \notin stopped)
           => d \in executed'[r]
  PROVE  Inv'
<1>1. /\ Mode(r)' = Mode(r) /\ Checked(r)' = Checked(r) /\ ScenesOf(r)' = ScenesOf(r)
      /\ Known(r)' = Known(r)
  BY DEF Mode, Checked, ScenesOf, CasesOf, Around, Known
<1>2. case[r] \in [ScenesOf(r) -> Nat \cup {Over}] /\ case'[r] \in [ScenesOf(r) -> Nat \cup {Over}]
  BY DEF Inv, TypeOK
<1>3. /\ s \in Active(r)
      /\ Active(r)' = IF v = Over THEN Active(r) \ {s} ELSE Active(r)
  BY <1>1, <1>2 DEF Active, Over
<1>4. /\ wg' \in [Requests -> Nat]
      /\ wg'[r] = IF Mode(r) = SameMode THEN Cardinality(Active(r)') ELSE 0
  <2>1. IsFiniteSet(Active(r)) /\ Cardinality(Active(r)) \in Nat /\ Cardinality(Active(r)) # 0
    BY <1>3, ActiveFinite DEF Inv
  <2>2. Cardinality(Active(r) \ {s}) = Cardinality(Active(r)) - 1
    BY <1>3, <2>1, FS_RemoveElement
  <2>3. Cardinality(Active(r)') = Cardinality(Active(r)) - IF v = Over THEN 1 ELSE 0
    BY <1>3, <2>1, <2>2
  <2>4. QED
    BY <2>1, <2>3 DEF Inv, TypeOK, ScenesInv
<1>5. ScenesInv(r)'
  <2>1. \A t \in ScenesOf(r) : case'[r][t] # 0 <=> t < scene'[r]
    BY <1>2 DEF Inv, ScenesInv, Over
  <2>2. Mode(r) = OrderMode =>
          \A u, t \in ScenesOf(r) : t < u /\ case'[r][u] # 0 => case'[r][t] = Over
    <3>1. SUFFICES ASSUME Mode(r) = OrderMode, NEW u \in ScenesOf(r), NEW t \in ScenesOf(r),
                          t < u, case'[r][u] # 0
                   PROVE  case'[r][t] = Over
      OBVIOUS
    <3>2. case[r][u] # 0
      BY <1>2, <3>1
    <3>3. case[r][t] = Over
      BY <3>1, <3>2 DEF Inv, ScenesInv
    <3>4. t # s
      BY <3>3 DEF Over
    <3>5. QED
      BY <1>2, <3>3, <3>4
  <2>3. \A c \in running'[r] : case'[r][c[1]] = c[2] /\ plan[r].caseMode = OrderMode
    <3>1. SUFFICES ASSUME NEW c \in running'[r]
                   PROVE  case'[r][c[1]] = c[2] /\ plan[r].caseMode = OrderMode
      OBVIOUS
    <3>2. c[1] \in ScenesOf(r)
      BY <3>1, CheckedShape DEF Inv
    <3>3. CASE c[1] = s
      BY <1>2, <3>1, <3>3
    <3>4. CASE c[1] # s
      BY <1>2, <3>1, <3>2, <3>4 DEF Inv, ScenesInv
    <3>5. QED
      BY <3>3, <3>4
  <2>4. \A d \in Checked(r) :
          /\ plan[r].caseMode = OrderMode
          /\ d[2] < case'[r][d[1]] \/ (case'[r][d[1]] = Over /\ r \notin stopped)
          => d \in executed'[r]
    <3>1. SUFFICES ASSUME NEW d \in Checked(r), plan[r].caseMode = OrderMode,
                          d[2] < case'[r][d[1]] \/ (case'[r][d[1]] = Over /\ r \notin stopped)
                   PROVE  d \in executed'[r]
      OBVIOUS
    <3>2. d[1] \in ScenesOf(r)
      BY <3>1, CheckedShape DEF Inv
    <3>3. CASE d[1] = s
      BY <1>2, <3>1, <3>3
    <3>4. CASE d[1] # s
      BY <1>2, <3>1, <3>2, <3>4 DEF Inv, ScenesInv
    <3>5. QED
      BY <3>3, <3>4
  <2>5. scene'[r] # 1 => Known(r)
    BY DEF Inv, ScenesInv
  <2>6. Known(r)
    <3>1. case[r][s] # 0
      BY <1>2
    <3>2. s < scene[r] /\ scene[r] \in 1..(Len(plan[r].scenes) + 1)
      BY <3>1 DEF Inv, TypeOK, ScenesInv
    <3>3. s \in 1..Len(plan[r].scenes) /\ Len(plan[r].scenes) \in Nat
      BY PlanShape DEF Inv
    <3>4. scene[r] # 1
      BY <3>2, <3>3
    <3>5. QED
      BY <3>4 DEF Inv, ScenesInv
  <2>7. executed'[r] # {} => plan[r].caseMode = OrderMode
    BY DEF Inv, ScenesInv
  <2>8. QED
    BY <1>1, <1>4, <2>1, <2>2, <2>3, <2>4, <2>5, <2>6, <2>7 DEF ScenesInv, Around
<1>6. StagesInv(r)'
  <2>1. Active(r)' \subseteq Active(r)
    BY <1>3
  <2>2. QED
    BY <1>1, <2>1 DEF Inv, StagesInv, Around, clients
<1>7. QED
  BY <1>2, <1>4, <1>5, <1>6, OneRequestStep DEF Inv, TypeOK

\* A scene whose disposeCase returns has no case left, or the plan was stopped.
LEMMA EndSceneStep ==
  ASSUME Inv, NEW r \in Requests, NEW s \in ScenesOf(r), EndScene(r, s)
  PROVE  Inv'
<1>1. /\ case[r][s] > 0 /\ <<s, case[r][s]>> \notin running[r]
      /\ case[r][s] \notin CasesOf(r, s) \/ r \in stopped
      /\ case' = [case EXCEPT ![r][s] = Over]
      /\ wg' = [wg EXCEPT ![r] = @ - IF Mode(r) = SameMode THEN 1 ELSE 0]
      /\ UNCHANGED <<Around, reported, scene, running, executed, alive>>
  BY DEF EndScene, InScene, Left, Around
<1>2. /\ Domains' /\ Others(r) /\ case'[r] = [case[r] EXCEPT ![s] = Over]
  BY <1>1 DEF Inv, Domains, Others, TypeOK
<1>3. ASSUME NEW c \in running'[r]
      PROVE  c[1] # s
  <2>1. c \in Checked(r) /\ c = <<c[1], c[2]>> /\ case[r][c[1]] = c[2]
    BY <1>1, <1>3, CheckedShape DEF Inv, TypeOK, ScenesInv
  <2>2. QED
    BY <1>1, <1>3, <2>1
<1>4. ASSUME NEW d \in Checked(r), plan[r].caseMode = OrderMode, d[1] = s, d[2] < Over \/ r \notin stopped
      PROVE  d \in executed[r]
  <2>1. d[2] \in CasesOf(r, s) /\ d[2] \in Nat /\ CasesOf(r, s) = 1..Len(plan[r].scenes[s].cases)
        /\ Len(plan[r].scenes[s].cases) \in Nat
    BY <1>4, CheckedShape, PlanShape DEF Inv
  <2>2. case[r][s] \in Nat /\ case[r][s] \notin CasesOf(r, s)
    BY <1>1, <1>4, <2>1 DEF Inv, TypeOK, Over
  <2>3. d[2] < case[r][s]
    BY <1>1, <2>1, <2>2
  <2>4. QED
    BY <1>4, <2>3 DEF Inv, ScenesInv
<1>5. running'[r] \cup executed'[r] \subseteq Checked(r) /\ executed[r] \subseteq executed'[r]
  BY <1>1 DEF Inv, TypeOK
<1>6. QED
  BY <1>1, <1>2, <1>3, <1>4, <1>5, CaseStep DEF Inv, TypeOK

\* A case is skipped only where it is not checked, or the mode executes none.
LEMMA SkipCaseStep ==
  ASSUME Inv, NEW r \in Requests, NEW s \in ScenesOf(r), SkipCase(r, s)
  PROVE  Inv'
<1> DEFINE k == case[r][s]
<1>1. /\ k > 0 /\ k \in CasesOf(r, s) /\ <<s, k>> \notin running[r]
      /\ ~plan[r].scenes[s].cases[k] \/ plan[r].caseMode # OrderMode
      /\ case' = [case EXCEPT ![r][s] = k + 1]
      /\ UNCHANGED <<Around, reported, scene, running, executed, wg, alive>>
  BY DEF SkipCase, InScene, Left, Around
<1>2. k \in Nat /\ k + 1 \in Nat \ {0} /\ k + 1 # Over
  BY <1>1 DEF Inv, TypeOK, Over
<1>3. /\ Domains' /\ Others(r) /\ case'[r] = [case[r] EXCEPT ![s] = k + 1]
      /\ wg' = [wg EXCEPT ![r] = @ - 0]
  BY <1>1 DEF Inv, Domains, Others, TypeOK
<1>4. ASSUME NEW c \in running'[r]
      PROVE  c[1] # s
  <2>1. c \in Checked(r) /\ c = <<c[1], c[2]>> /\ case[r][c[1]] = c[2]
    BY <1>1, <1>4, CheckedShape DEF Inv, TypeOK, ScenesInv
  <2>2. QED
    BY <1>1, <1>4, <2>1
<1>5. ASSUME NEW d \in Checked(r), plan[r].caseMode = OrderMode, d[1] = s, d[2] < k + 1
      PROVE  d \in executed[r]
  <2>1. d[2] \in Nat /\ plan[r].scenes[s].cases[d[2]]
    BY <1>5, CheckedShape DEF Inv
  <2>2. d[2] # k
    BY <1>1, <1>5, <2>1
  <2>3. d[2] < k
    BY <1>2, <1>5, <2>1, <2>2
  <2>4. QED
    BY <1>5, <2>3 DEF Inv, ScenesInv
<1>6. running'[r] \cup executed'[r] \subseteq Checked(r) /\ executed[r] \subseteq executed'[r]
  BY <1>1 DEF Inv, TypeOK
<1> HIDE DEF k
<1>7. wg' = [wg EXCEPT ![r] = @ - IF k + 1 = Over /\ Mode(r) = SameMode THEN 1 ELSE 0]
  BY <1>2, <1>3
<1>8. alive' \in BOOLEAN /\ case[r][s] > 0
  BY <1>1 DEF Inv, TypeOK, k
<1>9. QED
  BY <1>1, <1>2, <1>3, <1>4, <1>5, <1>6, <1>7, <1>8, CaseStep

\* A case that is started is the one the scene is at.
LEMMA StartCaseStep ==
  ASSUME Inv, NEW r \in Requests, NEW s \in ScenesOf(r), StartCase(r, s)
  PROVE  Inv'
<1> DEFINE k == case[r][s]
<1>1. CASE ~plan[r].scenes[s].configured
  <2>1. UNCHANGED <<Scenery, stage, answer, clients, busy, draining, stopped, reported>> /\ alive' = FALSE
    BY <1>1 DEF StartCase, Die, Scenery, cases
  <2>2. \A q \in Requests : Active(q)' = Active(q) /\ Mode(q)' = Mode(q) /\ (Known(q)' <=> Known(q))
    BY <2>1, SceneryKept
  <2>3. \A q \in Requests : StagesInv(q)'
    BY <2>1, <2>2 DEF Inv, StagesInv, Scenery, clients
  <2>4. QED
    BY <2>1, <2>3, SceneryStep DEF Inv, TypeOK, clients
<1>2. CASE plan[r].scenes[s].configured
  <2>1. /\ k > 0 /\ k \in CasesOf(r, s)
        /\ plan[r].scenes[s].cases[k] /\ plan[r].caseMode = OrderMode
        /\ running' = [running EXCEPT ![r] = @ \cup {<<s, k>>}]
        /\ UNCHANGED <<Around, reported, scene, case, executed, wg, alive>>
    BY <1>2 DEF StartCase, InScene, Left, Around
  <2>2. k \in Nat \ {0} /\ k # Over
    BY <2>1 DEF Inv, TypeOK, Over
  <2>3. case'[r] = [case[r] EXCEPT ![s] = k]
    BY <2>1 DEF Inv, TypeOK
  <2>4. Domains' /\ Others(r) /\ running'[r] = running[r] \cup {<<s, k>>}
    BY <2>1 DEF Inv, Domains, Others
  <2>5. <<s, k>> \in Checked(r)
    BY <2>1 DEF Checked
  <2>6. ASSUME NEW c \in running'[r]
        PROVE  /\ c[1] = s => c[2] = k /\ plan[r].caseMode = OrderMode
               /\ c[1] # s => c \in running[r]
    BY <2>1, <2>4, <2>6 DEF Inv, ScenesInv
  <2>7. \A d \in Checked(r) : plan[r].caseMode = OrderMode /\ d[1] = s /\ d[2] < k => d \in executed'[r]
    BY <2>1 DEF Inv, ScenesInv
  <2>8. running'[r] \cup executed'[r] \subseteq Checked(r) /\ executed[r] \subseteq executed'[r]
    BY <2>1, <2>4, <2>5 DEF Inv, TypeOK
  <2>9. wg' = [wg EXCEPT ![r] = @ - 0]
    BY <2>1 DEF Inv, TypeOK
  <2>10. alive' \in BOOLEAN /\ case[r][s] > 0
    BY <2>1 DEF Inv, TypeOK
  <2> HIDE DEF k
  <2>11. wg' = [wg EXCEPT ![r] = @ - IF k = Over /\ Mode(r) = SameMode THEN 1 ELSE 0]
    BY <2>2, <2>9
  <2>12. QED
    BY <2>1, <2>2, <2>3, <2>4, <2>6, <2>7, <2>8, <2>10, <2>11, CaseStep
<1>3. QED
  BY <1>1, <1>2

\* A case that ends was the only one of its scene.
LEMMA EndCaseStep ==
  ASSUME Inv, NEW r \in Requests, NEW s \in ScenesOf(r), EndCase(r, s)
  PROVE  Inv'
<1> DEFINE k == case[r][s]
<1>1. /\ <<s, k>> \in running[r]
      /\ running' = [running EXCEPT ![r] = @ \ {<<s, k>>}]
      /\ executed' = [executed EXCEPT ![r] = @ \cup {<<s, k>>}]
      /\ case' = [case EXCEPT ![r][s] = k + 1]
      /\ UNCHANGED <<Around, reported, scene, wg, alive>>
  BY DEF EndCase, Around
<1>2. <<s, k>> \in Checked(r) /\ plan[r].caseMode = OrderMode
  BY <1>1 DEF Inv, TypeOK, ScenesInv
<1>3. k \in Nat \ {0} /\ k + 1 \in Nat \ {0} /\ k + 1 # Over
  BY <1>2, CheckedShape DEF Inv, Over
<1>4. /\ Domains' /\ Others(r) /\ case'[r] = [case[r] EXCEPT ![s] = k + 1]
      /\ running'[r] = running[r] \ {<<s, k>>} /\ executed'[r] = executed[r] \cup {<<s, k>>}
      /\ wg' = [wg EXCEPT ![r] = @ - 0]
  BY <1>1 DEF Inv, Domains, Others, TypeOK
<1>5. ASSUME NEW c \in running'[r]
      PROVE  c[1] # s /\ c \in running[r]
  <2>1. c \in Checked(r) /\ c = <<c[1], c[2]>> /\ case[r][c[1]] = c[2]
    BY <1>4, <1>5, CheckedShape DEF Inv, TypeOK, ScenesInv
  <2>2. QED
    BY <1>4, <1>5, <2>1
<1>6. ASSUME NEW d \in Checked(r), plan[r].caseMode = OrderMode, d[1] = s, d[2] < k + 1
      PROVE  d \in executed'[r]
  <2>1. d = <<d[1], d[2]>> /\ d[2] \in Nat
    BY <1>6, CheckedShape DEF Inv
  <2>2. CASE d[2] = k
    BY <1>4, <1>6, <2>1, <2>2
  <2>3. CASE d[2] # k
    <3>1. d[2] < k
      BY <1>3, <1>6, <2>1, <2>3
    <3>2. QED
      BY <1>4, <1>6, <3>1 DEF Inv, ScenesInv
  <2>4. QED
    BY <2>2, <2>3
<1>7. running'[r] \cup executed'[r] \subseteq Checked(r) /\ executed[r] \subseteq executed'[r]
  BY <1>2, <1>4 DEF Inv, TypeOK
<1>8. alive' \in BOOLEAN /\ case[r][s] > 0
  BY <1>1, <1>3 DEF Inv, TypeOK
<1> HIDE DEF k
<1>9. wg' = [wg EXCEPT ![r] = @ - IF k + 1 = Over /\ Mode(r) = SameMode THEN 1 ELSE 0]
  BY <1>3, <1>4
<1>10. UNCHANGED <<Around, reported, scene>>
  BY <1>1
<1>11. Domains' /\ Others(r) /\ case'[r] = [case[r] EXCEPT ![s] = k + 1]
  BY <1>4
<1>12. \A c \in running'[r] : /\ c[1] = s => c[2] = k + 1 /\ plan[r].caseMode = OrderMode
                              /\ c[1] # s => c \in running[r]
  BY <1>5
<1>13. \A d \in Checked(r) :
         /\ plan[r].caseMode = OrderMode /\ d[1] = s
         /\ d[2] < k + 1 \/ (k + 1 = Over /\ r \notin stopped)
         => d \in executed'[r]
  BY <1>3, <1>6
<1>14. k + 1 \in (Nat \ {0}) \cup {Over}
  BY <1>3
<1>15. QED
  BY <1>2, <1>7, <1>8, <1>9, <1>10, <1>11, <1>12, <1>13, <1>14, CaseStep

-----------------------------------------------------------------------------
(* The theorems *)

LEMMA StepInv == Inv /\ [Next]_vars => Inv'
<1> SUFFICES ASSUME Inv, [Next]_vars PROVE Inv'
  OBVIOUS
<1>1. ASSUME NEW r \in Requests, Main(r)
      PROVE  Inv'
  BY <1>1, HandlerStep, OuterStep, StartSceneStep, ReportStep DEF Main, Scenes, Outer
<1>2. ASSUME NEW r \in Requests, EndTask(r) \/ SenderEnds(r) \/ SenderFails(r) \/ LeaveLate(r) \/ StopPlan(r)
      PROVE  Inv'
  BY <1>2, OuterStep DEF Outer
<1>3. ASSUME NEW r \in Requests, NEW s \in ScenesOf(r), Case(r, s)
      PROVE  Inv'
  BY <1>3, EndSceneStep, SkipCaseStep, StartCaseStep, EndCaseStep DEF Case
<1>4. CASE UNCHANGED vars
  <2>1. UNCHANGED <<Scenery, stage, answer, clients, busy, draining, stopped, reported, alive>>
    BY <1>4 DEF vars, Scenery, clients
  <2>2. \A q \in Requests : Active(q)' = Active(q) /\ Mode(q)' = Mode(q) /\ (Known(q)' <=> Known(q))
    BY <2>1, SceneryKept
  <2>3. \A q \in Requests : StagesInv(q)'
    BY <2>1, <2>2 DEF Inv, StagesInv, Scenery, clients
  <2>4. QED
    BY <2>1, <2>3, SceneryStep DEF Inv, TypeOK, clients
<1>5. QED
  BY <1>1, <1>2, <1>3, <1>4 DEF Next

\* Every reachable state is typed.
THEOREM ServiceTypes == Spec => []TypeOK
<1>1. Inv => TypeOK
  BY DEF Inv
<1>2. QED
  BY <1>1, InitInv, StepInv, PTL DEF Spec

\* A case runs only when every checked case before it has ended, whatever the
\* number of plans, scenes and cases (auto/dispose.go:140 to 155, 188 to 211).
THEOREM ServiceRunsCasesInOrder == Spec => []CasesRunInOrder
<1>1. ASSUME Inv PROVE CasesRunInOrder
  <2>1. SUFFICES ASSUME NEW r \in Requests, NEW c \in running[r], NEW d \in Checked(r),
                        \/ d[1] = c[1] /\ d[2] < c[2]
                        \/ d[1] < c[1] /\ Mode(r) = OrderMode /\ r \notin stopped
                 PROVE  d \in executed[r]
    BY DEF CasesRunInOrder
  <2>2. /\ c[1] \in ScenesOf(r) /\ d[1] \in ScenesOf(r)
        /\ case[r][c[1]] = c[2] /\ c[2] # 0 /\ plan[r].caseMode = OrderMode
    BY <1>1, CheckedShape DEF Inv, TypeOK, ScenesInv
  <2>3. CASE d[1] = c[1] /\ d[2] < c[2]
    BY <1>1, <2>2, <2>3 DEF Inv, ScenesInv
  <2>4. CASE d[1] < c[1] /\ Mode(r) = OrderMode /\ r \notin stopped
    <3>1. case[r][d[1]] = Over
      BY <1>1, <2>2, <2>4 DEF Inv, ScenesInv
    <3>2. QED
      BY <1>1, <2>2, <2>4, <3>1 DEF Inv, ScenesInv
  <2>5. QED
    BY <2>1, <2>3, <2>4
<1>2. QED
  BY <1>1, InitInv, StepInv, PTL DEF Spec

\* A running case keeps its scene active.
LEMMA RunningIsActive ==
  ASSUME Inv, NEW r \in Requests, running[r] # {}
  PROVE  Active(r) # {}
<1>1. PICK c \in running[r] : TRUE
  OBVIOUS
<1>2. c[1] \in ScenesOf(r) /\ case[r][c[1]] = c[2] /\ c[2] > 0
  BY CheckedShape DEF Inv, TypeOK, ScenesInv
<1>3. QED
  BY <1>2 DEF Active

\* The end of an automation plan is reported when none of its cases runs.  When
\* nothing stopped it, all of the checked ones have run if its scene mode is 1 or 2
\* and its case mode 1, and none of them otherwise (auto/dispose.go:172, 207).
THEOREM ServiceReportsWhenAllRan == Spec => []ReportedWhenAllRan
<1>1. ASSUME Inv PROVE ReportedWhenAllRan
  <2>1. SUFFICES ASSUME NEW r \in reported
                 PROVE  /\ running[r] = {}
                        /\ Known(r) /\ plan[r].caseMode = OrderMode /\ r \notin stopped
                             => executed[r] = Checked(r)
                        /\ ~(Known(r) /\ plan[r].caseMode = OrderMode) => executed[r] = {}
    BY DEF ReportedWhenAllRan, ExecutesCases, Known
  <2>2. r \in Requests
    BY <1>1 DEF Inv, TypeOK
  <2>3. running[r] = {}
    BY <1>1, <2>2, RunningIsActive DEF Inv, StagesInv
  <2>4. ASSUME Known(r), plan[r].caseMode = OrderMode, r \notin stopped, NEW d \in Checked(r)
        PROVE  d \in executed[r]
    <3>1. d[1] \in ScenesOf(r) /\ d[1] \in 1..Len(plan[r].scenes) /\ Len(plan[r].scenes) \in Nat
      BY <1>1, <2>2, <2>4, CheckedShape, PlanShape DEF Inv
    <3>2. scene[r] \in Nat /\ scene[r] > Len(plan[r].scenes)
      BY <1>1, <2>2, <2>4, <3>1 DEF Inv, TypeOK, StagesInv
    <3>3. case[r][d[1]] # 0
      BY <1>1, <2>2, <3>1, <3>2 DEF Inv, ScenesInv
    <3>4. ~(case[r][d[1]] > 0) /\ case[r][d[1]] \in Nat \cup {Over}
      BY <1>1, <2>2, <3>1 DEF Inv, TypeOK, StagesInv, Active
    <3>5. case[r][d[1]] = Over
      BY <3>3, <3>4
    <3>6. QED
      BY <1>1, <2>2, <2>4, <3>5 DEF Inv, ScenesInv
  <2>5. executed[r] \subseteq Checked(r)
    BY <1>1, <2>2 DEF Inv, TypeOK
  <2>6. ~(Known(r) /\ plan[r].caseMode = OrderMode) => executed[r] = {}
    BY <1>1, <2>2 DEF Inv, ScenesInv
  <2>7. QED
    BY <2>3, <2>4, <2>5, <2>6
<1>2. QED
  BY <1>1, InitInv, StepInv, PTL DEF Spec

\* No client is closed under what uses it, but for the two returns that wait for
\* nobody (server/dispose.go:167 and 168, auto/dispose.go:143 to 177).
THEOREM ServiceClientsOutliveTheirUse == Spec => []ClientsOutliveTheirUse
<1>1. ASSUME Inv PROVE ClientsOutliveTheirUse
  <2>1. SUFFICES ASSUME NEW r \in Requests
                 PROVE  /\ r \in busy /\ (plan[r].kind = "stress" => plan[r].joins) => mongo[r] = "open"
                        /\ running[r] # {} /\ r \notin stopped => mongo[r] = "open"
                        /\ r \in draining => producer[r] = "open"
    BY DEF ClientsOutliveTheirUse
  <2>2. running[r] # {} => Active(r) # {}
    BY <1>1, RunningIsActive
  <2>3. QED
    BY <1>1, <2>2 DEF Inv, StagesInv
<1>2. QED
  BY <1>1, InitInv, StepInv, PTL DEF Spec

=============================================================================
