------------------------------ MODULE SceneRun ------------------------------
(***************************************************************************)
(* One execution of a scene by one concurrency id: DisposeScene starts the *)
(* nodes of a round, each in a goroutine of its own, waits for all of them *)
(* and goes on to the next round.  A node decides from the results its     *)
(* predecessors left in preNodeMap whether it runs; under a stress plan    *)
(* the weights distribute the concurrency ids over the nodes.              *)
(***************************************************************************)
EXTENDS Integers, FiniteSets

CONSTANTS
  Node,         \* the ids of the events
  Scenes,       \* the scenes an execution may be given
  RunTypes,     \* of {"plan", "scene"}: disposePlanNode or disposeDebugNode runs the nodes
  Executions,   \* pairs of a concurrency id and the concurrency it is started with
  FloatUp       \* the weights and concurrencies whose floating-point product exceeds the exact one

NodeType == {"request", "unsupported", "if", "wait", "sql"}

SceneRecord ==
  [round : [Node -> Nat], pre : [Node -> SUBSET Node], type : [Node -> NodeType],
   weight : [Node -> 0 .. 100], disabled : [Node -> BOOLEAN]]

\* the management service lays a scene out in rounds: a node comes after its PreList
ASSUME SceneAssumption ==
  /\ IsFiniteSet(Node)
  /\ RunTypes \subseteq {"plan", "scene"}
  /\ Executions \subseteq Nat \X Nat
  /\ FloatUp \subseteq (1 .. 99) \X Nat
  /\ Scenes \subseteq SceneRecord
  /\ \A s \in Scenes, n \in Node : \A p \in s.pre[n] : s.round[p] < s.round[n]

VARIABLES
  runType, scene, goroutineId, concurrency,  \* the arguments
  round,        \* how many rounds were begun
  pc,           \* DisposeScene: "spawn", "wait", "returned"
  sceneWg,      \* counter of sceneWg
  npc,          \* where the goroutine of each node is
  preNodeMap,   \* what each node left for its successors
  reported      \* the nodes that sent a result record

args == <<runType, scene, goroutineId, concurrency>>
vars == <<args, round, pc, sceneWg, npc, preNodeMap, reported>>

Plan == runType = "plan"
HasNext(n) == \E m \in Node : n \in scene.pre[m]
LastRound == CHOOSE r \in {scene.round[n] : n \in Node} \cup {0} :
               \A n \in Node : scene.round[n] <= r

-----------------------------------------------------------------------------
(* Whether a node runs                                                     *)

Controller(n) == scene.type[n] \in {"if", "wait"}
Results(n) == {preNodeMap[p] : p \in {q \in scene.pre[n] : preNodeMap[q].status # "absent"}}
\* Faulty variant: a predecessor that did not run does not hold its successors back.
BlockedByMiss(n) == \E r \in Results(n) : r.status = "NotHit"

\* Faulty variant: one predecessor that ran is enough.
BlockedByAll(n) == Results(n) # {} /\ \A r \in Results(n) : r.status \in {"NotRun", "NotHit"}

Blocked(n) == \E r \in Results(n) : r.status \in {"NotRun", "NotHit"}

Highest(S) == CHOOSE x \in S \cup {0} : \A y \in S : y <= x

\* a controller has no weight of its own: 100 at the root, else its widest predecessor's
Weight(n) ==
  IF ~Controller(n) THEN scene.weight[n]
  ELSE IF scene.pre[n] = {} THEN 100
  ELSE Highest({r.weight : r \in Results(n)})

\* math.Ceil of a percentage
Percent(w, c) == (w * c + 99) \div 100

\* how many of the concurrency ids a node is meant for
Concurrent(n) ==
  LET w    == Weight(n)
      base == IF scene.pre[n] = {} THEN concurrency
              ELSE Highest({r.concurrent : r \in Results(n)})
  IN  Percent(w, base) + IF scene.pre[n] = {} /\ <<w, base>> \in FloatUp THEN 1 ELSE 0

\* no share, or the id lies beyond it
Excluded(n) ==
  \/ Concurrent(n) = 0
  \/ goroutineId > Concurrent(n) /\ scene.type[n] \in {"request", "unsupported"}

Store(n, status) ==
  preNodeMap' = [preNodeMap EXCEPT ![n] =
    [status |-> status, concurrent |-> IF Plan THEN Concurrent(n) ELSE 0, weight |-> Weight(n)]]

\* a stress plan stores only what a successor will read
StoreIfRead(n, status) ==
  IF Plan /\ ~HasNext(n) THEN UNCHANGED preNodeMap ELSE Store(n, status)

-----------------------------------------------------------------------------
(* DisposeScene                                                            *)

\* Faulty variant: sceneWg.Add(1) is missing.
SpawnUncounted(n) ==
  /\ pc = "spawn"
  /\ scene.round[n] = round
  /\ npc[n] = "idle"
  /\ npc' = [npc EXCEPT ![n] = "begin"]
  /\ UNCHANGED <<args, round, pc, sceneWg, preNodeMap, reported>>

\* sceneWg.Add(1); go ...: the goroutine may run before the rest of its round is started
Spawn(n) ==
  /\ pc = "spawn"
  /\ scene.round[n] = round
  /\ npc[n] = "idle"
  /\ npc' = [npc EXCEPT ![n] = "begin"]
  /\ sceneWg' = sceneWg + 1
  /\ UNCHANGED <<args, round, pc, preNodeMap, reported>>

EndRound ==
  /\ pc = "spawn"
  /\ \A n \in Node : scene.round[n] = round => npc[n] # "idle"
  /\ pc' = "wait"
  /\ UNCHANGED <<args, round, sceneWg, npc, preNodeMap, reported>>

\* Faulty variant: the next round does not wait for the one before.
NextRoundUnwaited ==
  /\ pc = "wait"
  /\ IF round < LastRound THEN round' = round + 1 /\ pc' = "spawn"
     ELSE pc' = "returned" /\ UNCHANGED round
  /\ UNCHANGED <<args, sceneWg, npc, preNodeMap, reported>>

\* sceneWg.Wait(), then the next round or the end
Wait ==
  /\ pc = "wait"
  /\ sceneWg = 0
  /\ IF round < LastRound THEN round' = round + 1 /\ pc' = "spawn"
     ELSE pc' = "returned" /\ UNCHANGED round
  /\ UNCHANGED <<args, sceneWg, npc, preNodeMap, reported>>

-----------------------------------------------------------------------------
(* disposePlanNode and disposeDebugNode                                    *)

\* Faulty variant: a skipped node returns without its sceneWg.Done().
SkipUncounted(n) ==
  /\ npc[n] = "begin"
  /\ Blocked(n) \/ (Plan /\ Excluded(n)) \/ scene.disabled[n]
  /\ Store(n, IF scene.disabled[n] THEN "End" ELSE "NotRun")
  /\ npc' = [npc EXCEPT ![n] = "ended"]
  /\ UNCHANGED <<args, round, pc, sceneWg, reported>>

\* every early return goes through the deferred sceneWg.Done()
Skip(n) ==
  /\ npc[n] = "begin"
  /\ \/ /\ Blocked(n) \/ (Plan /\ Excluded(n))
        /\ StoreIfRead(n, "NotRun")
     \/ /\ ~Blocked(n) /\ ~(Plan /\ Excluded(n))
        /\ scene.disabled[n]
        /\ IF HasNext(n) THEN Store(n, "End") ELSE UNCHANGED preNodeMap
  /\ npc' = [npc EXCEPT ![n] = "done"]
  /\ UNCHANGED <<args, round, pc, sceneWg, reported>>

Run(n) ==
  /\ npc[n] = "begin"
  /\ ~Blocked(n) /\ ~(Plan /\ Excluded(n)) /\ ~scene.disabled[n]
  /\ npc' = [npc EXCEPT ![n] = "running"]
  /\ UNCHANGED <<args, round, pc, sceneWg, preNodeMap, reported>>

\* DisposeRequest: the record is sent before the result is stored; an api of an
\* unsupported type sends none, and a debugged scene has no result channel
Request(n) ==
  /\ npc[n] = "running"
  /\ scene.type[n] \in {"request", "unsupported"}
  /\ reported' = IF Plan /\ scene.type[n] = "request" THEN reported \cup {n} ELSE reported
  /\ npc' = [npc EXCEPT ![n] = "requested"]
  /\ UNCHANGED <<args, round, pc, sceneWg, preNodeMap>>

\* Faulty variant: a request leaves no result for its successors.
EndRequestUnstored(n) ==
  /\ npc[n] = "requested"
  /\ npc' = [npc EXCEPT ![n] = "done"]
  /\ UNCHANGED <<args, round, pc, sceneWg, preNodeMap, reported>>

EndRequest(n) ==
  /\ npc[n] = "requested"
  /\ StoreIfRead(n, "End")
  /\ npc' = [npc EXCEPT ![n] = "done"]
  /\ UNCHANGED <<args, round, pc, sceneWg, reported>>

\* the comparison depends on variables the responses set: both outcomes are possible
Decide(n) ==
  /\ npc[n] = "running"
  /\ scene.type[n] = "if"
  /\ \E status \in {"End", "NotHit"} : Store(n, status)
  /\ npc' = [npc EXCEPT ![n] = "done"]
  /\ UNCHANGED <<args, round, pc, sceneWg, reported>>

EndPause(n) ==
  /\ npc[n] = "running"
  /\ scene.type[n] = "wait"
  /\ StoreIfRead(n, "End")
  /\ npc' = [npc EXCEPT ![n] = "done"]
  /\ UNCHANGED <<args, round, pc, sceneWg, reported>>

\* the other types of events have an empty case: nothing is stored
Ignore(n) ==
  /\ npc[n] = "running"
  /\ scene.type[n] = "sql"
  /\ npc' = [npc EXCEPT ![n] = "done"]
  /\ UNCHANGED <<args, round, pc, sceneWg, preNodeMap, reported>>

\* the deferred sceneWg.Done()
Done(n) ==
  /\ npc[n] = "done"
  /\ npc' = [npc EXCEPT ![n] = "ended"]
  /\ sceneWg' = sceneWg - 1
  /\ UNCHANGED <<args, round, pc, preNodeMap, reported>>

DisposeNode(n) ==
  Skip(n) \/ Run(n) \/ Request(n) \/ EndRequest(n) \/ Decide(n) \/ EndPause(n) \/ Ignore(n) \/ Done(n)

-----------------------------------------------------------------------------
Init ==
  /\ runType \in RunTypes
  /\ scene \in Scenes
  /\ \E e \in Executions : goroutineId = e[1] /\ concurrency = e[2]
  /\ round = 0
  /\ pc = "spawn"
  /\ sceneWg = 0
  /\ npc = [n \in Node |-> "idle"]
  /\ preNodeMap = [n \in Node |-> [status |-> "absent", concurrent |-> 0, weight |-> 0]]
  /\ reported = {}

DisposeScene == EndRound \/ Wait \/ \E n \in Node : Spawn(n)

Returned == pc = "returned" /\ UNCHANGED vars

Next == DisposeScene \/ (\E n \in Node : DisposeNode(n)) \/ Returned

Spec == Init /\ [][Next]_vars

Fairness == WF_vars(DisposeScene) /\ \A n \in Node : WF_vars(DisposeNode(n))
FairSpec == Spec /\ Fairness

-----------------------------------------------------------------------------
(* Properties                                                              *)

Active == {n \in Node : npc[n] \notin {"idle", "ended"}}

TypeOK ==
  /\ runType \in RunTypes
  /\ scene \in SceneRecord
  /\ <<goroutineId, concurrency>> \in Executions
  /\ round \in 0 .. LastRound
  /\ pc \in {"spawn", "wait", "returned"}
  /\ sceneWg \in Nat
  /\ npc \in [Node -> {"idle", "begin", "running", "requested", "done", "ended"}]
  /\ preNodeMap \in [Node -> [status : {"absent", "End", "NotRun", "NotHit"},
                              concurrent : Nat, weight : 0 .. 100]]
  /\ reported \subseteq {n \in Node : scene.type[n] = "request"}

\* The WaitGroup of the scene counts the nodes that are running, they all belong to the
\* current round, and the rounds before it are over.
RoundInv ==
  /\ sceneWg = Cardinality(Active)
  /\ \A n \in Node : npc[n] = "idle" \/ scene.round[n] <= round
  /\ \A n \in Active : scene.round[n] = round /\ pc # "returned"
  /\ \A n \in Node : npc[n] = "idle" =>
       scene.round[n] > round \/ (scene.round[n] = round /\ pc = "spawn")

\* A node reads the results of its predecessors only when all of them have ended
\* (link.go:108-118: "直到上一级所有事件全部完成", yet it looks only once; the rounds see to it).
RunsAfterPredecessors ==
  \A n \in Node : npc[n] # "idle" => \A p \in scene.pre[n] : npc[p] = "ended"

\* n lies behind m in the graph of the scene: every set of nodes that holds m and, with a
\* node, its successors, holds n
Behind(n, m) ==
  /\ n # m
  /\ \A S \in SUBSET Node :
       m \in S /\ (\A x \in Node : scene.pre[x] \cap S # {} => x \in S) => n \in S

\* Nothing behind an if controller that missed is executed, however many controllers,
\* disabled or excluded nodes lie between them (link.go:131-150 and 361-392).
NothingBehindAMiss ==
  \A m, n \in Node :
    preNodeMap[m].status = "NotHit" /\ Behind(n, m) => npc[n] # "running" /\ n \notin reported

\* Unless something in front of it missed or stores nothing, a node with the full weight,
\* behind nodes with the full weight, sends its record for every id below the concurrency.
FullWeightReports ==
  Plan /\ pc = "returned" /\ goroutineId < concurrency =>
    \A n \in Node :
      \/ n \in reported
      \/ scene.type[n] # "request" \/ scene.disabled[n]
      \/ \E m \in Node :
           /\ m = n \/ Behind(n, m)
           /\ \/ scene.type[m] = "sql" \/ preNodeMap[m].status = "NotHit"
              \/ ~Controller(m) /\ scene.weight[m] # 100

\* DisposeScene returns only when the goroutine of every node has ended: no result is
\* sent on behalf of a worker after its scene.
Promise == INSTANCE ForkJoin WITH
  Goroutine <- Node,
  live  <- Active,
  phase <- IF pc = "returned" THEN "joined" ELSE "forking"
JoinsItsNodes == Promise!Spec

\* A node with weight w runs for w percent of the ids, which are numbered from 0
\* (event.go:28 "权重，并发分配的比例", the proportion of the concurrency).
WithinShare ==
  \A n \in Node :
    n \in reported /\ scene.pre[n] = {} => goroutineId < Percent(scene.weight[n], concurrency)

\* Every execution of a scene returns.
SceneReturns == <>(pc = "returned")
=============================================================================
