--------------------------- MODULE SceneRun_proofs ---------------------------
(***************************************************************************)
(* For every scene laid out in rounds and every number of nodes: a round   *)
(* is a barrier, a node looks at its predecessors when they have ended,    *)
(* nothing behind a condition that missed is executed, a node of full      *)
(* weight that nothing narrows reports, and an execution returns only when *)
(* all its nodes have ended.                                               *)
(*                                                                         *)
(* RoundInv is inductive with the shape of the state.  What a miss stops   *)
(* needs MissInv: a node that is held back holds its successors back, one  *)
(* generation at a time, and a result is never stored too late to be read. *)
(***************************************************************************)
EXTENDS SceneRun, FiniteSetTheorems, TLAPS

NodePc == {"idle", "begin", "running", "requested", "done", "ended"}

\* what the proofs need to know of the types; TypeOK also bounds the shares
Shape ==
  /\ scene \in Scenes
  /\ round \in Nat
  /\ pc \in {"spawn", "wait", "returned"}
  /\ npc \in [Node -> NodePc]
  /\ preNodeMap = [n \in Node |-> preNodeMap[n]]
  /\ reported \subseteq Node

Held(n) == preNodeMap[n].status \in {"NotRun", "NotHit"}

\* What a node that is held back implies for the nodes directly behind it.
MissInv ==
  /\ \A n \in Node : Held(n) => npc[n] \in {"done", "ended"}
  /\ \A n \in reported : npc[n] # "idle"
  /\ \A n \in Node : \A p \in scene.pre[n] :
       Held(p) => /\ npc[n] \notin {"running", "requested"}
                  /\ n \notin reported
                  /\ npc[n] \in {"done", "ended"} => Held(n) \/ ~HasNext(n)

-----------------------------------------------------------------------------
(* The layout of a scene                                                   *)

\* What SceneAssumption says of the scene of an execution.
LEMMA Layout ==
  ASSUME Shape
  PROVE  /\ scene.round \in [Node -> Nat]
         /\ scene.pre \in [Node -> SUBSET Node]
         /\ \A n \in Node : \A p \in scene.pre[n] : scene.round[p] < scene.round[n]
BY SceneAssumption DEF Shape, SceneRecord

\* The set of running nodes is finite, so that it has a size to count.
LEMMA ActiveFinite == IsFiniteSet(Active)
BY SceneAssumption, FS_Subset DEF Active

\* A node that was started has only predecessors that have ended: they belong to earlier
\* rounds, which are over.
LEMMA RoundsOrder ==
  ASSUME Shape, RoundInv
  PROVE  RunsAfterPredecessors
<1> SUFFICES ASSUME NEW n \in Node, npc[n] # "idle", NEW p \in scene.pre[n]
             PROVE  npc[p] = "ended"
  BY DEF RunsAfterPredecessors
<1>1. p \in Node /\ scene.round[p] < scene.round[n] /\ {scene.round[p], scene.round[n], round} \subseteq Nat
  BY Layout DEF Shape
<1>2. scene.round[n] <= round
  BY DEF RoundInv
<1>3. npc[p] # "idle"
  BY <1>1, <1>2 DEF RoundInv
<1>4. p \notin Active
  BY <1>1, <1>2 DEF RoundInv
<1>5. QED
  BY <1>1, <1>3, <1>4 DEF Active

-----------------------------------------------------------------------------
(* Which steps change the set of running nodes                             *)

\* Starting a node adds it to the running ones (the Add(1) before go).
LEMMA SpawnActive ==
  ASSUME Shape, NEW n \in Node, Spawn(n)
  PROVE  Active' = Active \cup {n} /\ n \notin Active
BY DEF Shape, Spawn, Active, NodePc

\* What a step of a node other than its Done does: the node stays counted, and only its own
\* entry of preNodeMap may change.
Moves(n) ==
  /\ npc[n] \notin {"idle", "ended", "done"}
  /\ \E next \in {"running", "requested", "done"} : npc' = [npc EXCEPT ![n] = next]
  /\ UNCHANGED <<args, round, pc, sceneWg>>
  /\ reported' \in {reported, reported \cup {n}}
  /\ \/ UNCHANGED preNodeMap
     \/ \E r : preNodeMap' = [preNodeMap EXCEPT ![n] = r]

LEMMA NodeMoves ==
  ASSUME NEW n \in Node, DisposeNode(n), ~Done(n)
  PROVE  Moves(n)
<1>1. CASE Skip(n)
  BY <1>1 DEF Skip, StoreIfRead, Store, Moves
<1>2. CASE Run(n)
  BY <1>2 DEF Run, Moves
<1>3. CASE Request(n)
  BY <1>3 DEF Request, Moves
<1>4. CASE EndRequest(n)
  BY <1>4 DEF EndRequest, StoreIfRead, Store, Moves
<1>5. CASE Decide(n)
  BY <1>5 DEF Decide, Store, Moves
<1>6. CASE EndPause(n)
  BY <1>6 DEF EndPause, StoreIfRead, Store, Moves
<1>7. CASE Ignore(n)
  BY <1>7 DEF Ignore, Moves
<1>8. QED
  BY <1>1, <1>2, <1>3, <1>4, <1>5, <1>6, <1>7 DEF DisposeNode

\* A moving node stays among the running ones.
LEMMA MovesActive ==
  ASSUME Shape, NEW n \in Node, Moves(n)
  PROVE  Active' = Active
<1>1. \A m \in Node : npc'[m] \in {"idle", "ended"} <=> npc[m] \in {"idle", "ended"}
  BY DEF Shape, Moves
<1>2. QED
  BY <1>1 DEF Active

\* The deferred Done takes exactly its node out.
LEMMA DoneActive ==
  ASSUME Shape, NEW n \in Node, Done(n)
  PROVE  Active' = Active \ {n} /\ n \in Active
BY DEF Shape, Done, Active, NodePc

-----------------------------------------------------------------------------
(* Shape and RoundInv are inductive                                        *)

LEMMA InitRounds == Init => Shape /\ RoundInv
<1> SUFFICES ASSUME Init PROVE Shape /\ RoundInv
  OBVIOUS
<1>1. Shape
  BY DEF Init, Shape, NodePc
<1>2. Active = {} /\ Cardinality({}) = 0
  BY FS_EmptySet DEF Init, Active
<1>3. \A n \in Node : npc[n] = "idle" /\ (scene.round[n] > round \/ scene.round[n] = round)
  BY <1>1, Layout DEF Init
<1>4. QED
  BY <1>1, <1>2, <1>3 DEF Init, RoundInv

\* Every step keeps the shape of the state.
LEMMA StepShape ==
  ASSUME Shape, [Next]_vars
  PROVE  Shape'
<1>1. ASSUME NEW n \in Node, Spawn(n)
      PROVE  Shape'
  BY <1>1 DEF Shape, Spawn, NodePc, args
<1>2. CASE EndRound \/ Wait
  BY <1>2 DEF Shape, EndRound, Wait, args
<1>3. ASSUME NEW n \in Node, Moves(n)
      PROVE  Shape'
  <2>1. npc' \in [Node -> NodePc]
    BY <1>3 DEF Shape, Moves, NodePc
  <2>2. preNodeMap' = [m \in Node |-> preNodeMap'[m]]
    BY <1>3 DEF Shape, Moves
  <2>3. QED
    BY <1>3, <2>1, <2>2 DEF Shape, Moves, args
<1>4. ASSUME NEW n \in Node, Done(n)
      PROVE  Shape'
  BY <1>4 DEF Shape, Done, NodePc, args
<1>5. CASE UNCHANGED vars
  BY <1>5 DEF Shape, vars, args
<1>6. QED
  BY <1>1, <1>2, <1>3, <1>4, <1>5, NodeMoves DEF Next, DisposeScene, Returned

\* Every step keeps the rounds apart.
LEMMA StepRounds ==
  ASSUME Shape, RoundInv, [Next]_vars
  PROVE  RoundInv'
<1>1. ASSUME NEW n \in Node, Spawn(n)
      PROVE  RoundInv'
  <2>1. sceneWg' = Cardinality(Active')
    BY <1>1, SpawnActive, ActiveFinite, FS_AddElement DEF RoundInv, Spawn
  <2>2. \A m \in Node : m # n => npc'[m] = npc[m]
    BY <1>1 DEF Spawn, Shape
  <2>3. scene.round[n] = round /\ npc'[n] = "begin" /\ pc = "spawn" /\ round \in Nat
    BY <1>1 DEF Spawn, Shape
  <2>4. \A m \in Node : npc'[m] = "idle" \/ scene.round[m] <= round
    BY <2>2, <2>3 DEF RoundInv
  <2>5. \A m \in Active' : scene.round[m] = round
    BY <1>1, <2>3, SpawnActive DEF RoundInv
  <2>6. \A m \in Node : npc'[m] = "idle" => scene.round[m] > round \/ scene.round[m] = round
    BY <2>2, <2>3 DEF RoundInv
  <2>7. UNCHANGED <<scene, round, pc>>
    BY <1>1 DEF Spawn, args
  <2>8. QED
    BY <2>1, <2>3, <2>4, <2>5, <2>6, <2>7 DEF RoundInv
<1>2. CASE EndRound
  BY <1>2 DEF EndRound, RoundInv, Active, args
<1>3. CASE Wait
  <2>1. Active = {} /\ Active' = Active
    BY <1>3, ActiveFinite, FS_EmptySet DEF Wait, RoundInv, Active
  <2>2. scene.round \in [Node -> Nat] /\ round \in Nat
    BY Layout DEF Shape
  <2>3. \A n \in Node : npc[n] = "idle" => scene.round[n] > round
    BY <1>3 DEF Wait, RoundInv
  <2>4. \A n \in Node : npc[n] = "idle" \/ scene.round[n] <= round
    BY DEF RoundInv
  <2>5. CASE round' = round + 1 /\ pc' = "spawn"
    <3>1. \A n \in Node : npc[n] = "idle" => scene.round[n] > round' \/ scene.round[n] = round'
      BY <2>2, <2>3, <2>5
    <3>2. \A n \in Node : npc[n] = "idle" \/ scene.round[n] <= round'
      BY <2>2, <2>4, <2>5
    <3>3. QED
      BY <1>3, <2>1, <2>5, <3>1, <3>2 DEF Wait, RoundInv, args
  <2>6. CASE round' = round /\ pc' = "returned"
    BY <1>3, <2>1, <2>3, <2>4, <2>6 DEF Wait, RoundInv, args
  <2>7. QED
    BY <1>3, <2>5, <2>6 DEF Wait
<1>4. ASSUME NEW n \in Node, Moves(n)
      PROVE  RoundInv'
  <2>1. Active' = Active
    BY <1>4, MovesActive
  <2>2. \A m \in Node : npc'[m] = "idle" <=> npc[m] = "idle"
    BY <1>4 DEF Moves, Shape
  <2>3. QED
    BY <1>4, <2>1, <2>2 DEF Moves, RoundInv, args
<1>5. ASSUME NEW n \in Node, Done(n)
      PROVE  RoundInv'
  <2>1. sceneWg' = Cardinality(Active')
    BY <1>5, DoneActive, ActiveFinite, FS_RemoveElement DEF RoundInv, Done
  <2>2. \A m \in Node : npc'[m] = "idle" <=> npc[m] = "idle"
    BY <1>5 DEF Done, Shape
  <2>3. QED
    BY <1>5, <2>1, <2>2, DoneActive DEF Done, RoundInv, args
<1>6. CASE UNCHANGED vars
  BY <1>6 DEF RoundInv, Active, vars, args
<1>7. QED
  BY <1>1, <1>2, <1>3, <1>4, <1>5, <1>6, NodeMoves DEF Next, DisposeScene, Returned

\* The WaitGroup counts the running nodes, they all belong to the current round, and the
\* rounds before it are over.
THEOREM SceneRounds == Spec => [](Shape /\ RoundInv)
<1>1. (Shape /\ RoundInv) /\ [Next]_vars => (Shape /\ RoundInv)'
  BY StepShape, StepRounds
<1>2. QED
  BY <1>1, InitRounds, PTL DEF Spec

\* A node decides whether to run when all its predecessors have ended.
THEOREM SceneRunsAfterPredecessors == Spec => []RunsAfterPredecessors
BY SceneRounds, RoundsOrder, PTL

-----------------------------------------------------------------------------
(* What a miss holds back                                                  *)

LEMMA InitMiss == Init => MissInv
BY DEF Init, MissInv, Held

\* A node with a predecessor that is held back is skipped, and held back itself if any node
\* could read it.
LEMMA HeldSkips ==
  ASSUME Shape, NEW n \in Node, NEW p \in scene.pre[n], Held(p), npc[n] = "begin", DisposeNode(n)
  PROVE  /\ Skip(n) /\ reported' = reported /\ npc'[n] = "done"
         /\ Held(n)' \/ ~HasNext(n)
<1>1. p \in Node
  BY Layout
<1>2. Blocked(n)
  <2>1. preNodeMap[p] \in Results(n)
    BY <1>1 DEF Results, Held
  <2>2. QED
    BY <2>1 DEF Blocked, Held
<1>3. Skip(n)
  BY <1>2 DEF DisposeNode, Run, Request, EndRequest, Decide, EndPause, Ignore, Done
<1>4. StoreIfRead(n, "NotRun")
  BY <1>2, <1>3 DEF Skip
<1>5. Store(n, "NotRun") \/ ~HasNext(n)
  BY <1>4 DEF StoreIfRead
<1>6. Store(n, "NotRun") => preNodeMap'[n].status = "NotRun"
  BY DEF Store, Shape
<1>7. QED
  BY <1>3, <1>5, <1>6 DEF Skip, Held, Shape

\* A running node whose predecessors have ended without a miss may store what it likes: its
\* successors have not been started.
LEMMA MovesMiss ==
  ASSUME Shape, RoundInv, MissInv, NEW n \in Node, Moves(n), DisposeNode(n)
  PROVE  MissInv'
<1>1. /\ \A m \in Node : m # n => npc'[m] = npc[m] /\ Held(m)' = Held(m)
      /\ npc'[n] \in {"running", "requested", "done"} /\ npc[n] \notin {"idle", "done", "ended"}
      /\ reported \subseteq reported' /\ reported' \subseteq reported \cup {n}
      /\ scene' = scene
  <2>1. \A m \in Node : m # n => npc'[m] = npc[m]
    BY DEF Shape, Moves
  <2>2. \A m \in Node : m # n => preNodeMap'[m] = preNodeMap[m]
    BY DEF Shape, Moves
  <2>3. QED
    BY <2>1, <2>2 DEF Shape, Moves, Held, args
<1>2. ~Held(n)
  BY <1>1 DEF MissInv
<1>3. Held(n)' => npc'[n] = "done"
  <2>1. CASE preNodeMap' = preNodeMap
    BY <1>2, <2>1 DEF Held
  <2>2. CASE npc'[n] = "done"
    BY <2>2
  <2>3. preNodeMap' = preNodeMap \/ npc'[n] = "done"
    BY <1>1 DEF DisposeNode, Skip, Run, Request, EndRequest, Decide, EndPause, Ignore, Done, Shape
  <2>4. QED
    BY <2>1, <2>2, <2>3
<1>4. \A m \in Node : Held(m)' => npc'[m] \in {"done", "ended"}
  BY <1>1, <1>3 DEF MissInv
<1>5. \A m \in reported' : npc'[m] # "idle"
  BY <1>1 DEF MissInv, Shape
<1>6. ASSUME NEW m \in Node, NEW p \in scene.pre[m], Held(p)'
      PROVE  /\ npc'[m] \notin {"running", "requested"}
             /\ m \notin reported'
             /\ npc'[m] \in {"done", "ended"} => Held(m)' \/ ~HasNext(m)
  <2>1. p \in Node
    BY Layout
  <2>2. CASE p = n
    <3>1. npc[m] = "idle" /\ m # n
      BY <1>1, <2>2, RoundsOrder DEF RunsAfterPredecessors
    <3>2. QED
      BY <1>1, <3>1 DEF MissInv
  <2>3. CASE p # n /\ m = n
    <3>1. Held(p)
      BY <1>1, <1>6, <2>1, <2>3
    <3>2. npc[n] = "begin" /\ n \notin reported
      <4>1. npc[n] \notin {"running", "requested"} /\ n \notin reported
        BY <2>3, <3>1 DEF MissInv
      <4>2. QED
        BY <1>1, <4>1 DEF Shape, NodePc
    <3>3. reported' = reported /\ npc'[n] = "done" /\ (Held(n)' \/ ~HasNext(n))
      BY <2>3, <3>1, <3>2, HeldSkips
    <3>4. QED
      BY <2>3, <3>2, <3>3
  <2>4. CASE p # n /\ m # n
    <3>1. Held(p)
      BY <1>1, <1>6, <2>1, <2>4
    <3>2. QED
      BY <1>1, <2>4, <3>1 DEF MissInv
  <2>5. QED
    BY <2>2, <2>3, <2>4
<1>7. \A m : HasNext(m)' = HasNext(m)
  BY <1>1 DEF HasNext
<1>8. QED
  BY <1>1, <1>4, <1>5, <1>6, <1>7 DEF MissInv

\* Every step keeps what follows from a miss.
LEMMA StepMiss ==
  ASSUME Shape, RoundInv, MissInv, [Next]_vars
  PROVE  MissInv'
<1>1. ASSUME NEW n \in Node, Spawn(n) \/ Done(n)
      PROVE  MissInv'
  <2>1. UNCHANGED <<scene, preNodeMap, reported>>
    BY <1>1 DEF Spawn, Done, args
  <2>2. \A m \in Node :
          \/ npc'[m] = npc[m]
          \/ npc[m] = "idle" /\ npc'[m] = "begin"
          \/ npc[m] = "done" /\ npc'[m] = "ended"
    BY <1>1 DEF Spawn, Done, Shape
  <2>3. (\A m : Held(m)' = Held(m)) /\ (\A m : HasNext(m)' = HasNext(m))
    BY <2>1 DEF Held, HasNext
  <2>4. QED
    BY <2>1, <2>2, <2>3 DEF MissInv, Shape
<1>2. CASE EndRound \/ Wait \/ UNCHANGED vars
  <2>1. UNCHANGED <<scene, npc, preNodeMap, reported>>
    BY <1>2 DEF EndRound, Wait, vars, args
  <2>2. QED
    BY <2>1 DEF MissInv, Held, HasNext
<1>3. ASSUME NEW n \in Node, DisposeNode(n), ~Done(n)
      PROVE  MissInv'
  BY <1>3, NodeMoves, MovesMiss
<1>4. QED
  BY <1>1, <1>2, <1>3 DEF Next, DisposeScene, Returned

\* All that lies behind a miss is held back: the nodes for which that is true, with the node
\* that missed, contain their own successors.
LEMMA MissHolds ==
  ASSUME Shape, RoundInv, MissInv
  PROVE  NothingBehindAMiss
<1> SUFFICES ASSUME NEW m \in Node, NEW n \in Node, preNodeMap[m].status = "NotHit", Behind(n, m)
             PROVE  npc[n] # "running" /\ n \notin reported
  BY DEF NothingBehindAMiss
<1> DEFINE Safe(x) == /\ npc[x] \notin {"running", "requested"}
                      /\ x \notin reported
                      /\ npc[x] \in {"done", "ended"} => Held(x) \/ ~HasNext(x)
<1> DEFINE S == {x \in Node : x = m \/ Safe(x)}
<1>1. ASSUME NEW x \in Node, scene.pre[x] \cap S # {}
      PROVE  x \in S
  <2>1. PICK p \in S : p \in scene.pre[x]
    BY <1>1
  <2>2. CASE npc[x] = "idle"
    BY <2>2 DEF MissInv
  <2>3. CASE npc[x] # "idle"
    <3>1. npc[p] = "ended"
      BY <2>1, <2>3, RoundsOrder DEF RunsAfterPredecessors
    <3>2. HasNext(p)
      BY <2>1 DEF HasNext
    <3>3. Held(p)
      BY <2>1, <3>1, <3>2 DEF Held
    <3>4. QED
      BY <2>1, <3>3 DEF MissInv
  <2>4. QED
    BY <2>2, <2>3
<1>2. m \in S /\ S \in SUBSET Node
  OBVIOUS
<1>3. n \in S /\ n # m
  BY <1>1, <1>2 DEF Behind
<1>4. QED
  BY <1>3

\* Nothing behind an if controller that missed is executed, however large the scene and
\* however many controllers, disabled or excluded nodes lie between.
THEOREM SceneRespectsMisses == Spec => []NothingBehindAMiss
<1>1. (Shape /\ RoundInv /\ MissInv) /\ [Next]_vars => (Shape /\ RoundInv /\ MissInv)'
  BY StepShape, StepRounds, StepMiss
<1>2. Init => Shape /\ RoundInv /\ MissInv
  BY InitRounds, InitMiss
<1>3. Shape /\ RoundInv /\ MissInv => NothingBehindAMiss
  BY MissHolds
<1>4. QED
  BY <1>1, <1>2, <1>3, PTL DEF Spec

-----------------------------------------------------------------------------
(* An execution joins its nodes                                            *)

\* A step of an execution is a step of ForkJoin or leaves its state alone.
LEMMA StepRefines ==
  ASSUME Shape, RoundInv, [Next]_vars
  PROVE  [Promise!Next]_(Promise!vars)
<1> USE DEF Promise!Next, Promise!vars
<1>1. ASSUME NEW n \in Node, Spawn(n)
      PROVE  [Promise!Next]_(Promise!vars)
  <2>1. Promise!Fork(n)
    BY <1>1, SpawnActive DEF Promise!Fork, Spawn
  <2>2. QED
    BY <2>1
<1>2. CASE EndRound
  BY <1>2 DEF EndRound, Active
<1>3. CASE Wait
  <2>1. Active = {} /\ Active' = Active
    BY <1>3, ActiveFinite, FS_EmptySet DEF Wait, RoundInv, Active
  <2>2. CASE pc' = "returned"
    <3>1. Promise!Join
      BY <1>3, <2>1, <2>2 DEF Promise!Join, Wait
    <3>2. QED
      BY <3>1
  <2>3. CASE pc' # "returned"
    BY <1>3, <2>1, <2>3 DEF Wait
  <2>4. QED
    BY <2>2, <2>3
<1>4. ASSUME NEW n \in Node, DisposeNode(n), ~Done(n)
      PROVE  [Promise!Next]_(Promise!vars)
  BY <1>4, NodeMoves, MovesActive DEF Moves
<1>5. ASSUME NEW n \in Node, Done(n)
      PROVE  [Promise!Next]_(Promise!vars)
  <2>1. Promise!End(n)
    BY <1>5, DoneActive DEF Promise!End, Done
  <2>2. QED
    BY <2>1
<1>6. CASE UNCHANGED vars
  BY <1>6 DEF vars, Active
<1>7. QED
  BY <1>1, <1>2, <1>3, <1>4, <1>5, <1>6 DEF Next, DisposeScene, Returned

\* DisposeScene implements ForkJoin: it returns only when the goroutine of every node has
\* ended, so that no result is sent on behalf of a worker after its scene.
THEOREM SceneRefinesForkJoin == Spec => JoinsItsNodes
<1>1. Init => Promise!Init
  BY DEF Init, Promise!Init, Active
<1>2. (Shape /\ RoundInv) /\ [Next]_vars => [Promise!Next]_(Promise!vars)
  BY StepRefines
<1>3. QED
  BY <1>1, <1>2, SceneRounds, PTL DEF Spec, JoinsItsNodes, Promise!Spec

-----------------------------------------------------------------------------
(* Types: the highest share is one of the shares                           *)

\* A finite set of numbers has a greatest element: a smallest subset without one would lose
\* that property with any of its elements.
LEMMA MaxExists ==
  ASSUME NEW S \in SUBSET Nat, IsFiniteSet(S), S # {}
  PROVE  \E x \in S : \A y \in S : y <= x
<1> DEFINE Bad == {T \in SUBSET S : T # {} /\ ~ \E x \in T : \A y \in T : y <= x}
<1>1. SUFFICES ASSUME S \in Bad PROVE FALSE
  OBVIOUS
<1>2. IsWellFoundedOn(StrictSubsetOrdering(S), SUBSET S)
  BY FS_StrictSubsetOrderingWellFounded, FS_FiniteSubsetsOfFinite
<1>3. PICK T \in Bad : \A U \in Bad : ~(<<U, T>> \in StrictSubsetOrdering(S))
  <2>1. Bad \subseteq SUBSET S /\ Bad # {}
    BY <1>1
  <2> HIDE DEF Bad
  <2>2. QED
    BY <1>2, <2>1, WFMin
<1>4. PICK x \in T : T \subseteq Nat
  OBVIOUS
<1>5. T \ {x} \notin Bad
  <2>1. <<T \ {x}, T>> \in StrictSubsetOrdering(S)
    BY <1>4 DEF StrictSubsetOrdering
  <2>2. QED
    BY <1>3, <2>1
<1>6. CASE T \ {x} = {}
  <2>1. x \in Nat /\ \A y \in T : y = x
    BY <1>4, <1>6
  <2>2. QED
    BY <1>4, <2>1
<1>7. CASE T \ {x} # {}
  <2>1. PICK m \in T \ {x} : \A y \in T \ {x} : y <= m
    BY <1>5, <1>7
  <2>2. CASE x <= m
    BY <1>4, <2>1, <2>2
  <2>3. CASE ~(x <= m)
    <3>1. \A y \in T : y <= x
      BY <1>4, <2>1, <2>3
    <3>2. QED
      BY <1>4, <3>1
  <2>4. QED
    BY <2>2, <2>3
<1>8. QED
  BY <1>6, <1>7

\* The values of a function on a finite set are finitely many.
LEMMA ImageFinite ==
  ASSUME NEW S, IsFiniteSet(S), NEW f
  PROVE  IsFiniteSet({f[x] : x \in S})
<1> DEFINE T == {f[x] : x \in S}
<1> DEFINE g == [x \in S |-> f[x]]
<1>1. g \in Surjection(S, T)
  BY DEF Surjection
<1>2. QED
  BY <1>1, FS_Surjection

LEMMA HighestOf ==
  ASSUME NEW S \in SUBSET Nat, IsFiniteSet(S)
  PROVE  Highest(S) \in S \cup {0} /\ \A y \in S : y <= Highest(S)
<1>1. IsFiniteSet(S \cup {0})
  BY FS_AddElement
<1>2. \E x \in S \cup {0} : \A y \in S \cup {0} : y <= x
  BY <1>1, MaxExists
<1>3. \E x \in S \cup {0} : \A y \in S : y <= x
  BY <1>2
<1>4. QED
  BY <1>3 DEF Highest

\* No node lies behind the last round.
LEMMA LastRoundOf ==
  ASSUME Shape
  PROVE  LastRound \in Nat /\ \A n \in Node : scene.round[n] <= LastRound
<1> DEFINE S == {scene.round[n] : n \in Node}
<1>1. S \in SUBSET Nat
  BY Layout
<1>2. IsFiniteSet(S)
  BY SceneAssumption, ImageFinite
<1>3. IsFiniteSet(S \cup {0})
  BY <1>2, FS_AddElement
<1>4. PICK x \in S \cup {0} : \A y \in S \cup {0} : y <= x
  <2>1. S \cup {0} \in SUBSET Nat /\ S \cup {0} # {}
    BY <1>1
  <2> HIDE DEF S
  <2>2. QED
    BY <1>3, <2>1, MaxExists
<1>5. \A n \in Node : scene.round[n] <= x
  BY <1>4
<1>6. LastRound \in S \cup {0} /\ \A n \in Node : scene.round[n] <= LastRound
  BY <1>4, <1>5 DEF LastRound
<1>7. QED
  BY <1>1, <1>6

\* The shares a node reads are finitely many numbers, and its own are numbers again.
LEMMA ShareTypes ==
  ASSUME Shape, TypeOK, NEW n \in Node
  PROVE  /\ {r.weight : r \in Results(n)} \in SUBSET (0 .. 100) /\ IsFiniteSet({r.weight : r \in Results(n)})
         /\ {r.concurrent : r \in Results(n)} \in SUBSET Nat /\ IsFiniteSet({r.concurrent : r \in Results(n)})
         /\ Weight(n) \in 0 .. 100 /\ Concurrent(n) \in Nat
<1>1. \A r \in Results(n) : r.weight \in 0 .. 100 /\ r.concurrent \in Nat
  BY Layout DEF Results, TypeOK
<1>2. IsFiniteSet(Results(n))
  <2>1. IsFiniteSet({q \in scene.pre[n] : preNodeMap[q].status # "absent"})
    BY Layout, SceneAssumption, FS_Subset
  <2>2. QED
    BY <2>1, ImageFinite DEF Results
<1> DEFINE W == {r.weight : r \in Results(n)}
<1> DEFINE C == {r.concurrent : r \in Results(n)}
<1>3. W \in SUBSET (0 .. 100) /\ C \in SUBSET Nat
  BY <1>1
<1>4. IsFiniteSet(W) /\ IsFiniteSet(C)
  <2> DEFINE weights == [r \in Results(n) |-> r.weight]
  <2> DEFINE shares == [r \in Results(n) |-> r.concurrent]
  <2>1. IsFiniteSet({weights[r] : r \in Results(n)}) /\ IsFiniteSet({shares[r] : r \in Results(n)})
    <3> HIDE DEF weights, shares
    <3> QED BY <1>2, ImageFinite
  <2>2. {weights[r] : r \in Results(n)} = W /\ {shares[r] : r \in Results(n)} = C
    OBVIOUS
  <2>3. QED
    BY <2>1, <2>2
<1>5. Highest(W) \in 0 .. 100 /\ Highest(C) \in Nat
  <2> HIDE DEF W, C
  <2>1. W \in SUBSET Nat
    BY <1>3
  <2>2. Highest(W) \in W \cup {0} /\ Highest(C) \in C \cup {0}
    BY <1>3, <1>4, <2>1, HighestOf
  <2>3. Highest(W) \in 0 .. 100
    <3>1. 0 \in 0 .. 100
      OBVIOUS
    <3>2. QED
      BY <1>3, <2>2, <3>1
  <2>4. Highest(C) \in Nat
    <3>1. 0 \in Nat
      OBVIOUS
    <3>2. QED
      BY <1>3, <2>2, <3>1
  <2>5. QED
    BY <2>3, <2>4
<1>6. Weight(n) \in 0 .. 100
  BY <1>5 DEF Weight, TypeOK, SceneRecord
<1>7. Concurrent(n) \in Nat
  <2>1. concurrency \in Nat
    BY SceneAssumption DEF TypeOK
  <2>2. \A w \in 0 .. 100, c \in Nat : Percent(w, c) \in Nat
    <3> TAKE w \in 0 .. 100, c \in Nat
    <3>1. w * c \in Nat
      OBVIOUS
    <3>2. QED
      BY <3>1 DEF Percent
  <2> DEFINE base == IF scene.pre[n] = {} THEN concurrency ELSE Highest(C)
  <2> DEFINE up == IF scene.pre[n] = {} /\ <<Weight(n), base>> \in FloatUp THEN 1 ELSE 0
  <2>3. Concurrent(n) = Percent(Weight(n), base) + up
    BY DEF Concurrent
  <2>4. base \in Nat /\ up \in Nat
    BY <1>5, <2>1
  <2> HIDE DEF base, up, C
  <2>5. Percent(Weight(n), base) \in Nat
    BY <1>6, <2>2, <2>4
  <2>6. QED
    BY <2>3, <2>4, <2>5
<1>8. QED
  BY <1>3, <1>4, <1>6, <1>7

LEMMA InitTypes == Init => TypeOK
<1> SUFFICES ASSUME Init PROVE TypeOK
  OBVIOUS
<1>1. Shape
  BY InitRounds
<1>2. <<goroutineId, concurrency>> \in Executions
  BY SceneAssumption DEF Init
<1>3. round \in 0 .. LastRound
  BY <1>1, LastRoundOf DEF Init
<1>4. preNodeMap \in [Node -> [status : {"absent", "End", "NotRun", "NotHit"}, concurrent : Nat, weight : 0 .. 100]]
  <2>1. [status |-> "absent", concurrent |-> 0, weight |-> 0]
          \in [status : {"absent", "End", "NotRun", "NotHit"}, concurrent : Nat, weight : 0 .. 100]
    OBVIOUS
  <2>2. QED
    BY <2>1 DEF Init
<1>5. QED
  BY <1>2, <1>3, <1>4, SceneAssumption DEF Init, TypeOK

\* A result that is stored has a status, a number of ids and a percentage.
LEMMA StoreTypes ==
  ASSUME Shape, TypeOK, NEW n \in Node, NEW status \in {"End", "NotRun", "NotHit"}, Store(n, status)
  PROVE  preNodeMap' \in [Node -> [status : {"absent", "End", "NotRun", "NotHit"}, concurrent : Nat, weight : 0 .. 100]]
<1> DEFINE r == [status |-> status, concurrent |-> IF Plan THEN Concurrent(n) ELSE 0, weight |-> Weight(n)]
<1>1. r \in [status : {"absent", "End", "NotRun", "NotHit"}, concurrent : Nat, weight : 0 .. 100]
  BY ShareTypes
<1>2. preNodeMap' = [preNodeMap EXCEPT ![n] = r]
  BY DEF Store
<1>3. QED
  BY <1>1, <1>2 DEF TypeOK

LEMMA StepTypes ==
  ASSUME Shape, RoundInv, TypeOK, [Next]_vars
  PROVE  TypeOK'
<1>1. Shape' /\ RoundInv' /\ UNCHANGED args
  <2>1. UNCHANGED args
    BY DEF Next, DisposeScene, Spawn, EndRound, Wait, DisposeNode, Skip, Run, Request, EndRequest, Decide,
       EndPause, Ignore, Done, Returned, vars
  <2>2. QED
    BY <2>1, StepShape, StepRounds
<1>2. sceneWg' \in Nat
  <2>1. IsFiniteSet(Active')
    BY SceneAssumption, FS_Subset DEF Active
  <2>2. QED
    BY <1>1, <2>1, FS_CardinalityType DEF RoundInv
<1>3. npc' \in [Node -> {"idle", "begin", "running", "requested", "done", "ended"}] /\ pc' \in {"spawn", "wait", "returned"}
  BY <1>1 DEF Shape, NodePc
<1>4. round' \in 0 .. LastRound'
  <2>1. LastRound' = LastRound /\ LastRound \in Nat
    BY <1>1, LastRoundOf DEF args, LastRound
  <2>2. round' = round \/ (round < LastRound /\ round' = round + 1)
    BY DEF Next, DisposeScene, Spawn, EndRound, Wait, DisposeNode, Skip, Run, Request, EndRequest, Decide,
       EndPause, Ignore, Done, Returned, vars
  <2>3. QED
    BY <2>1, <2>2 DEF TypeOK
<1>5. preNodeMap' \in [Node -> [status : {"absent", "End", "NotRun", "NotHit"}, concurrent : Nat, weight : 0 .. 100]]
  <2>1. ASSUME NEW n \in Node, NEW status \in {"End", "NotRun", "NotHit"}, Store(n, status)
        PROVE  preNodeMap' \in [Node -> [status : {"absent", "End", "NotRun", "NotHit"}, concurrent : Nat, weight : 0 .. 100]]
    BY <2>1, StoreTypes
  <2>2. \/ UNCHANGED preNodeMap
        \/ \E n \in Node : \E status \in {"End", "NotRun", "NotHit"} : Store(n, status)
    BY DEF Next, DisposeScene, Spawn, EndRound, Wait, DisposeNode, Skip, Run, Request, EndRequest, Decide,
       EndPause, Ignore, Done, Returned, StoreIfRead, vars
  <2>3. QED
    BY <2>1, <2>2 DEF TypeOK
<1>6. reported' \subseteq {n \in Node : scene.type[n] = "request"}
  <2>1. reported' = reported \/ \E n \in Node : scene.type[n] = "request" /\ reported' = reported \cup {n}
    BY DEF Next, DisposeScene, Spawn, EndRound, Wait, DisposeNode, Skip, Run, Request, EndRequest, Decide,
       EndPause, Ignore, Done, Returned, vars
  <2>2. QED
    BY <2>1 DEF TypeOK
<1>7. QED
  BY <1>1, <1>2, <1>3, <1>4, <1>5, <1>6 DEF TypeOK, args

\* Every reachable state of an execution is typed: a share is a number of ids, a weight a
\* percentage, however many predecessors a node takes the highest of (link.go:152-196).
THEOREM SceneTypes == Spec => []TypeOK
<1>1. Shape /\ RoundInv /\ TypeOK /\ [Next]_vars => TypeOK'
  BY StepTypes
<1>2. QED
  BY <1>1, InitTypes, SceneRounds, PTL DEF Spec

-----------------------------------------------------------------------------
(* Nodes with the full weight                                              *)

\* What may take ids away from the nodes behind m.
Narrows(m) ==
  \/ scene.type[m] = "sql" \/ preNodeMap[m].status = "NotHit"
  \/ ~Controller(m) /\ scene.weight[m] # 100

Narrowed(n) == \E m \in Node : (m = n \/ Behind(n, m)) /\ Narrows(m)

\* A node that nothing narrowed sends its record and hands the whole concurrency on.
FullInv ==
  Plan /\ goroutineId < concurrency =>
    \A n \in Node : ~Narrowed(n) =>
      /\ npc[n] \in {"requested", "done", "ended"} /\ scene.type[n] = "request" /\ ~scene.disabled[n]
           => n \in reported
      /\ npc[n] = "requested" => scene.type[n] \in {"request", "unsupported"}
      /\ npc[n] \in {"done", "ended"} /\ HasNext(n) =>
           /\ preNodeMap[n].status = "End" /\ preNodeMap[n].weight = 100
           /\ preNodeMap[n].concurrent >= concurrency

\* the last round is over
EndInv == pc = "returned" => round >= LastRound

LEMMA InitFull == Init => FullInv /\ EndInv
BY DEF Init, FullInv, EndInv

\* What narrows a node narrows those behind it.
LEMMA NarrowedSpreads ==
  ASSUME Shape, NEW n \in Node, NEW p \in scene.pre[n], Narrowed(p)
  PROVE  Narrowed(n)
<1>1. p \in Node
  BY Layout
<1>2. PICK m \in Node : (m = p \/ Behind(p, m)) /\ Narrows(m)
  BY DEF Narrowed
<1>3. CASE m = n
  BY <1>2, <1>3 DEF Narrowed
<1>4. CASE m # n
  <2>1. ASSUME NEW S \in SUBSET Node, m \in S, \A x \in Node : scene.pre[x] \cap S # {} => x \in S
        PROVE  n \in S
    <3>1. p \in S
      BY <1>2, <2>1 DEF Behind
    <3>2. QED
      BY <2>1, <3>1
  <2>2. Behind(n, m)
    BY <1>4, <2>1 DEF Behind
  <2>3. QED
    BY <1>2, <2>2 DEF Narrowed
<1>5. QED
  BY <1>3, <1>4

\* A node whose predecessors hand the whole concurrency on is neither blocked nor excluded,
\* and takes it over.
LEMMA FullShare ==
  ASSUME Shape, RoundInv, TypeOK, FullInv, Plan, goroutineId < concurrency,
         NEW n \in Node, ~Narrowed(n), npc[n] # "idle"
  PROVE  /\ ~Blocked(n) /\ ~Excluded(n)
         /\ Weight(n) = 100 /\ Concurrent(n) >= concurrency
<1>1. goroutineId \in Nat /\ concurrency \in Nat
  BY SceneAssumption DEF TypeOK
<1>2. Controller(n) \/ scene.weight[n] = 100
  BY DEF Narrowed, Narrows
<1>3. \A p \in scene.pre[n] :
        /\ p \in Node
        /\ preNodeMap[p].status = "End" /\ preNodeMap[p].weight = 100
        /\ preNodeMap[p].concurrent >= concurrency
  <2> TAKE p \in scene.pre[n]
  <2>1. p \in Node /\ ~Narrowed(p) /\ HasNext(p)
    BY Layout, NarrowedSpreads DEF HasNext
  <2>2. npc[p] = "ended"
    BY RoundsOrder DEF RunsAfterPredecessors
  <2>3. QED
    BY <2>1, <2>2 DEF FullInv
<1>4. /\ \A r \in Results(n) : r.status = "End" /\ r.weight = 100 /\ r.concurrent >= concurrency
      /\ scene.pre[n] # {} => Results(n) # {}
  BY <1>3 DEF Results
<1>5. Weight(n) = 100
  <2>1. CASE ~Controller(n) \/ scene.pre[n] = {}
    BY <1>2, <2>1 DEF Weight
  <2>2. CASE Controller(n) /\ scene.pre[n] # {}
    <3>1. {r.weight : r \in Results(n)} = {100}
      BY <1>4, <2>2
    <3>2. Highest({100}) = 100
      BY DEF Highest
    <3>3. QED
      BY <2>2, <3>1, <3>2 DEF Weight
  <2>3. QED
    BY <2>1, <2>2
<1> DEFINE C == {r.concurrent : r \in Results(n)}
<1> DEFINE base == IF scene.pre[n] = {} THEN concurrency ELSE Highest(C)
<1>6. base \in Nat /\ base >= concurrency
  <2>1. CASE scene.pre[n] = {}
    BY <1>1, <2>1
  <2>2. CASE scene.pre[n] # {}
    <3>1. C \in SUBSET Nat /\ IsFiniteSet(C) /\ \E c \in C : c >= concurrency
      <4>1. C \in SUBSET Nat /\ IsFiniteSet(C)
        BY ShareTypes
      <4>2. PICK r \in Results(n) : r.concurrent >= concurrency
        BY <1>4, <2>2
      <4>3. r.concurrent \in C
        BY <4>2
      <4>4. QED
        BY <4>1, <4>2, <4>3
    <3>2. Highest(C) \in C \cup {0} /\ \A c \in C : c <= Highest(C)
      <4> HIDE DEF C
      <4> QED BY <3>1, HighestOf
    <3>3. Highest(C) \in Nat
      <4> HIDE DEF C
      <4>1. 0 \in Nat
        OBVIOUS
      <4>2. QED
        BY <3>1, <3>2, <4>1
    <3>4. Highest(C) >= concurrency
      <4> HIDE DEF C
      <4>1. PICK c \in C : c >= concurrency
        BY <3>1
      <4>2. c \in Nat /\ c <= Highest(C)
        BY <3>1, <3>2
      <4>3. QED
        BY <1>1, <3>3, <4>1, <4>2
    <3>5. QED
      BY <2>2, <3>3, <3>4
  <2>3. QED
    BY <2>1, <2>2
<1>7. Concurrent(n) = Percent(100, base)
  <2>1. <<100, base>> \notin FloatUp
    BY SceneAssumption
  <2>2. Concurrent(n) = Percent(Weight(n), base) + IF scene.pre[n] = {} /\ <<Weight(n), base>> \in FloatUp THEN 1 ELSE 0
    BY DEF Concurrent
  <2>3. Percent(100, base) \in Nat
    <3> HIDE DEF base
    <3>1. QED
      BY <1>6 DEF Percent
  <2> HIDE DEF base
  <2>4. QED
    BY <1>5, <2>1, <2>2, <2>3
<1>8. Concurrent(n) = base
  <2> HIDE DEF base
  <2>1. (100 * base + 99) \div 100 = base
    BY <1>6
  <2>2. QED
    BY <1>7, <2>1 DEF Percent
<1>9. Concurrent(n) >= concurrency /\ Concurrent(n) \in Nat
  <2> HIDE DEF base
  <2> QED BY <1>6, <1>8
<1>10. ~Excluded(n)
  BY <1>1, <1>9 DEF Excluded
<1>11. QED
  BY <1>4, <1>5, <1>9, <1>10 DEF Blocked

\* What a node of the full weight does keeps it in.
LEMMA MovesFull ==
  ASSUME Shape, RoundInv, TypeOK, MissInv, FullInv, NEW n \in Node, Moves(n), DisposeNode(n)
  PROVE  FullInv'
<1>1. UNCHANGED args /\ npc[n] \notin {"idle", "done", "ended"} /\ npc'[n] \notin {"idle", "ended"}
  BY DEF Moves, Shape
<1>2. \A m \in Node \ {n} : npc'[m] = npc[m] /\ preNodeMap'[m] = preNodeMap[m]
  BY DEF Moves, Shape
<1>3. \A m \in Node : Narrows(m) => Narrows(m)'
  <2>1. preNodeMap[n].status # "NotHit"
    BY <1>1 DEF MissInv, Held
  <2>2. QED
    BY <1>1, <1>2, <2>1 DEF Narrows, Controller, args
<1>4. \A m \in Node : Narrowed(m) => Narrowed(m)'
  BY <1>1, <1>3 DEF Narrowed, Behind, args
<1>5. reported \subseteq reported' /\ (\A m \in Node : HasNext(m)' = HasNext(m))
  BY <1>1 DEF Moves, HasNext, args
<1> SUFFICES ASSUME Plan, goroutineId < concurrency, ~Narrowed(n)'
             PROVE  /\ npc'[n] \in {"requested", "done", "ended"} /\ scene.type[n] = "request" /\ ~scene.disabled[n]
                         => n \in reported'
                    /\ npc'[n] = "requested" => scene.type[n] \in {"request", "unsupported"}
                    /\ npc'[n] \in {"done", "ended"} /\ HasNext(n) =>
                         /\ preNodeMap'[n].status = "End" /\ preNodeMap'[n].weight = 100
                         /\ preNodeMap'[n].concurrent >= concurrency
  BY <1>1, <1>2, <1>4, <1>5 DEF FullInv, args, Plan
<1>6. /\ ~Blocked(n) /\ ~Excluded(n)
      /\ Weight(n) = 100 /\ Concurrent(n) >= concurrency
  BY <1>1, <1>4, FullShare
<1>7. /\ npc[n] = "requested" => scene.type[n] \in {"request", "unsupported"}
      /\ npc[n] = "requested" /\ scene.type[n] = "request" /\ ~scene.disabled[n] => n \in reported
  BY <1>4 DEF FullInv
<1>8. preNodeMap'[n].status # "NotHit" /\ scene.type[n] # "sql"
  BY <1>1 DEF Narrowed, Narrows, args
<1>9. Store(n, "End") => /\ preNodeMap'[n].status = "End" /\ preNodeMap'[n].weight = 100
                         /\ preNodeMap'[n].concurrent >= concurrency
  BY <1>6 DEF Store, Shape
<1>10. Store(n, "NotHit") => FALSE
  BY <1>8 DEF Store, Shape
<1>11. CASE Skip(n)
  BY <1>6, <1>9, <1>11 DEF Skip, Shape
<1>12. CASE Run(n)
  BY <1>12 DEF Run, Shape
<1>13. CASE Request(n)
  BY <1>13 DEF Request, Shape
<1>14. CASE EndRequest(n)
  BY <1>5, <1>7, <1>9, <1>14 DEF EndRequest, StoreIfRead, Shape
<1>15. CASE Decide(n)
  BY <1>9, <1>10, <1>15 DEF Decide, Shape
<1>16. CASE EndPause(n)
  BY <1>9, <1>16 DEF EndPause, StoreIfRead, Shape
<1>17. CASE Ignore(n)
  BY <1>8, <1>17 DEF Ignore
<1>18. CASE Done(n)
  BY <1>1, <1>18 DEF Done
<1>19. QED
  BY <1>11, <1>12, <1>13, <1>14, <1>15, <1>16, <1>17, <1>18 DEF DisposeNode

LEMMA StepFull ==
  ASSUME Shape, RoundInv, TypeOK, MissInv, FullInv, EndInv, [Next]_vars
  PROVE  FullInv' /\ EndInv'
<1>1. ASSUME UNCHANGED <<args, preNodeMap, reported>>,
             \A m \in Node : \/ npc'[m] = npc[m]
                             \/ npc'[m] = "begin"
                             \/ npc[m] = "done" /\ npc'[m] = "ended"
      PROVE  FullInv'
  <2>1. \A m \in Node : (Narrowed(m)' <=> Narrowed(m)) /\ (HasNext(m)' <=> HasNext(m))
    BY <1>1 DEF Narrowed, Narrows, Behind, Controller, HasNext, args
  <2>2. QED
    BY <1>1, <2>1 DEF FullInv, args, Plan
<1>2. ASSUME UNCHANGED <<args, round, pc>> PROVE EndInv'
  BY <1>2 DEF EndInv, LastRound, args
<1>3. ASSUME NEW n \in Node, Spawn(n) PROVE FullInv' /\ EndInv'
  BY <1>1, <1>2, <1>3 DEF Spawn, Shape
<1>4. ASSUME NEW n \in Node, Done(n) PROVE FullInv' /\ EndInv'
  BY <1>1, <1>2, <1>4 DEF Done, Shape
<1>5. CASE EndRound
  BY <1>1, <1>5 DEF EndRound, EndInv
<1>6. CASE Wait
  <2>1. pc' = "returned" => ~(round < LastRound) /\ round' = round
    BY <1>6 DEF Wait
  <2>2. LastRound' = LastRound /\ LastRound \in Nat /\ round \in Nat
    BY <1>6, LastRoundOf DEF Wait, LastRound, args, Shape
  <2>3. EndInv'
    BY <2>1, <2>2 DEF EndInv
  <2>4. QED
    BY <1>1, <1>6, <2>3 DEF Wait
<1>7. CASE UNCHANGED vars
  BY <1>1, <1>2, <1>7 DEF vars
<1>8. ASSUME NEW n \in Node, DisposeNode(n), ~Done(n) PROVE FullInv' /\ EndInv'
  BY <1>2, <1>8, NodeMoves, MovesFull DEF Moves
<1>9. QED
  BY <1>3, <1>4, <1>5, <1>6, <1>7, <1>8 DEF Next, DisposeScene, Returned

\* An execution that returned ran every node.
LEMMA FullReports ==
  ASSUME Shape, RoundInv, FullInv, EndInv
  PROVE  FullWeightReports
<1> SUFFICES ASSUME Plan, pc = "returned", goroutineId < concurrency, NEW n \in Node,
                    n \notin reported, scene.type[n] = "request", ~scene.disabled[n]
             PROVE  \E m \in Node : (m = n \/ Behind(n, m)) /\ Narrows(m)
  BY DEF FullWeightReports, Narrows
<1>1. npc[n] # "idle"
  <2>1. {round, LastRound, scene.round[n]} \subseteq Nat /\ scene.round[n] <= LastRound /\ round >= LastRound
    BY LastRoundOf, Layout DEF Shape, EndInv
  <2>2. QED
    BY <2>1 DEF RoundInv
<1>2. npc[n] = "ended"
  BY <1>1 DEF RoundInv, Active
<1>3. QED
  BY <1>2 DEF FullInv, Narrowed

\* In every scene, a request with the full weight, behind nodes with the full weight, sends
\* its record for every id below the concurrency, unless something in front of it missed or
\* stores nothing (link.go:108-196).
THEOREM SceneFullWeightReports == Spec => []FullWeightReports
<1>1. Shape /\ RoundInv /\ MissInv /\ TypeOK /\ FullInv /\ EndInv /\ [Next]_vars
        => MissInv' /\ FullInv' /\ EndInv'
  BY StepMiss, StepFull
<1>2. Init => MissInv /\ FullInv /\ EndInv
  BY InitMiss, InitFull
<1>3. Shape /\ RoundInv /\ FullInv /\ EndInv => FullWeightReports
  BY FullReports
<1>4. QED
  BY <1>1, <1>2, <1>3, SceneRounds, SceneTypes, PTL DEF Spec
=============================================================================
