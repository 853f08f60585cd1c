---------------------------- MODULE SceneVariables ----------------------------
(***************************************************************************)
(* The variables of a scene that all workers of a task execute.  The rows  *)
(* of the parameter files, and what the prepositions selected, are dealt   *)
(* under a lock; the values drawn are appended, outside it, to the slice   *)
(* of scene variables all workers share, and each execution loads its own  *)
(* map of variables from that slice.  Its requests are then prepared, sent *)
(* and evaluated, those of a round by a goroutine each over that one map;  *)
(* HttpRequest, SqlRequest and DubboRequest say how.  Dubbo references are *)
(* shared by all goroutines of all workers.                                *)
(***************************************************************************)
EXTENDS SqlRequest, DubboRequest

CONSTANTS
  Workers,
  Plans,         \* files, prepositions, globals of plan, scene and api, requests, the round each
                 \* one is in, debug, and a bound: executions, how many executions are started
  Responses,     \* answers of an HTTP server
  DubboAnswers   \* answers of a Dubbo service

\* a parameter file, and a scene of a plan
IsFile(f) == /\ IsList(f.names) /\ f.checked \in BOOLEAN /\ f.reached \in BOOLEAN
             /\ \A n \in ToSet(f.names) : n.spaced \in BOOLEAN
             /\ IsList(f.rows) /\ \A line \in ToSet(f.rows) : IsList(line)
IsPlan(p) == /\ \A g \in {p.globals, p.scene, p.api} : IsGlobal(g)
             /\ IsList(p.requests) /\ p.requests # <<>>
             /\ \A r \in ToSet(p.requests) : r.kind = "http" => IsRequest(r)
             /\ p.round \in [DOMAIN p.requests -> 1 .. Len(p.requests)]
             /\ IsList(p.files) /\ \A f \in ToSet(p.files) : IsFile(f)
             /\ IsList(p.prepositions) /\ \A q \in ToSet(p.prepositions) : IsList(q.regex)
             /\ p.executions \in Nat

ASSUME VariablesAssumption == IsFiniteSet(Workers) /\ \A p \in Plans : IsPlan(p)

VARIABLES
  plan,
  pc,          \* TaskDecomposition: "setup", "run"
  file,        \* VarMapLists: the rows of each column
  index,       \* VarMapList.Index of each column, from 1
  globals,     \* scene.Configuration.SceneVariable
  list,        \* SceneVariable.Variable, shared by the workers
  started,     \* executions started
  at,          \* where each worker is: "idle", "append", "round"
  kv,          \* the drawn values not yet appended
  copy,        \* the slice an append read, <<FALSE>> when none
  vars,        \* globalVar of the execution
  round,       \* the round it is in, 0 when in none
  node,        \* where the goroutine of each node is: "off", "prepare", "replace", "sent",
               \* for Dubbo "init", "store", "invoke", and "done"
  prepared,    \* the variables as they were when the replacing began; then the request with
               \* its variables replaced, and what they were; whether Dubbo has a reference
  references,  \* RpcServerMap: the services there is a reference to
  made,        \* history: how many references were made
  result,      \* what a node of the round reported, the answer it is about and the
               \* assertions, or the parameters of a Dubbo request, it was obtained with
  drawn,       \* history: the row of the execution
  dealt,       \* history: how often each row was dealt
  overlapped,  \* history: another execution drew or appended meanwhile
  crashed

tables     == <<plan, pc, file, globals>>
drawing    == <<started, index, list, kv, copy, drawn, dealt, overlapped>>
sharing    == <<references, made>>
running    == <<vars, round, node, prepared, result>>
everything == <<tables, drawing, sharing, running, at, crashed>>

Columns == DOMAIN file
NoResult == [kind |-> "none"]

\* a goroutine: a worker, and the node of its scene
Nodes == Workers \X DOMAIN plan.requests
Current(g) == plan.requests[g[2]]

-----------------------------------------------------------------------------
(* Setting up                                                              *)

\* the columns a file names, spaced names included
Columned(now, f) ==
  [c \in DOMAIN now \cup {n.name : n \in ToSet(f.names)} |-> IF c \in DOMAIN now THEN now[c] ELSE <<>>]

\* a line may be short
Value(line, i) == IF i \in DOMAIN line THEN line[i] ELSE <<>>

\* the column of a spaced name gets no rows of this file
FillName(now, f, line, i) ==
  IF f.names[i].spaced THEN now ELSE [now EXCEPT ![f.names[i].name] = Append(@, Value(line, i))]

FillLine(now, f, line) == FoldLeft(LAMBDA t, i : FillName(t, f, line, i), now, Indices(f.names))

FillRows(now, f) == FoldLeft(LAMBDA t, line : FillLine(t, f, line), now, f.rows)

\* a file that can be fetched: names in its first line, then rows
AddFile(now, f) == IF f.checked /\ f.reached THEN FillRows(Columned(now, f), f) ELSE now

UseFile(files) == FoldLeft(AddFile, <<>>, files)

\* sqlMap.Range: texts and lists of texts become rows, anything else an empty column
Rows(v) == CASE v.type = "string" -> <<v.text>> [] v.type = "list" -> v.text [] OTHER -> <<>>

AddSql(now, sqlMap) ==
  LET Old(c) == IF c \in DOMAIN now THEN now[c] ELSE <<>>
      New(c) == IF c \in DOMAIN sqlMap THEN Rows(sqlMap[c]) ELSE <<>>
  IN [c \in DOMAIN now \cup DOMAIN sqlMap |-> Old(c) \o New(c)]

\* the prepositions that are executed, and what they select from their answers
Used == {i \in DOMAIN plan.prepositions : ~plan.prepositions[i].disabled}

SqlOne(now, sql, i, answers) == IF i \in DOMAIN answers THEN RegexSql(sql.regex, now, answers[i]) ELSE now

SqlMap(prepositions, answers) ==
  FoldLeft(LAMBDA now, i : SqlOne(now, prepositions[i], i, answers), <<>>, Indices(prepositions))

\* ExecutionPlan and TaskDecomposition up to the mode
Setup ==
  /\ pc = "setup"
  /\ LET merged == InitReplace(SupToSub(InitReplace(plan.globals), plan.scene))
         sqls   == plan.prepositions
     IN /\ globals' = merged
        /\ list' = merged.variable
        /\ \E answers \in {f \in [Used -> UNION {SqlAnswers(sqls[i]) : i \in Used}] :
                             \A i \in Used : f[i] \in SqlAnswers(sqls[i])} :
             /\ crashed' = \E i \in Used : SqlFails(sqls[i], answers[i])
             /\ file' = IF crashed' THEN <<>> ELSE AddSql(UseFile(plan.files), SqlMap(sqls, answers))
  /\ pc' = "run"
  /\ index' = [c \in DOMAIN file' |-> 1]
  /\ dealt' = [c \in DOMAIN file' |-> [i \in DOMAIN file'[c] |-> 0]]
  /\ UNCHANGED <<plan, sharing, running, started, kv, copy, drawn, overlapped, at>>

-----------------------------------------------------------------------------
(* Drawing and loading                                                     *)

\* Faulty variant: the wrap comes a row early.
WrappedEarly(c) == IF index[c] >= Len(file[c]) THEN 1 ELSE index[c]

\* the row dealt next, after wrapping around
Wrapped(c) == IF index[c] > Len(file[c]) THEN 1 ELSE index[c]

Cell(c, row) == IF file[c] = <<>> THEN <<>> ELSE file[c][row]

\* the variables drawn, in the order the columns were ranged over
Drawn(row, order) == Each(LAMBDA c : [checked |-> TRUE, key |-> c, value |-> Cell(c, row[c])], order)

\* VarToSceneKV, under configuration.Mu; a map is ranged over in any order
Draw(w) ==
  LET row == [c \in Columns |-> Wrapped(c)]
  IN /\ at[w] = "idle"
     /\ pc = "run"
     /\ started < plan.executions
     /\ started' = started + 1
     /\ index' = [c \in Columns |-> row[c] + 1]
     /\ \E order \in SetToSeqs(Columns) : kv' = [kv EXCEPT ![w] = Drawn(row, order)]
     /\ at' = [at EXCEPT ![w] = "append"]
     /\ drawn' = [drawn EXCEPT ![w] = row]
     /\ dealt' = [c \in Columns |-> [i \in DOMAIN dealt[c] |-> IF i = row[c] THEN dealt[c][i] + 1 ELSE dealt[c][i]]]
     /\ LET busy == {v \in Workers : at[v] = "append"}
        IN overlapped' = [v \in Workers |-> IF v = w THEN busy # {} ELSE overlapped[v] \/ v \in busy]
     /\ UNCHANGED <<tables, sharing, running, list, copy, crashed>>

\* append(Variable, varForm) reads the shared slice
ReadList(w) ==
  /\ at[w] = "append" /\ kv[w] # <<>> /\ copy[w] = <<FALSE>>
  /\ copy' = [copy EXCEPT ![w] = <<TRUE, list>>]
  /\ UNCHANGED <<tables, sharing, running, started, index, list, kv, drawn, dealt, overlapped, at, crashed>>

\* and assigns it
WriteList(w) ==
  /\ copy[w] # <<FALSE>>
  /\ list' = Append(copy[w][2], Head(kv[w]))
  /\ kv' = [kv EXCEPT ![w] = Tail(@)]
  /\ copy' = [copy EXCEPT ![w] = <<FALSE>>]
  /\ UNCHANGED <<tables, sharing, running, started, index, drawn, dealt, overlapped, at, crashed>>

\* Faulty variant: a variable that is there is kept.
LoadedFirst(l) ==
  FoldLeft(LAMBDA now, v : IF v.checked /\ v.key \notin DOMAIN now THEN Set(now, v.key, String(Filled(v.value, <<>>))) ELSE now, <<>>, l)

\* globalVar.Store of a variable, then the functions in its value
Store(now, v) == IF v.checked THEN Set(now, v.key, String(Filled(v.value, <<>>))) ELSE now

Loaded(l) == FoldLeft(Store, <<>>, l)

\* go disposePlanNode for each node of a round
StartRound(w, k) ==
  /\ round' = [round EXCEPT ![w] = k]
  /\ node' = [g \in Nodes |-> IF g[1] # w THEN node[g] ELSE IF plan.round[g[2]] = k THEN "prepare" ELSE "off"]

Load(w) ==
  /\ at[w] = "append" /\ kv[w] = <<>>
  /\ vars' = [vars EXCEPT ![w] = Loaded(list)]
  /\ at' = [at EXCEPT ![w] = "round"]
  /\ StartRound(w, 1)
  /\ UNCHANGED <<tables, drawing, sharing, prepared, result, crashed>>

-----------------------------------------------------------------------------
(* The requests of an execution                                            *)

Is(g, where, kind) == node[g] = where /\ Current(g).kind = kind

\* the requests of an execution up to the replacing
Begin(g) ==
  /\ Is(g, "prepare", "http")
  /\ prepared' = [prepared EXCEPT ![g] = <<vars[g[1]]>>]
  /\ node' = [node EXCEPT ![g] = "replace"]
  /\ UNCHANGED <<tables, drawing, sharing, at, vars, round, result, crashed>>

\* what replacing finds in a map that other nodes store into meanwhile
Mixed(old, new) ==
  {[x \in DOMAIN old \cup seen |-> IF x \in seen THEN new[x] ELSE old[x]] :
     seen \in SUBSET {x \in DOMAIN new : x \notin DOMAIN old \/ old[x] # new[x]}}

\* disposePlanNode and DisposeRequest up to the request itself
Prepare(g) ==
  /\ Is(g, "replace", "http")
  /\ \E view \in Mixed(prepared[g][1], vars[g[1]]) :
       LET api  == SupToSub(globals, InitReplace(plan.api))
           full == GlobalToRequest(Current(g), api)
           real == ReplaceQueryParameterizes(full, view)
           dies == ReplaceFails(full, view) \/ SendFails(real)
       IN /\ crashed' = dies
          /\ prepared' = IF dies THEN prepared ELSE [prepared EXCEPT ![g] = <<real, view>>]
          /\ node' = IF dies THEN node ELSE [node EXCEPT ![g] = "sent"]
  /\ UNCHANGED <<tables, drawing, sharing, at, vars, round, result>>

\* the end of DisposeRequest, unless the process died
Report(g, dies, after, r) ==
  /\ crashed' = dies
  /\ IF dies THEN UNCHANGED <<vars, result, prepared, node>>
     ELSE /\ vars' = [vars EXCEPT ![g[1]] = after]
          /\ result' = [result EXCEPT ![g] = r]
          /\ prepared' = [prepared EXCEPT ![g] = <<>>]
          /\ node' = [node EXCEPT ![g] = "done"]
  /\ UNCHANGED <<tables, drawing, sharing, at, round>>

Reported(g, succeed, errorType, recorded, with, answer) ==
  [kind |-> Current(g).kind, succeed |-> succeed, errorType |-> errorType,
   recorded |-> recorded, with |-> with, answer |-> answer]

\* the rest of RequestHttp.Send
Respond(g) ==
  /\ Is(g, "sent", "http")
  /\ \E resp \in Responses :
       LET r   == prepared[g][1]
           now == vars[g[1]]
           o   == Outcome(r, resp)
       IN Report(g, WithdrawFails(r.regex, now, resp), Withdraw(r.regex, now, resp),
                 Reported(g, o.succeed, o.errorType, Recorded(plan.debug, o.succeed), r.assert, resp))

\* SQLDetail.Send, whose statement keeps its references; the type of an error is left 0
QuerySql(g) ==
  /\ Is(g, "prepare", "sql")
  /\ \E answer \in SqlAnswers(Current(g)) :
       LET succeed == SqlSucceeds(Current(g), answer)
       IN Report(g, SqlFails(Current(g), answer), RegexSql(Current(g).regex, vars[g[1]], answer),
                 Reported(g, succeed, "unset", SqlRecorded(plan.debug, succeed), Current(g).assert, answer))

Move(g, to) ==
  /\ node' = [node EXCEPT ![g] = to]
  /\ UNCHANGED <<tables, drawing, at, vars, round, result, crashed>>

\* DubboDetail.Send: the map of references
LookUp(g) ==
  /\ Is(g, "prepare", "dubbo")
  /\ prepared' = [prepared EXCEPT ![g] = <<Current(g).service \in references>>]
  /\ Move(g, IF Current(g).service \in references THEN "invoke" ELSE "init")
  /\ UNCHANGED sharing

\* init: the configuration is refused, or panics and is recovered
InitFails(g) ==
  /\ Is(g, "init", "dubbo")
  /\ Move(g, "invoke")
  /\ UNCHANGED <<prepared, sharing>>

\* init: the map is looked at once more before a reference is made
InitDubbo(g) ==
  /\ Is(g, "init", "dubbo")
  /\ LET there == Current(g).service \in references
     IN /\ prepared' = [prepared EXCEPT ![g] = <<TRUE>>]
        /\ made' = [made EXCEPT ![Current(g).service] = IF there THEN @ ELSE @ + 1]
        /\ Move(g, IF there THEN "invoke" ELSE "store")
  /\ UNCHANGED references

\* Faulty variant: the reference is not kept.
StoreNothing(g) ==
  /\ Is(g, "store", "dubbo")
  /\ Move(g, "invoke")
  /\ UNCHANGED <<prepared, sharing>>

StoreReference(g) ==
  /\ Is(g, "store", "dubbo")
  /\ references' = references \cup {Current(g).service}
  /\ Move(g, "invoke")
  /\ UNCHANGED <<prepared, made>>

\* the rest of DubboDetail.Send; nothing of its outcome reaches the result
Invoke(g) ==
  /\ Is(g, "invoke", "dubbo")
  /\ \E answer \in IF prepared[g][1] THEN DubboAnswers ELSE Unreached :
       LET status == Status(prepared[g][1], answer)
           rules  == Current(g).regex
       IN Report(g, ExtractFails(rules, vars[g[1]], answer), DubboExtract(rules, vars[g[1]], answer),
                 Reported(g, FALSE, "unset", DubboRecorded(plan.debug, status), ParamInit(Current(g).param), answer))

DisposeNode(g) ==
  \/ Begin(g) \/ Prepare(g) \/ Respond(g) \/ QuerySql(g)
  \/ LookUp(g) \/ InitFails(g) \/ InitDubbo(g) \/ StoreReference(g) \/ Invoke(g)

\* Faulty variant: one node that ended is enough.
FirstEnded(w) ==
  IF \E n \in DOMAIN plan.requests : plan.round[n] = round[w] /\ node[<<w, n>>] = "done"
  THEN {} ELSE {n \in DOMAIN plan.requests : plan.round[n] = round[w]}

\* the nodes of the worker's round that have not ended
Unfinished(w) == {n \in DOMAIN plan.requests : plan.round[n] = round[w] /\ node[<<w, n>>] # "done"}

\* sceneWg.Wait: the next round, or the end of the execution
NextRound(w) ==
  /\ at[w] = "round" /\ Unfinished(w) = {}
  /\ IF \E n \in DOMAIN plan.requests : plan.round[n] > round[w]
     THEN StartRound(w, round[w] + 1) /\ UNCHANGED at
     ELSE StartRound(w, 0) /\ at' = [at EXCEPT ![w] = "idle"]
  /\ result' = [g \in Nodes |-> IF g[1] = w THEN NoResult ELSE result[g]]
  /\ UNCHANGED <<tables, drawing, sharing, vars, prepared, crashed>>

DisposeScene(w) == Draw(w) \/ ReadList(w) \/ WriteList(w) \/ Load(w) \/ NextRound(w)

-----------------------------------------------------------------------------
Init ==
  /\ plan \in Plans
  /\ pc = "setup"
  /\ globals = plan.scene
  /\ list = <<>>
  /\ file = <<>> /\ index = <<>> /\ dealt = <<>>
  /\ started = 0
  /\ at = [w \in Workers |-> "idle"]
  /\ kv = [w \in Workers |-> <<>>]
  /\ copy = [w \in Workers |-> <<FALSE>>]
  /\ vars = [w \in Workers |-> <<>>]
  /\ round = [w \in Workers |-> 0]
  /\ node = [g \in Nodes |-> "off"]
  /\ prepared = [g \in Nodes |-> <<>>]
  /\ result = [g \in Nodes |-> NoResult]
  /\ drawn = [w \in Workers |-> <<>>]
  /\ references = {}
  /\ made = [s \in {r.service : r \in {q \in ToSet(plan.requests) : q.kind = "dubbo"}} |-> 0]
  /\ overlapped = [w \in Workers |-> FALSE]
  /\ crashed = FALSE

\* a panic ends the process
Next == ~crashed /\ (Setup \/ (\E w \in Workers : DisposeScene(w)) \/ \E g \in Nodes : DisposeNode(g))

Spec == Init /\ [][Next]_everything

-----------------------------------------------------------------------------
(* Properties                                                              *)

\* What the files and the prepositions leave in a column is a sequence of rows.
ColumnsAreRows == \A c \in Columns : file[c] \in Seq(ToSet(file[c]))

\* The types; a node runs only in the round its worker is in, an append is under way
\* only before the first one, and what is prepared is gone when the node has ended.
TypeOK ==
  /\ plan \in Plans
  /\ pc \in {"setup", "run"}
  /\ ColumnsAreRows
  /\ index \in [Columns -> Nat \ {0}] /\ \A c \in Columns : file[c] # <<>> => index[c] <= Len(file[c]) + 1
  /\ started \in 0 .. plan.executions
  /\ at \in [Workers -> {"idle", "append", "round"}]
  /\ round \in [Workers -> 0 .. Len(plan.requests)]
  /\ node \in [Nodes -> {"off", "prepare", "replace", "sent", "init", "store", "invoke", "done"}]
  /\ \A w \in Workers :
       /\ round[w] = 0 <=> at[w] \in {"idle", "append"}
       /\ kv[w] # <<>> => at[w] = "append"
       /\ copy[w] # <<FALSE>> => kv[w] # <<>>
  /\ \A g \in Nodes :
       /\ node[g] # "off" <=> plan.round[g[2]] = round[g[1]]
       /\ prepared[g] # <<>> <=> node[g] \in {"replace", "sent", "init", "store", "invoke"}
  /\ references \subseteq DOMAIN made
  /\ crashed \in BOOLEAN

\* Whatever the workers do, the rows of each column are dealt in the order of the
\* file and as evenly as possible: none twice before every other one was dealt
\* (VarToSceneKV under the mutex, scene.go:41-62).
RowsAreDealtInTurn ==
  \A c \in Columns : \A i, j \in DOMAIN dealt[c] :
    i < j => dealt[c][i] \in {dealt[c][j], dealt[c][j] + 1}

\* no name stands twice in the first line: its column would get two values of each line
Distinct(f) ==
  \A i, j \in DOMAIN f.names :
    ~f.names[i].spaced /\ ~f.names[j].spaced /\ f.names[i].name = f.names[j].name => i = j

\* the execution is in its first round and no node of it has ended
Fresh(w) == round[w] = 1 /\ \A n \in DOMAIN plan.requests : node[<<w, n>>] # "done"

\* An execution that no other one disturbed while it drew and appended starts with
\* what it drew, whatever rows earlier executions left in the slice and whatever
\* variables of those names the plan or the scene has; and when all columns come from
\* one file whose names differ, these are the values of one line of it (file.go:38-88,
\* link.go:25-49).
UndisturbedSceneHasItsRow ==
  \A w \in Workers :
    Fresh(w) /\ ~overlapped[w] =>
      /\ \A c \in Columns : c \in DOMAIN vars[w] /\ vars[w][c] = String(Filled(Cell(c, drawn[w][c]), <<>>))
      /\ (Len(plan.files) = 1 /\ plan.prepositions = <<>> /\ Columns # {}) =>
           LET f == plan.files[1]
           IN f.rows # <<>> /\ Distinct(f) => \E line \in ToSet(f.rows) : \A i \in DOMAIN f.names :
                ~f.names[i].spaced =>
                  vars[w][f.names[i].name] = String(Filled(Value(line, i), <<>>))

Levels == {plan.globals, plan.scene, plan.api}

\* A header the request sets itself is sent with its own value, whatever the plan,
\* the scene and the api set under that name and whatever other nodes of the round
\* store while its references are replaced, unless a name is computed
\* (GlobalToRequest, request.go:59-80; fields of one name replace each other in
\* the order they are set, request_http.go:992-1010).
OwnHeaderWins ==
  \A g \in Nodes : node[g] = "sent" =>
    LET own == Current(g).header
        all == ToSet(own) \cup UNION {ToSet(l.header) : l \in Levels}
        set == SetHeader(Each(LAMBDA f : FillField(f, prepared[g][2]), own))
    IN (\A f \in all : Tokens(f.key) = <<>>) =>
         LET real == Request(prepared[g][1]).header
         IN \A k \in DOMAIN set : k \in DOMAIN real /\ real[k] = set[k]

\* the assertions made of a request
Stated(request) == {a \in ToSet(request.assert) \cup UNION {ToSet(g.assert) : g \in Levels} : a.checked}

\* b, once its references are replaced, may be taken for a
MayAgree(a, b) == a.var = b.var /\ a.compare = b.compare /\ (a.val = b.val \/ Tokens(b.val) # <<>>)

\* An assertion counts at whatever level it was made, of the plan, the scene, the
\* api or the request: when the answer refutes it the request fails as an assertion
\* error, whichever other assertions hold; and a request fails only for an assertion
\* or for want of an answer.  Assertions with references are left aside, and those
\* another one may be taken for: SupToSub does not compare the target (scene.go:146),
\* and compares what the references of the other one were replaced by.
AssertionsOfEveryLevelCount ==
  \A g \in Nodes : result[g].kind = "http" =>
    LET stated == Stated(Current(g))
        Plain(a) == /\ Tokens(a.var) = <<>> /\ Tokens(a.val) = <<>>
                    /\ \A b \in stated : MayAgree(a, b) => a = b
        Holds(a) == VerifyAssertionText(a, result[g].answer)
    IN /\ \A a \in stated : Plain(a) /\ ~Holds(a) => ~result[g].succeed /\ result[g].errorType = "assert"
       /\ ~result[g].succeed => \/ result[g].answer.error
                                \/ \E a \in ToSet(result[g].with) : a.checked /\ ~Holds(a)

\* the nodes of a round that ask a Dubbo service
Asking(s, k) ==
  {n \in DOMAIN plan.requests :
     plan.round[n] = k /\ plan.requests[n].kind = "dubbo" /\ plan.requests[n].service = s}

\* When no round has more than m nodes that ask a Dubbo service, at most m references
\* per worker are made to it, however many executions there are: the map is looked at
\* twice and what was made is kept, but nothing is locked, and all the nodes that are
\* at it at once may make one (request_dubbo.go:100-104, 208-216; link.go:70-93).
ReferencesAreShared ==
  \A s \in DOMAIN made : \A m \in 1 .. Len(plan.requests) :
    (\A k \in 1 .. Len(plan.requests) : Cardinality(Asking(s, k)) <= m) => made[s] <= Cardinality(Workers) * m

\* What a field of the result says (result.go:89): a request that got no answer is
\* not counted among those that succeeded.
NoAnswerIsNoSuccess ==
  \A g \in Nodes : result[g].kind = "http" => (result[g].answer.error => ~result[g].succeed)
=============================================================================
