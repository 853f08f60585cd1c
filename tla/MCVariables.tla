------------------------------ MODULE MCVariables ------------------------------
(***************************************************************************)
(* Two workers, two or three executions.  Each plan is about one thing: the *)
(* file, the levels of headers and assertions, the parts of a request,     *)
(* what extraction hands from one request to the next, two requests in one *)
(* round, what ends the process.                                           *)
(***************************************************************************)
EXTENDS SceneVariables

CONSTANTS w1, w2

MCSymmetry == Permutations({w1, w2})

MCWorkers == {w1, w2}
MCNumbers == [n \in {"200", "404", "5", "7"} |->
                CASE n = "200" -> 200 [] n = "404" -> 404 [] n = "5" -> 5 [] n = "7" -> 7]

L(s)  == <<Literal(s)>>
Ref(x) == <<Reference(x)>>
Field(k, v) == [checked |-> TRUE, key |-> k, value |-> v, type |-> "string", fieldType |-> "string"]
Off(f)      == [f EXCEPT !.checked = FALSE]
Var(k, v)   == [checked |-> TRUE, key |-> k, value |-> v]
Check(target, compare, var, val) ==
  [checked |-> TRUE, target |-> target, compare |-> compare, var |-> var, val |-> val]
Rule(type, var, express) == [checked |-> TRUE, type |-> type, var |-> var, express |-> express]

Nothing == [header |-> <<>>, cookie |-> <<>>, variable |-> <<>>, assert |-> <<>>]
Body(mode, parameter, raw) == [mode |-> mode, parameter |-> parameter, raw |-> raw]
Simple == [kind |-> "http", url |-> L("u"), body |-> Body("none", <<>>, <<>>), query |-> <<>>, header |-> <<>>, cookie |-> <<>>,
           auth |-> [type |-> "noauth", texts |-> <<>>], assert |-> <<>>, regex |-> <<>>,
           missing |-> {}, keepAlive |-> FALSE]
Plain == [files |-> <<>>, prepositions |-> <<>>, globals |-> Nothing, scene |-> Nothing, api |-> Nothing,
          requests |-> <<Simple>>, round |-> <<1>>, debug |-> "all", executions |-> 2]

Name(n) == [name |-> n, spaced |-> FALSE]
File(names, rows) == [checked |-> TRUE, reached |-> TRUE, names |-> names, rows |-> rows]
Pair == <<Name("a"), Name("b")>>
UseAB == [Simple EXCEPT !.url = L("u") \o Ref("a"), !.query = <<Field(L("q"), Ref("b"))>>]

Sql(select, assert, regex) ==
  [kind |-> "sql", disabled |-> FALSE, driver |-> TRUE, select |-> select, assert |-> assert, regex |-> regex]
SqlCheck(field, i, val) == [checked |-> TRUE, compare |-> "equal", field |-> field, index |-> i, val |-> val]
SqlRule(var, field, i)  == [checked |-> TRUE, var |-> var, field |-> field, index |-> i]
Dubbo(regex) ==
  [kind |-> "dubbo", service |-> "s", regex |-> regex,
   param |-> <<[checked |-> TRUE, type |-> "integer", val |-> L("ok")], [checked |-> TRUE, type |-> "string", val |-> L("ok")],
               [checked |-> FALSE, type |-> "string", val |-> L("ok")]>>]

MCTables == {<<>>, [b |-> <<L("r1"), L("r2")>>]}

\* one file of three lines, the last one short, and a constant of the name of a column
OneFile ==
  [Plain EXCEPT !.files = <<File(Pair, <<<<L("a1"), L("b1")>>, <<L("a2"), <<Call("f")>>>>, <<L("a3")>>>>)>>,
                !.scene.variable = <<Var("a", L("mine"))>>, !.requests = <<UseAB>>, !.executions = 3]

\* two files that share a column, a spaced name, a file not wanted and one not there
ManyFiles ==
  [Plain EXCEPT !.files = <<File(Pair, <<<<L("a1"), L("b1")>>>>), File(<<Name("b"), [Name("c") EXCEPT !.spaced = TRUE]>>, <<<<L("b2"), L("c2")>>>>),
                            [File(Pair, <<<<L("x"), L("x")>>>>) EXCEPT !.checked = FALSE],
                            [File(Pair, <<<<L("x"), L("x")>>>>) EXCEPT !.reached = FALSE]>>,
                !.requests = <<UseAB>>]

\* columns a statement fills before the task starts
SqlFirst ==
  [Plain EXCEPT !.files = <<File(<<Name("a")>>, <<<<L("a1")>>>>)>>,
                !.prepositions = <<Sql(TRUE, <<>>, <<SqlRule("b", "b", -1), SqlRule("a", "b", 1)>>),
                                   [Sql(FALSE, <<>>, <<SqlRule("b", "x", 0)>>) EXCEPT !.disabled = TRUE]>>,
                !.requests = <<UseAB>>]
SqlBelow == [Plain EXCEPT !.prepositions = <<Sql(TRUE, <<>>, <<SqlRule("b", "b", -2)>>)>>]

\* what a statement hands to the request behind it
SqlThen(select, field, i) ==
  [Plain EXCEPT !.requests = <<Sql(select, <<SqlCheck(field, 0, L("r1"))>>, <<SqlRule("b", field, i)>>),
                               [Simple EXCEPT !.body = Body("json", <<>>, Ref("b"))]>>,
                !.round = <<1, 2>>, !.debug = "only_error"]
NoDriver == [Plain EXCEPT !.requests = <<[Sql(TRUE, <<SqlCheck("b", -1, L("r1"))>>, <<>>) EXCEPT !.driver = FALSE]>>]

DubboPlan(type, express) ==
  [Plain EXCEPT !.requests = <<Dubbo(<<Rule(type, "t", express)>>), [Simple EXCEPT !.url = L("u") \o Ref("t")]>>,
                !.round = <<1, 2>>, !.debug = "only_success", !.executions = 3]

\* two requests to one service in a round
TwoDubbo == [Plain EXCEPT !.requests = <<Dubbo(<<>>), Dubbo(<<Rule("json", "t", Path)>>)>>, !.round = <<1, 1>>, !.executions = 3]

LevelsPlan ==
  [Plain EXCEPT
     !.globals = [header |-> <<Field(L("h"), L("plan")), Field(L("g"), <<Call("f")>>)>>, cookie |-> <<Field(L("c"), L("plan"))>>,
                  variable |-> <<Var("v", L("plan")), Var("n", <<Call("f")>>)>>,
                  assert |-> <<Check("code", "equal", <<>>, L("200"))>>],
     !.scene = [header |-> <<Field(L("h"), L("scene")), Off(Field(L("g"), L("off")))>>, cookie |-> <<Field(L("c"), L("scene"))>>,
                variable |-> <<Var("v", L("scene"))>>,
                assert |-> <<Check("header", "includes", <<>>, L("server"))>>],
     !.api = [header |-> <<Field(L("h"), Ref("v"))>>, cookie |-> <<>>, variable |-> <<Var("v", L("api"))>>,
              assert |-> <<Check("data", "gte", Path, L("5"))>>],
     !.requests = <<[Simple EXCEPT !.header = <<Field(L("h"), Ref("v"))>>, !.cookie = <<Field(L("c"), L("own"))>>,
                                   !.assert = <<Check("data", "notnull", <<>>, <<>>), Check("data", "lt", Path, L("7"))>>],
                    [Simple EXCEPT !.header = <<Off(Field(L("h"), L("off")))>>,
                                   !.assert = <<Check("data", "unequal", Path, L("7"))>>]>>,
     !.round = <<1, 2>>, !.debug = "only_error"]

PartsPlan ==
  [Plain EXCEPT
     !.scene.variable = <<Var("v", L("scene")), Var("k", L("key"))>>,
     !.requests =
       <<[Simple EXCEPT !.body = Body("form", <<Field(L("p"), Ref("v")), Field(<<>>, L("x"))>>, <<>>),
                        !.query = <<Field(L("u"), L("in")), Field(Ref("k"), Nil)>>,
                        !.auth = [type |-> "basic", texts |-> <<Ref("v"), L("pw")>>],
                        !.assert = <<Check("code", "unequal", <<>>, L("404")), Check("data", "includes", <<>>, L("ok"))>>],
         [Simple EXCEPT !.body = Body("urlencode", <<Field(Ref("k"), Ref("v")), Field(L("p"), Nil)>>, <<>>),
                        !.auth = [type |-> "kv", texts |-> <<Ref("v")>>], !.missing = {"auth"}, !.keepAlive = TRUE,
                        !.assert = <<Check("header", "unincludes", <<>>, L("h")), Check("header", "notnull", <<>>, <<>>)>>],
         [Simple EXCEPT !.body = Body("json", <<>>, Ref("v")), !.auth = [type |-> "bearer", texts |-> <<Ref("v")>>],
                        !.assert = <<Check("data", "unincludes", <<>>, L("no")), Check("data", "gt", Path, L("5")),
                                     Check("header", "null", <<>>, <<>>)>>]>>,
     !.round = <<1, 2, 3>>, !.debug = "only_success"]

\* the second request uses what the first one's answer held
Extracting(name) ==
  [Plain EXCEPT
     !.requests = <<[Simple EXCEPT !.regex = <<Rule("json", "t", Path), Rule("code", "c", <<>>), Rule("header", "e", <<>>),
                                               Rule("regex", "d", Ref("t"))>>,
                                   !.assert = <<Check("data", "null", <<>>, <<>>)>>],
                    [Simple EXCEPT !.url = L("u") \o Ref("c"), !.header = <<Field(name, Ref("t"))>>,
                                   !.assert = <<Check("data", "equal", Ref("t"), Ref("d")), Check("data", "lte", Path, L("5"))>>]>>,
     !.round = <<1, 2>>]

\* one request extracts what another one of the round refers to
Beside ==
  [Plain EXCEPT
     !.scene.variable = <<Var("t", L("mine"))>>,
     !.requests = <<[Simple EXCEPT !.regex = <<Rule("json", "t", Path), Rule("json", "x", Path)>>],
                    [Simple EXCEPT !.header = <<Field(L("h"), Ref("t")), Field(L("x"), Ref("x"))>>]>>,
     !.round = <<1, 1>>]

\* what ends the process: a typed parameter, a request without auth, a code in an expression
Typed    == [Plain EXCEPT !.requests = <<[Simple EXCEPT !.query = <<[Field(L("q"), L("5")) EXCEPT !.type = "int"]>>]>>]
NoAuth   == [Plain EXCEPT !.requests = <<[Simple EXCEPT !.missing = {"auth"}]>>]
\* an assertion on the status alone
CodeOnly == [Plain EXCEPT !.requests = <<[Simple EXCEPT !.assert = <<Check("code", "equal", <<>>, L("200"))>>]>>]
CodePath == [Plain EXCEPT !.requests = <<[Simple EXCEPT !.regex = <<Rule("code", "c", <<>>), Rule("json", "d", Ref("c"))>>]>>]

MCPlans ==
  {OneFile, ManyFiles, SqlFirst, SqlBelow, SqlThen(TRUE, "b", 0), SqlThen(TRUE, "b", -1), SqlThen(FALSE, "rows_affected", -1),
   SqlThen(FALSE, "rows_affected", 0), NoDriver, DubboPlan("json", Path), DubboPlan("regex", L("r")), TwoDubbo, Beside, LevelsPlan, PartsPlan,
   Extracting(L("h")), Extracting(Ref("c")), Typed, NoAuth, CodePath}
MCCodePlans == {CodeOnly}

Answer(error, code, header, data, json) ==
  [error |-> error, code |-> code, header |-> header, data |-> data, json |-> json]

\* without an answer the response object is as fasthttp hands it out: status 200, empty
MCResponses ==
  {Answer(FALSE, 200, L("server"), L("ok") \o L("5"), L("5")),
   Answer(FALSE, 404, L("h"), L("no"), L("no")),
   Answer(TRUE, 200, L("server"), <<>>, <<>>)}

DubboAnswer(error, none, data) == [error |-> error, none |-> none, data |-> data, json |-> data]
MCDubboAnswers == {DubboAnswer(FALSE, FALSE, L("ok")), DubboAnswer(FALSE, TRUE, <<>>), DubboAnswer(TRUE, TRUE, L("error"))}
=============================================================================
