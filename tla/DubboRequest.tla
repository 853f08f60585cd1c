----------------------------- MODULE DubboRequest -----------------------------
(***************************************************************************)
(* What becomes of a Dubbo request once a reference to its service was     *)
(* looked for: its parameters are converted, the method is invoked and     *)
(* values are extracted.  Operators only.  The assertions go to the debug  *)
(* record alone and are left out.                                          *)
(***************************************************************************)
EXTENDS HttpRequest

\* the first parameter that is not checked ends the list; those that do not convert are dropped
ParamInit(params) ==
  LET upTo == SelectInSeq(params, LAMBDA p : ~p.checked)
      used == IF upTo = 0 THEN params ELSE SubSeq(params, 1, upTo - 1)
  IN SelectSeq(used, LAMBDA p : p.type \in {"integer", "double", "float", "long"} => IsNumber(p.val))

\* invoke: an answer may hold neither a value nor an error
Status(found, answer) ==
  IF ~found \/ answer.error THEN "failed" ELSE IF answer.none THEN "" ELSE "success"

\* without a reference the response is the error, or nothing when a panic was recovered
Unreached == {[error |-> TRUE, none |-> TRUE, data |-> d, json |-> <<>>] : d \in {<<>>, <<Literal("error")>>}}

DubboExtract(rules, vars, answer) ==
  LET Take(now, rule) ==
        CASE rule.type = "regex" -> Set(now, rule.var, String(IF rule.express = <<>> THEN <<>> ELSE answer.data))
          [] rule.type = "json"  -> Set(now, rule.var, String(JsonPath(answer, Filled(rule.express, now))))
          [] OTHER -> now
  IN FoldLeft(LAMBDA now, rule : IF rule.checked THEN Take(now, rule) ELSE now, vars, rules)

\* value == nil && ... does not see the nil slice in the interface: an expression that
\* finds nothing is indexed
ExtractFails(rules, vars, answer) ==
  \E i \in DOMAIN rules :
    /\ rules[i].checked
    /\ \/ NameFails(rules[i].express, DubboExtract(SubSeq(rules, 1, i - 1), vars, answer))
       \/ rules[i].type = "regex" /\ rules[i].express # <<>> /\ answer.data = <<>>

DubboRecorded(debug, status) ==
  \/ debug = "all"
  \/ debug = "only_success" /\ status = "success"
  \/ debug = "only_error" /\ status = "failed"
=============================================================================
