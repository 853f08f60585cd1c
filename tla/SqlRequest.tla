------------------------------ MODULE SqlRequest ------------------------------
(***************************************************************************)
(* What becomes of an SQL request: a statement is sent to a database, its  *)
(* assertions decide whether it succeeded and its extractions hand values  *)
(* on.  As a preposition of a scene it fills columns of the file instead.  *)
(* Operators only.                                                         *)
(***************************************************************************)
EXTENDS HttpRequest

CONSTANT Tables   \* what a select may return: the rows of each column, none without rows

ASSUME TablesAssumption == \A t \in Tables : \A c \in DOMAIN t : IsList(t[c])

List(rows) == [type |-> "list", text |-> rows]
Number64   == [type |-> "int64", text |-> <<>>]
Missing    == [type |-> "nil", text |-> <<>>]

\* init and Request: no driver, a refused statement, the rows, or what an exec tells
SqlAnswers(sql) ==
  LET told == IF sql.select THEN {[c \in DOMAIN t |-> List(t[c])] : t \in Tables}
              ELSE {[f \in fields |-> Number64] : fields \in {{}, {"rows_affected"}, {"rows_affected", "last_insert_id"}}}
  IN IF ~sql.driver THEN {[error |-> TRUE, none |-> TRUE, result |-> <<>>]}
     ELSE {[error |-> TRUE, none |-> FALSE, result |-> <<>>]}
            \cup {[error |-> FALSE, none |-> FALSE, result |-> r] : r \in told}

\* an index below -1 passes the test of the length
BelowStart(field, index, result) ==
  field \in DOMAIN result /\ result[field].type = "list" /\ index < -1

\* a whole column (index -1) never equals a text, and a number is not compared at all
Refutes(a, result) ==
  /\ a.checked
  /\ \/ result = <<>>
     \/ a.compare # "equal"
     \/ a.field \notin DOMAIN result
     \/ /\ result[a.field].type = "list"
        /\ ~(a.index >= 0 /\ a.index < Len(result[a.field].text) /\ result[a.field].text[a.index + 1] = a.val)

Asser(sql, answer) == \E a \in ToSet(sql.assert) : Refutes(a, answer.result)

\* the value a rule takes from an answer, as its variable; none when it indexes a number
Take(now, rule, answer) ==
  IF ~rule.checked THEN now
  ELSE IF rule.field \notin DOMAIN answer.result THEN Set(now, rule.var, Missing)
  ELSE LET found == answer.result[rule.field]
       IN IF rule.index = -1 THEN Set(now, rule.var, found)
          ELSE IF found.type # "list" THEN now
          ELSE Set(now, rule.var, IF rule.index < Len(found.text) THEN String(found.text[rule.index + 1]) ELSE Missing)

TakeAll(rules, vars, answer) == FoldLeft(LAMBDA now, rule : Take(now, rule, answer), vars, rules)

RegexSql(rules, vars, answer) == IF answer.none THEN vars ELSE TakeAll(rules, vars, answer)

SqlFails(sql, answer) ==
  \/ \E a \in ToSet(sql.assert) : a.checked /\ a.compare = "equal" /\ BelowStart(a.field, a.index, answer.result)
  \/ \E r \in ToSet(sql.regex) : r.checked /\ BelowStart(r.field, r.index, answer.result)

SqlSucceeds(sql, answer) == ~answer.error /\ ~Asser(sql, answer)

\* both selective ways of debugging record failures
SqlRecorded(debug, succeed) == debug = "all" \/ (debug \in {"only_error", "only_success"} /\ ~succeed)
=============================================================================
