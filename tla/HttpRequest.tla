----------------------------- MODULE HttpRequest -----------------------------
(***************************************************************************)
(* What an HTTP request is made of and what becomes of it: the global      *)
(* headers, cookies and assertions are added, the references {{x}} are     *)
(* replaced, the request is sent, values are extracted from the answer and *)
(* the assertions decide whether it succeeded.  Operators only; the state  *)
(* they work on is in SceneVariables.                                      *)
(*                                                                         *)
(* A text is a sequence of tokens: a literal, a reference {{x}} or a call  *)
(* {{__f()__}} of a public function.  A value of a variable is a text and  *)
(* its Go type.                                                            *)
(***************************************************************************)
EXTENDS Integers, Sequences, FiniteSets, SequencesExt

CONSTANT NumberOf   \* the literals that are spelled as numbers, and the numbers

ASSUME NumberAssumption == \A l \in DOMAIN NumberOf : NumberOf[l] \in Int

Literal(s)   == [kind |-> "literal", of |-> s]
Reference(x) == [kind |-> "reference", of |-> x]
Call(f)      == [kind |-> "call", of |-> f]

Nil    == <<[kind |-> "nil", of |-> ""]>>
Called == <<Literal("called")>>
Path   == <<Literal("path")>>

String(text) == [type |-> "string", text |-> text]

\* a slice, and a struct with these fields
IsList(s)           == s \in Seq(ToSet(s))
IsStruct(r, fields) == fields \subseteq DOMAIN r /\ r = [f \in DOMAIN r |-> r[f]]

IsField(f)     == IsStruct(f, {"checked", "key", "value"}) /\ f.checked \in BOOLEAN
IsAssertion(a) == IsStruct(a, {"checked", "target", "compare", "var", "val"}) /\ a.checked \in BOOLEAN

\* what plan, scene and api hold, and a request
IsGlobal(g)  == /\ \A l \in {g.header, g.cookie, g.variable} : IsList(l) /\ \A f \in ToSet(l) : IsField(f)
                /\ IsList(g.assert) /\ \A a \in ToSet(g.assert) : IsAssertion(a)
IsRequest(r) == /\ IsStruct(r, {"url", "query", "body", "header", "cookie", "auth", "assert"})
                /\ \A l \in {r.header, r.cookie} : IsList(l) /\ \A f \in ToSet(l) : IsField(f)
                /\ IsList(r.assert) /\ \A a \in ToSet(r.assert) : IsAssertion(a)

\* m[k] = v
Set(m, k, v) == [x \in DOMAIN m \cup {k} |-> IF x = k THEN v ELSE m[x]]

Indices(s) == [i \in DOMAIN s |-> i]

\* each element of a sequence
Each(F(_), s) == [i \in DOMAIN s |-> F(s[i])]

-----------------------------------------------------------------------------
(* Replacing references                                                    *)

\* strings.Replace of every occurrence
Put(text, token, by) == FlattenSeq(Each(LAMBDA t : IF t = token THEN by ELSE <<t>>, text))

\* FindAllDestStr, before anything is replaced
Tokens(text) == SelectSeq(text, LAMBDA t : t.kind \in {"reference", "call"})

Known(x, vars) == x \in DOMAIN vars /\ vars[x].type # "nil"

Bound(t, vars) == t.kind = "reference" /\ Known(t.of, vars)

\* a value: functions are called, numbers and booleans are written out
FillToken(text, t, vars) ==
  IF t.kind = "call" THEN Put(text, t, Called)
  ELSE IF Known(t.of, vars) THEN Put(text, t, vars[t.of].text) ELSE text

Filled(text, vars) == FoldLeft(LAMBDA done, t : FillToken(done, t, vars), text, Tokens(text))

\* a key: no functions
NameToken(text, t, vars) == IF Bound(t, vars) THEN Put(text, t, vars[t.of].text) ELSE text

Named(text, vars) == FoldLeft(LAMBDA done, t : NameToken(done, t, vars), text, Tokens(text))

\* value.(string) of another type panics
NameFails(text, vars) == \E t \in ToSet(Tokens(text)) : Bound(t, vars) /\ vars[t.of].type # "string"

\* numbers and booleans but for int64, and no lists, are written out
ValueFails(text, vars) == \E t \in ToSet(Tokens(text)) : Bound(t, vars) /\ vars[t.of].type \in {"list", "int64"}

FillField(f, vars) ==
  [f EXCEPT !.key = Named(@, vars), !.value = IF @ = Nil THEN Nil ELSE Filled(@, vars)]

ReplaceUrl(r, vars) == [r EXCEPT !.url = Filled(@, vars)]

ReplaceBodyVarForm(r, vars) ==
  CASE r.body.mode = "none" -> r
    [] r.body.mode \in {"form", "urlencode"} ->
         [r EXCEPT !.body.parameter = Each(LAMBDA f : FillField(f, vars), @)]
    [] OTHER -> [r EXCEPT !.body.raw = Filled(@, vars)]

ReplaceHeaderVarForm(r, vars) == [r EXCEPT !.header = Each(LAMBDA f : FillField(f, vars), @)]
ReplaceCookieVarForm(r, vars) == [r EXCEPT !.cookie = Each(LAMBDA f : FillField(f, vars), @)]

\* a parameter without a value keeps its key
ReplaceQueryVarForm(r, vars) ==
  [r EXCEPT !.query = Each(LAMBDA f : IF f.value = Nil THEN f ELSE FillField(f, vars), @)]

ReplaceAuthVarForm(r, vars) == [r EXCEPT !.auth.texts = Each(LAMBDA t : Filled(t, vars), @)]

\* the path of an assertion that refers to a variable becomes its expected value
FillPath(a, vars) ==
  LET tokens == Tokens(a.var)
      bound  == {i \in DOMAIN tokens : Bound(tokens[i], vars)}
  IN IF bound = {} THEN a.var ELSE Put(a.val, tokens[Max(bound)], vars[tokens[Max(bound)].of].text)

FillAssertion(a, vars) ==
  IF a.val = <<>> THEN a ELSE [a EXCEPT !.var = FillPath(a, vars), !.val = Filled(@, vars)]

ReplaceAssertionVarForm(r, vars) == [r EXCEPT !.assert = Each(LAMBDA a : FillAssertion(a, vars), @)]

ReplaceQueryParameterizes(r, vars) ==
  LET u == ReplaceQueryVarForm(ReplaceBodyVarForm(ReplaceUrl(r, vars), vars), vars)
      h == ReplaceCookieVarForm(ReplaceHeaderVarForm(u, vars), vars)
  IN ReplaceAssertionVarForm(ReplaceAuthVarForm(h, vars), vars)

\* Conversion asserts that a string is a number
Converts(f) == f.value # Nil => f.fieldType = "string"

ReplaceFails(r, vars) ==
  LET Keyed(f) == /\ ~NameFails(f.key, vars)
                  /\ f.value = Nil \/ Tokens(f.value) = <<>> \/ (~ValueFails(f.value, vars) /\ Converts(f))
      values == {r.url} \cup ToSet(r.auth.texts) \cup {a.val : a \in ToSet(r.assert)}
                  \cup (CASE r.body.mode = "none" -> {}
                          [] r.body.mode \in {"form", "urlencode"} -> UNION {{f.key, f.value} : f \in ToSet(r.body.parameter)}
                          [] OTHER -> {r.body.raw})
  IN \/ \E v \in values : ValueFails(v, vars)
     \/ r.body.mode \in {"form", "urlencode"} /\ \E f \in ToSet(r.body.parameter) : ~Converts(f)
     \/ \E f \in ToSet(r.query) : f.value # Nil /\ ~Keyed(f)
     \/ \E f \in ToSet(r.header) \cup ToSet(r.cookie) : ~Keyed(f)
     \/ \E a \in ToSet(r.assert) : a.val # <<>> /\ NameFails(a.var, vars)

-----------------------------------------------------------------------------
(* What the plan, the scene and the api add                                *)

Agree(p, q, fields) == \A f \in fields : p[f] = q[f]

\* a checked element is added unless a checked one agrees with it in the fields compared
AddOne(l, p, fields) ==
  IF p.checked /\ ~\E i \in DOMAIN l : l[i].checked /\ Agree(p, l[i], fields) THEN Append(l, p) ELSE l

AddMissing(lower, upper, fields) == FoldLeft(LAMBDA l, p : AddOne(l, p, fields), lower, upper)

SameKey    == {"key"}
SameField  == {"key", "value"}
SameCheck  == {"var", "val", "compare"}
SameAssert == {"var", "val", "compare", "target"}

SupToSub(sup, sub) ==
  [header   |-> AddMissing(sub.header, sup.header, SameField),
   cookie   |-> AddMissing(sub.cookie, sup.cookie, SameField),
   variable |-> AddMissing(sub.variable, sup.variable, SameKey),
   assert   |-> AddMissing(sub.assert, sup.assert, SameCheck)]

\* Faulty variant: headers are compared as cookies are.
GlobalByField(r, api) ==
  [r EXCEPT !.cookie = AddMissing(@, api.cookie, SameField),
            !.header = AddMissing(@, api.header, SameField),
            !.assert = AddMissing(@, api.assert, SameAssert)]

\* a header compares the value of the added one with itself
GlobalToRequest(r, api) ==
  [r EXCEPT !.cookie = AddMissing(@, api.cookie, SameField),
            !.header = AddMissing(@, api.header, SameKey),
            !.assert = AddMissing(@, api.assert, SameAssert)]

Evaluated(variables) == Each(LAMBDA v : IF v.checked THEN [v EXCEPT !.value = Filled(@, <<>>)] ELSE v, variables)

\* the first variable of a name counts
Values(g) ==
  LET evaluated == Evaluated(g.variable)
      First(k) == evaluated[CHOOSE i \in DOMAIN evaluated :
                              /\ evaluated[i].checked /\ evaluated[i].key = k
                              /\ \A j \in 1 .. i - 1 : ~(evaluated[j].checked /\ evaluated[j].key = k)]
  IN [k \in {v.key : v \in {u \in ToSet(evaluated) : u.checked}} |-> String(First(k).value)]

\* functions in the values of variables; then functions and variables in the rest
InitReplace(g) ==
  LET values == Values(g)
      Field(f) == IF f.checked /\ f.value # Nil THEN [f EXCEPT !.value = Filled(@, values)] ELSE f
      Check(a) == IF a.checked THEN [a EXCEPT !.val = Filled(@, values)] ELSE a
  IN [variable |-> Evaluated(g.variable), header |-> Each(Field, g.header),
      cookie |-> Each(Field, g.cookie), assert |-> Each(Check, g.assert)]

-----------------------------------------------------------------------------
(* Sending                                                                 *)

\* of the fields that are set, a later one of the same key replaces the earlier one
LastOf(fields, set) ==
  [k \in {fields[i].key : i \in set} |-> fields[Max({i \in set : fields[i].key = k})].value]

SetHeader(fields) == LastOf(fields, {i \in DOMAIN fields : fields[i].checked /\ fields[i].value # Nil})
SetCookie(fields) == LastOf(fields, {i \in DOMAIN fields : fields[i].checked /\ fields[i].value # Nil /\ fields[i].key # <<>>})

Within(part, text) ==
  \E i \in 1 .. Len(text) + 1 : i + Len(part) - 1 <= Len(text) /\ SubSeq(text, i, i + Len(part) - 1) = part

\* a parameter whose key occurs anywhere in the URL so far is left out
Url(r) ==
  FoldLeft(LAMBDA u, f : IF f.checked /\ ~Within(f.key, u)
                         THEN u \o f.key \o (IF f.value = Nil THEN <<>> ELSE f.value) ELSE u,
           r.url, r.query)

SetBody(b) ==
  CASE b.mode = "none" -> <<>>
    [] b.mode = "form" -> SelectSeq(b.parameter, LAMBDA f : f.checked /\ f.key # <<>>)
    [] b.mode = "urlencode" -> SelectSeq(b.parameter, LAMBDA f : f.checked /\ f.key # <<>> /\ f.value # Nil)
    [] OTHER -> <<b.raw>>

\* nil pointers, and ValueToByte and toByte of a string that should be a number
SendFails(r) ==
  \/ "query" \in r.missing
  \/ "auth" \in r.missing /\ ~r.keepAlive
  \/ \E f \in ToSet(r.query) : f.checked /\ f.value # Nil /\ f.type # "string" /\ ~Within(f.key, r.url)
  \/ r.body.mode = "form" /\ \E f \in ToSet(SetBody(r.body)) : f.value # Nil /\ f.type # "string"

SetAuth(auth) ==
  CASE auth.type = "kv" -> <<Literal("kv")>> \o auth.texts[1]
    [] auth.type = "bearer" -> <<Literal("bearer")>> \o auth.texts[1]
    [] auth.type = "basic" -> <<Literal("basic")>> \o auth.texts[1] \o auth.texts[2]
    [] OTHER -> <<>>

Request(r) ==
  [url |-> Url(r), header |-> SetHeader(r.header), cookie |-> SetCookie(r.cookie),
   body |-> SetBody(r.body), auth |-> SetAuth(r.auth)]

-----------------------------------------------------------------------------
(* The answer: [error, code, header, data, json], where json is what the   *)
(* body has under Path                                                     *)

JsonPath(resp, path) == IF path = Path THEN resp.json ELSE <<>>

Withdraw(rules, vars, resp) ==
  LET Value(rule, now) ==
        CASE rule.type = "code"   -> [type |-> "int", text |-> <<Literal(ToString(resp.code))>>]
          [] rule.type = "json"   -> String(JsonPath(resp, Filled(rule.express, now)))
          [] rule.type = "header" -> String(IF rule.express = <<>> THEN <<>> ELSE resp.header)
          [] OTHER                -> String(IF rule.express = <<>> THEN <<>> ELSE resp.data)
  IN FoldLeft(LAMBDA now, rule : IF rule.checked THEN Set(now, rule.var, Value(rule, now)) ELSE now, vars, rules)

\* the expression of an extraction may hold a variable extracted before
WithdrawFails(rules, vars, resp) ==
  \E i \in DOMAIN rules :
    rules[i].checked /\ NameFails(rules[i].express, Withdraw(SubSeq(rules, 1, i - 1), vars, resp))

IsNumber(text) == Len(text) = 1 /\ text[1].of \in DOMAIN NumberOf
Number(text)   == NumberOf[text[1].of]

VerifyCode(a, resp) ==
  /\ IsNumber(a.val)
  /\ \/ a.compare = "equal" /\ Number(a.val) = resp.code
     \/ a.compare = "unequal" /\ Number(a.val) # resp.code

VerifyHeader(a, resp) ==
  \/ a.compare = "includes" /\ Within(a.val, resp.header)
  \/ a.compare = "unincludes" /\ ~Within(a.val, resp.header)
  \/ a.compare = "null" /\ resp.header = <<>>
  \/ a.compare = "notnull" /\ resp.header # <<>>

VerifyData(a, resp) ==
  LET value == JsonPath(resp, a.var)
      Numbers == IsNumber(value) /\ IsNumber(a.val)
  IN \/ a.compare = "equal" /\ value = a.val
     \/ a.compare = "unequal" /\ value # a.val
     \/ a.compare = "includes" /\ Within(a.val, resp.data)
     \/ a.compare = "unincludes" /\ ~Within(a.val, resp.data)
     \/ a.compare = "null" /\ resp.data = <<>>
     \/ a.compare = "notnull" /\ resp.data # <<>>
     \/ a.compare = "gt" /\ Numbers /\ Number(value) > Number(a.val)
     \/ a.compare = "gte" /\ Numbers /\ Number(value) >= Number(a.val)
     \/ a.compare = "lt" /\ Numbers /\ Number(value) < Number(a.val)
     \/ a.compare = "lte" /\ Numbers /\ Number(value) <= Number(a.val)

VerifyAssertionText(a, resp) ==
  \/ a.target = "code" /\ VerifyCode(a, resp)
  \/ a.target = "header" /\ VerifyHeader(a, resp)
  \/ a.target = "data" /\ VerifyData(a, resp)

\* Faulty variant: each assertion overwrites the verdict.
LastAssertion(asserts, resp) ==
  FoldLeft(LAMBDA v, a : IF ~a.checked THEN v
                         ELSE [isAssert |-> TRUE, succeed |-> VerifyAssertionText(a, resp),
                               code |-> IF VerifyAssertionText(a, resp) THEN "none" ELSE "assert"],
           [isAssert |-> FALSE, succeed |-> TRUE, code |-> "none"], asserts)

Judge(v, a, resp) ==
  IF ~a.checked THEN v
  ELSE IF VerifyAssertionText(a, resp) THEN [v EXCEPT !.isAssert = TRUE]
  ELSE [isAssert |-> TRUE, succeed |-> FALSE, code |-> "assert"]

Assertion(asserts, resp) ==
  FoldLeft(LAMBDA v, a : Judge(v, a, resp), [isAssert |-> FALSE, succeed |-> TRUE, code |-> "none"], asserts)

\* with an assertion its verdict replaces the error of the request
Outcome(r, resp) ==
  LET v == Assertion(r.assert, resp)
  IN IF v.isAssert THEN [succeed |-> v.succeed, errorType |-> v.code]
     ELSE [succeed |-> ~resp.error, errorType |-> "none"]

\* whether the request leaves a record in Mongo
Recorded(debug, succeed) == debug = "all" \/ debug = (IF succeed THEN "only_success" ELSE "only_error")
=============================================================================
