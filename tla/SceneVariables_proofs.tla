------------------------- MODULE SceneVariables_proofs -------------------------
(***************************************************************************)
(* Proofs about SceneVariables, for every set of plans of the shape the    *)
(* code decodes, every set of answers and every finite set of workers.     *)
(*                                                                         *)
(* A fold over a sequence chooses a table of its values over all sets of   *)
(* positions.  TableExists makes that table, one position after the other, *)
(* so what a fold does is known step by step (the lemmas ...Steps), and    *)
(* what it leaves follows by induction over the positions.                 *)
(*                                                                         *)
(* The types follow from where each worker and each node is.  Rows are    *)
(* dealt in turn because the index of a column separates the rows that     *)
(* were dealt once more from the others.  An execution nobody disturbs has *)
(* each variable it drew still to append, or last in the shared slice.  A  *)
(* plain assertion, and the request's own headers, get through all levels  *)
(* of SupToSub.  The references that were made to a service nobody stored  *)
(* one of are those of the nodes about to store one; such a node is known  *)
(* by its worker and its place among those of the round that ask the       *)
(* service.                                                                *)
(***************************************************************************)
EXTENDS SceneVariables, FiniteSetTheorems, SequenceTheorems, TLAPS

-----------------------------------------------------------------------------
(* Tables of folds                                                         *)

\* The largest of the numbers up to k.
LEMMA LargestUpTo ==
  ASSUME NEW k \in Nat, NEW s \in SUBSET (1 .. k), k \in s
  PROVE  Max(s) = k
<1>1. \A x \in s : (\A y \in s : x >= y) => x = k
  OBVIOUS
<1>2. k \in s /\ \A y \in s : k >= y
  OBVIOUS
<1>3. QED BY <1>1, <1>2 DEF Max

\* A set of numbers up to k has a largest one.
LEMMA LargestIsIn ==
  ASSUME NEW k \in Nat, NEW s \in SUBSET (1 .. k), s # {}
  PROVE  Max(s) \in s
<1> DEFINE Below == {k - x : x \in s}
<1>1. Below \subseteq Nat /\ Below # {}
  OBVIOUS
<1>2. PICK d \in Below : \A e \in Below : <<e, d>> \notin OpToRel(<, Nat)
  BY <1>1, NatLessThanWellFounded, WFMin
<1>3. PICK x \in s : d = k - x
  OBVIOUS
<1>4. ASSUME NEW y \in s PROVE x >= y
  <2>1. k - y \in Below /\ k - y \in Nat /\ d \in Nat
    BY <1>1
  <2>2. ~(k - y < d)
    BY <1>2, <2>1 DEF OpToRel
  <2>3. QED BY <1>3, <2>2
<1>5. \E m \in s : \A y \in s : m >= y
  BY <1>4
<1>6. QED BY <1>5 DEF Max

\* The table of what the steps g yield over each set of numbers, the largest one last: the
\* function a fold over a sequence is defined by.
IsTable(f, T, base, n, g) ==
  /\ f \in [SUBSET (1 .. n) -> T]
  /\ \A s \in SUBSET (1 .. n) : f[s] = IF s = {} THEN base ELSE g[<<f[s \ {Max(s)}], Max(s)>>]

\* Whatever a step yields from what is there and a number, there is such a table.
LEMMA TableExists ==
  ASSUME NEW T, NEW base \in T, NEW n \in Nat, NEW g \in [T \X (1 .. n) -> T]
  PROVE  \E f : IsTable(f, T, base, n, g)
<1> DEFINE Without == {k \in 0 .. n : ~\E f : IsTable(f, T, base, k, g)}
<1>1. SUFFICES ASSUME Without # {} PROVE FALSE
  <2>1. n \in 0 .. n
    OBVIOUS
  <2>2. Without = {}
    BY <1>1, Zenon
  <2>3. QED BY <2>1, <2>2, Zenon
<1>2. PICK k \in Without : \A j \in Without : <<j, k>> \notin OpToRel(<, Nat)
  <2>1. Without \subseteq Nat
    OBVIOUS
  <2>2. QED BY <1>1, <2>1, NatLessThanWellFounded, WFMin
<1>3. k # 0
  <2>1. IsTable([s \in SUBSET (1 .. 0) |-> base], T, base, 0, g)
    BY DEF IsTable
  <2>2. QED BY <2>1
<1>4. PICK f : IsTable(f, T, base, k - 1, g)
  <2>1. k - 1 \in 0 .. n /\ k - 1 \in Nat /\ k \in Nat /\ k - 1 < k
    BY <1>3
  <2>2. <<k - 1, k>> \in OpToRel(<, Nat)
    BY <2>1 DEF OpToRel
  <2>3. k - 1 \notin Without
    BY <1>2, <2>2
  <2>4. QED BY <2>1, <2>3
<1> DEFINE h == [s \in SUBSET (1 .. k) |-> IF k \in s THEN g[<<f[s \ {k}], k>>] ELSE f[s]]
<1>5. k \in 1 .. n
  BY <1>3
<1>6. \A s \in SUBSET (1 .. k) : s \ {k} \in SUBSET (1 .. k - 1) /\ (k \notin s => s \in SUBSET (1 .. k - 1))
  BY <1>5
<1>7. \A s \in SUBSET (1 .. k - 1) : f[s] \in T
  BY <1>4 DEF IsTable
<1>8. h \in [SUBSET (1 .. k) -> T]
  <2> SUFFICES ASSUME NEW s \in SUBSET (1 .. k) PROVE (IF k \in s THEN g[<<f[s \ {k}], k>>] ELSE f[s]) \in T
    OBVIOUS
  <2>1. f[s \ {k}] \in T
    BY <1>6, <1>7
  <2>2. CASE k \in s
    BY <1>5, <2>1, <2>2
  <2>3. CASE k \notin s
    BY <1>6, <1>7, <2>3
  <2>4. QED BY <2>2, <2>3
<1>9. ASSUME NEW s \in SUBSET (1 .. k)
      PROVE  h[s] = IF s = {} THEN base ELSE g[<<h[s \ {Max(s)}], Max(s)>>]
  <2>1. CASE k \in s
    <3>1. Max(s) = k
      BY <1>5, <2>1, LargestUpTo
    <3>2. h[s \ {k}] = f[s \ {k}]
      BY <1>6
    <3>3. QED BY <2>1, <3>1, <3>2
  <2>2. CASE k \notin s
    <3>1. s \in SUBSET (1 .. k - 1) /\ h[s] = f[s]
      BY <1>6, <2>2
    <3>2. CASE s = {}
      BY <1>4, <3>1, <3>2 DEF IsTable
    <3>3. CASE s # {}
      <4>1. s \ {Max(s)} \in SUBSET (1 .. k) /\ k \notin s \ {Max(s)}
        BY <2>2
      <4>2. h[s \ {Max(s)}] = f[s \ {Max(s)}]
        BY <4>1
      <4>3. f[s] = g[<<f[s \ {Max(s)}], Max(s)>>]
        BY <1>4, <3>1, <3>3 DEF IsTable
      <4>4. QED BY <3>1, <3>3, <4>2, <4>3
    <3>4. QED BY <3>2, <3>3
  <2>3. QED BY <2>1, <2>2
<1>10. IsTable(h, T, base, k, g)
  BY <1>8, <1>9 DEF IsTable
<1>11. k \in Without
  OBVIOUS
<1>12. QED BY <1>10, <1>11, Zenon

\* What a fold leaves after each element, where its table is there.
LEMMA TableSteps ==
  ASSUME NEW n \in Nat, NEW k \in 1 .. n
  PROVE  /\ 1 .. k \in SUBSET (1 .. n) /\ 1 .. k # {}
         /\ Max(1 .. k) = k
         /\ (1 .. k) \ {k} = 1 .. k - 1
<1>1. 1 .. k \in SUBSET (1 .. n) /\ 1 .. k # {} /\ (1 .. k) \ {k} = 1 .. k - 1
  OBVIOUS
<1>2. Max(1 .. k) = k
  BY LargestUpTo
<1>3. QED BY <1>1, <1>2

\* Induction over the numbers up to n, for a set of them.
LEMMA UpToInduction ==
  ASSUME NEW n \in Nat, NEW S, 0 \in S, \A k \in 1 .. n : k - 1 \in S => k \in S
  PROVE  \A k \in 0 .. n : k \in S
<1> DEFINE Rest == {k \in 0 .. n : k \notin S}
<1> SUFFICES ASSUME Rest # {} PROVE FALSE
  OBVIOUS
<1>1. PICK k \in Rest : \A j \in Rest : <<j, k>> \notin OpToRel(<, Nat)
  <2>1. Rest \subseteq Nat
    OBVIOUS
  <2>2. QED BY <2>1, NatLessThanWellFounded, WFMin
<1>2. k # 0 /\ k \in 1 .. n /\ k - 1 \in 0 .. n /\ k - 1 < k
  OBVIOUS
<1>3. <<k - 1, k>> \in OpToRel(<, Nat)
  BY <1>2 DEF OpToRel
<1>4. k - 1 \in S
  BY <1>1, <1>2, <1>3
<1>5. QED BY <1>2, <1>4

\* The values a table gives to 1 .. k, one step after the other.
IsRun(v, T, base, n, g) ==
  /\ v \in [0 .. n -> T]
  /\ v[0] = base
  /\ \A k \in 1 .. n : v[k] = g[<<v[k - 1], k>>]

Follows(table, T, base, n, g) ==
  /\ table[{}] = base
  /\ \A s \in SUBSET (1 .. n) :
       s # {} /\ table[s \ {Max(s)}] \in T => table[s] = g[<<table[s \ {Max(s)}], Max(s)>>]

LEMMA TableRuns ==
  ASSUME NEW T, NEW base \in T, NEW n \in Nat, NEW g \in [T \X (1 .. n) -> T],
         NEW table, Follows(table, T, base, n, g)
  PROVE  IsRun([k \in 0 .. n |-> table[1 .. k]], T, base, n, g)
<1> DEFINE v == [k \in 0 .. n |-> table[1 .. k]]
           S == {k \in 0 .. n : table[1 .. k] \in T}
<1>1. ASSUME NEW k \in 1 .. n, k - 1 \in S
      PROVE  table[1 .. k] = g[<<table[1 .. k - 1], k>>] /\ table[1 .. k] \in T
  <2>1. 1 .. k \in SUBSET (1 .. n) /\ 1 .. k # {} /\ Max(1 .. k) = k /\ (1 .. k) \ {k} = 1 .. k - 1
    BY TableSteps
  <2>2. table[1 .. k] = g[<<table[(1 .. k) \ {Max(1 .. k)}], Max(1 .. k)>>]
    BY <1>1, <2>1 DEF Follows
  <2>3. QED BY <1>1, <2>1, <2>2
<1>2. 0 \in S /\ v[0] = base
  <2>1. 1 .. 0 = {}
    OBVIOUS
  <2>2. QED BY <2>1 DEF Follows
<1>3. \A k \in 0 .. n : k \in S
  <2>1. ASSUME NEW k \in 1 .. n, k - 1 \in S PROVE k \in S
    <3>1. k \in 0 .. n
      OBVIOUS
    <3>2. QED BY <1>1, <2>1, <3>1
  <2> HIDE DEF S
  <2>2. QED BY <1>2, <2>1, UpToInduction
<1>4. v \in [0 .. n -> T]
  BY <1>3
<1>5. \A k \in 1 .. n : v[k] = g[<<v[k - 1], k>>]
  BY <1>1, <1>3
<1> HIDE DEF v
<1>6. IsRun(v, T, base, n, g)
  BY <1>2, <1>4, <1>5 DEF IsRun
<1>7. QED BY <1>6 DEF v

-----------------------------------------------------------------------------
(* What the assertions and the merged parts are                            *)

\* The verdict after each assertion.
Judging(v, asserts, resp) ==
  /\ v \in [0 .. Len(asserts) -> [isAssert : BOOLEAN, succeed : BOOLEAN, code : {"none", "assert"}]]
  /\ v[0] = [isAssert |-> FALSE, succeed |-> TRUE, code |-> "none"]
  /\ \A k \in 1 .. Len(asserts) : v[k] = Judge(v[k - 1], asserts[k], resp)
  /\ Assertion(asserts, resp) = v[Len(asserts)]

LEMMA AssertionSteps ==
  ASSUME NEW resp, NEW A, NEW asserts \in Seq(A)
  PROVE  \E v : Judging(v, asserts, resp)
<1> DEFINE n == Len(asserts)
           T == [isAssert : BOOLEAN, succeed : BOOLEAN, code : {"none", "assert"}]
           g == [p \in T \X (1 .. n) |-> Judge(p[1], asserts[p[2]], resp)]
           Table(t) == t = [s \in SUBSET DOMAIN asserts |->
                              IF s = {} THEN [isAssert |-> FALSE, succeed |-> TRUE, code |-> "none"] ELSE Judge(t[s \ {Max(s)}], asserts[Max(s)], resp)]
           table == CHOOSE t : Table(t)
<1>1. n \in Nat /\ DOMAIN asserts = 1 .. n /\ [isAssert |-> FALSE, succeed |-> TRUE, code |-> "none"] \in T
  OBVIOUS
<1>2. ASSUME NEW v \in T, NEW i \in 1 .. n PROVE Judge(v, asserts[i], resp) \in T
  <2>1. [v EXCEPT !.isAssert = TRUE] \in T
    OBVIOUS
  <2>2. [isAssert |-> TRUE, succeed |-> FALSE, code |-> "assert"] \in T
    OBVIOUS
  <2>3. QED BY <2>1, <2>2 DEF Judge
<1>3. g \in [T \X (1 .. n) -> T]
  BY <1>2
<1>4. PICK t : IsTable(t, T, [isAssert |-> FALSE, succeed |-> TRUE, code |-> "none"], n, g)
  <2> HIDE DEF T, g, n
  <2>1. QED BY <1>1, <1>3, TableExists
<1>5. ASSUME NEW s \in SUBSET (1 .. n), s # {}
      PROVE  t[s] = Judge(t[s \ {Max(s)}], asserts[Max(s)], resp)
  <2> HIDE DEF T, n
  <2>1. Max(s) \in 1 .. n /\ s \ {Max(s)} \in SUBSET (1 .. n)
    BY <1>1, <1>5, LargestIsIn
  <2>2. <<t[s \ {Max(s)}], Max(s)>> \in T \X (1 .. n)
    BY <1>4, <2>1 DEF IsTable
  <2>3. QED BY <1>4, <1>5, <2>2 DEF IsTable
<1>6. Table(t)
  <2> HIDE DEF T, g, n
  <2>1. QED BY <1>1, <1>4, <1>5 DEF IsTable
<1>7. Table(table)
  <2> HIDE DEF Table
  <2>1. QED BY <1>6, Zenon
<1>8. Assertion(asserts, resp) = table[DOMAIN asserts]
  BY Zenon DEF Assertion, FoldLeft, MapThenFoldSet
<1>9. table[{}] = [isAssert |-> FALSE, succeed |-> TRUE, code |-> "none"] /\ \A s \in SUBSET (1 .. n) : s # {} => table[s] = Judge(table[s \ {Max(s)}], asserts[Max(s)], resp)
  <2> HIDE DEF T, g, n, table
  <2>1. QED BY <1>1, <1>7
<1>10. Follows(table, T, [isAssert |-> FALSE, succeed |-> TRUE, code |-> "none"], n, g)
  <2> HIDE DEF T, n, table
  <2>1. \A s \in SUBSET (1 .. n) : s # {} => Max(s) \in 1 .. n
    BY <1>1, LargestIsIn
  <2>2. QED BY <1>9, <2>1 DEF Follows
<1> DEFINE v == [k \in 0 .. n |-> table[1 .. k]]
<1>11. IsRun(v, T, [isAssert |-> FALSE, succeed |-> TRUE, code |-> "none"], n, g)
  <2> HIDE DEF T, g, n, table
  <2>1. QED BY <1>1, <1>3, <1>10, TableRuns
<1>12. v \in [0 .. n -> T] /\ v[0] = [isAssert |-> FALSE, succeed |-> TRUE, code |-> "none"] /\ (\A k \in 1 .. n : v[k] = Judge(v[k - 1], asserts[k], resp))
  <2> HIDE DEF T, n, v
  <2>1. \A k \in 1 .. n : <<v[k - 1], k>> \in T \X (1 .. n)
    BY <1>1, <1>11 DEF IsRun
  <2>2. QED BY <1>11, <2>1 DEF IsRun
<1>13. Assertion(asserts, resp) = v[n]
  <2> HIDE DEF T, n, table
  <2>1. QED BY <1>1, <1>8
<1> HIDE DEF v
<1>14. Judging(v, asserts, resp)
  BY <1>12, <1>13 DEF Judging
<1>15. QED BY <1>14

\* The elements after each one that was missing was added.
Adding(v, S, lower, upper, fields) ==
  /\ v \in [0 .. Len(upper) -> Seq(S)]
  /\ v[0] = lower
  /\ \A k \in 1 .. Len(upper) : v[k] = AddOne(v[k - 1], upper[k], fields)
  /\ AddMissing(lower, upper, fields) = v[Len(upper)]

LEMMA AddMissingSteps ==
  ASSUME NEW S, NEW lower \in Seq(S), NEW upper \in Seq(S), NEW fields
  PROVE  \E v : Adding(v, S, lower, upper, fields)
<1> DEFINE n == Len(upper)
           T == Seq(S)
           g == [p \in T \X (1 .. n) |-> AddOne(p[1], upper[p[2]], fields)]
           Table(t) == t = [s \in SUBSET DOMAIN upper |->
                              IF s = {} THEN lower ELSE AddOne(t[s \ {Max(s)}], upper[Max(s)], fields)]
           table == CHOOSE t : Table(t)
<1>1. n \in Nat /\ DOMAIN upper = 1 .. n /\ lower \in T
  OBVIOUS
<1>2. ASSUME NEW v \in T, NEW i \in 1 .. n PROVE AddOne(v, upper[i], fields) \in T
  BY DEF AddOne
<1>3. g \in [T \X (1 .. n) -> T]
  BY <1>2
<1>4. PICK t : IsTable(t, T, lower, n, g)
  <2> HIDE DEF T, g, n
  <2>1. QED BY <1>1, <1>3, TableExists
<1>5. ASSUME NEW s \in SUBSET (1 .. n), s # {}
      PROVE  t[s] = AddOne(t[s \ {Max(s)}], upper[Max(s)], fields)
  <2> HIDE DEF T, n
  <2>1. Max(s) \in 1 .. n /\ s \ {Max(s)} \in SUBSET (1 .. n)
    BY <1>1, <1>5, LargestIsIn
  <2>2. <<t[s \ {Max(s)}], Max(s)>> \in T \X (1 .. n)
    BY <1>4, <2>1 DEF IsTable
  <2>3. QED BY <1>4, <1>5, <2>2 DEF IsTable
<1>6. Table(t)
  <2> HIDE DEF T, g, n
  <2>1. QED BY <1>1, <1>4, <1>5 DEF IsTable
<1>7. Table(table)
  <2> HIDE DEF Table
  <2>1. QED BY <1>6, Zenon
<1>8. AddMissing(lower, upper, fields) = table[DOMAIN upper]
  BY Zenon DEF AddMissing, FoldLeft, MapThenFoldSet
<1>9. table[{}] = lower /\ \A s \in SUBSET (1 .. n) : s # {} => table[s] = AddOne(table[s \ {Max(s)}], upper[Max(s)], fields)
  <2> HIDE DEF T, g, n, table
  <2>1. QED BY <1>1, <1>7
<1>10. Follows(table, T, lower, n, g)
  <2> HIDE DEF T, n, table
  <2>1. \A s \in SUBSET (1 .. n) : s # {} => Max(s) \in 1 .. n
    BY <1>1, LargestIsIn
  <2>2. QED BY <1>9, <2>1 DEF Follows
<1> DEFINE v == [k \in 0 .. n |-> table[1 .. k]]
<1>11. IsRun(v, T, lower, n, g)
  <2> HIDE DEF T, g, n, table
  <2>1. QED BY <1>1, <1>3, <1>10, TableRuns
<1>12. v \in [0 .. n -> T] /\ v[0] = lower /\ (\A k \in 1 .. n : v[k] = AddOne(v[k - 1], upper[k], fields))
  <2> HIDE DEF T, n, v
  <2>1. \A k \in 1 .. n : <<v[k - 1], k>> \in T \X (1 .. n)
    BY <1>1, <1>11 DEF IsRun
  <2>2. QED BY <1>11, <2>1 DEF IsRun
<1>13. AddMissing(lower, upper, fields) = v[n]
  <2> HIDE DEF T, n, table
  <2>1. QED BY <1>1, <1>8
<1> HIDE DEF v
<1>14. Adding(v, S, lower, upper, fields)
  BY <1>12, <1>13 DEF Adding
<1>15. QED BY <1>14

\* What the assertions say together: there is one, none is refuted, and what the error is.
LEMMA AssertionMeaning ==
  ASSUME NEW resp, NEW A, NEW asserts \in Seq(A), \A a \in A : a.checked \in BOOLEAN
  PROVE  LET v == Assertion(asserts, resp)
             Refuted == \E a \in ToSet(asserts) : a.checked /\ ~VerifyAssertionText(a, resp)
         IN /\ v.isAssert = (\E a \in ToSet(asserts) : a.checked)
            /\ v.succeed = ~Refuted
            /\ v.code = IF Refuted THEN "assert" ELSE "none"
<1> DEFINE n == Len(asserts)
           Holds(i) == VerifyAssertionText(asserts[i], resp)
           Seen(k) == \E i \in 1 .. k : asserts[i].checked
           Refuted(k) == \E i \in 1 .. k : asserts[i].checked /\ ~Holds(i)
           Verdict(k) == [isAssert |-> Seen(k), succeed |-> ~Refuted(k), code |-> IF Refuted(k) THEN "assert" ELSE "none"]
<1>1. PICK v \in [0 .. n -> [isAssert : BOOLEAN, succeed : BOOLEAN, code : {"none", "assert"}]] :
        /\ v[0] = [isAssert |-> FALSE, succeed |-> TRUE, code |-> "none"]
        /\ \A k \in 1 .. n : v[k] = Judge(v[k - 1], asserts[k], resp)
        /\ Assertion(asserts, resp) = v[n]
  <2>1. PICK v : Judging(v, asserts, resp)
    BY AssertionSteps
  <2>2. QED BY <2>1, Zenon DEF Judging
<1>2. n \in Nat /\ DOMAIN asserts = 1 .. n /\ \A i \in 1 .. n : asserts[i].checked \in BOOLEAN
  OBVIOUS
<1>3. \A i : Holds(i) \in BOOLEAN
  BY DEF VerifyAssertionText
<1> DEFINE S == {k \in 0 .. n : v[k] = Verdict(k)}
<1>4. 0 \in S
  BY <1>1, <1>2
<1>5. ASSUME NEW k \in 1 .. n, k - 1 \in S PROVE k \in S
  <2> HIDE DEF n, Holds
  <2>1. k \in 0 .. n /\ k - 1 \in 0 .. n /\ 1 .. k = (1 .. k - 1) \cup {k}
    BY <1>2
  <2>2. v[k] = Judge(Verdict(k - 1), asserts[k], resp)
    BY <1>1, <1>5
  <2>3. Seen(k) = (Seen(k - 1) \/ asserts[k].checked)
    BY <1>2, <2>1
  <2>4. Refuted(k) = (Refuted(k - 1) \/ (asserts[k].checked /\ ~Holds(k)))
    BY <1>2, <1>3, <2>1
  <2>a. \A i : Seen(i) \in BOOLEAN /\ Refuted(i) \in BOOLEAN
    OBVIOUS
  <2> HIDE DEF Seen, Refuted
  <2>5. CASE ~asserts[k].checked
    <3>1. Seen(k) = Seen(k - 1) /\ Refuted(k) = Refuted(k - 1)
      BY <2>3, <2>4, <2>5, <2>a
    <3>2. v[k] = Verdict(k - 1)
      BY <2>2, <2>5 DEF Judge
    <3>3. QED BY <2>1, <3>1, <3>2
  <2>6. CASE asserts[k].checked /\ Holds(k)
    BY <2>1, <2>2, <2>3, <2>4, <2>6 DEF Judge, Holds
  <2>7. CASE asserts[k].checked /\ ~Holds(k)
    BY <2>1, <2>2, <2>3, <2>4, <2>7 DEF Judge, Holds
  <2>8. QED BY <1>2, <2>5, <2>6, <2>7
<1>6. v[n] = Verdict(n)
  <2>1. \A k \in 1 .. n : k - 1 \in S => k \in S
    BY <1>5
  <2> HIDE DEF S, n
  <2>2. \A k \in 0 .. n : k \in S
    BY <1>2, <1>4, <2>1, UpToInduction
  <2>3. QED BY <1>2, <2>2 DEF S
<1>7. Seen(n) = (\E a \in ToSet(asserts) : a.checked)
  BY <1>2 DEF ToSet
<1>8. Refuted(n) = (\E a \in ToSet(asserts) : a.checked /\ ~VerifyAssertionText(a, resp))
  BY <1>2 DEF ToSet
<1> HIDE DEF Seen, Refuted
<1>9. QED BY <1>1, <1>6, <1>7, <1>8

\* What is added: the lower level stays in front, behind it are checked elements of the
\* upper one that agree with no checked one before them, and each checked element of
\* the upper level has one it agrees with.
Merged(l, lower, upper, k, fields) ==
  /\ Len(l) >= Len(lower)
  /\ \A i \in 1 .. Len(lower) : l[i] = lower[i]
  /\ \A i \in Len(lower) + 1 .. Len(l) :
       /\ l[i].checked /\ \E j \in 1 .. k : l[i] = upper[j]
       /\ \A j \in 1 .. i - 1 : ~(l[j].checked /\ Agree(l[i], l[j], fields))
  /\ \A j \in 1 .. k : upper[j].checked => \E i \in 1 .. Len(l) : l[i].checked /\ Agree(upper[j], l[i], fields)

LEMMA AddMissingMerges ==
  ASSUME NEW S, NEW lower \in Seq(S), NEW upper \in Seq(S), NEW fields
  PROVE  /\ AddMissing(lower, upper, fields) \in Seq(S)
         /\ Merged(AddMissing(lower, upper, fields), lower, upper, Len(upper), fields)
<1> DEFINE n == Len(upper)
<1>1. PICK v \in [0 .. n -> Seq(S)] :
        /\ v[0] = lower
        /\ \A k \in 1 .. n : v[k] = AddOne(v[k - 1], upper[k], fields)
        /\ AddMissing(lower, upper, fields) = v[n]
  <2>1. PICK v : Adding(v, S, lower, upper, fields)
    BY AddMissingSteps
  <2>2. QED BY <2>1, Zenon DEF Adding
<1>2. n \in Nat
  OBVIOUS
<1> HIDE DEF n
<1> DEFINE M == {k \in 0 .. n : Merged(v[k], lower, upper, k, fields)}
<1>3. 0 \in M
  BY <1>1, <1>2 DEF Merged
<1>4. ASSUME NEW k \in 1 .. n, k - 1 \in M PROVE k \in M
  <2> DEFINE l == v[k - 1]
             p == upper[k]
  <2>1. k \in 0 .. n /\ k - 1 \in 0 .. n /\ 1 .. k = (1 .. k - 1) \cup {k} /\ p \in S
    BY <1>2 DEF n
  <2>2. l \in Seq(S) /\ v[k] = AddOne(l, p, fields) /\ Merged(l, lower, upper, k - 1, fields)
    BY <1>1, <1>4, <2>1
  <2>3. Agree(p, p, fields)
    BY DEF Agree
  <2> HIDE DEF l, p
  <2>4. CASE p.checked /\ ~\E i \in DOMAIN l : l[i].checked /\ Agree(p, l[i], fields)
    <3>1. v[k] = Append(l, p)
      BY <2>2, <2>4 DEF AddOne
    <3>2. Len(Append(l, p)) = Len(l) + 1 /\ Append(l, p)[Len(l) + 1] = p /\ \A i \in 1 .. Len(l) : Append(l, p)[i] = l[i]
      BY <2>1, <2>2, AppendProperties
    <3> DEFINE m == Append(l, p)
    <3> HIDE DEF m
    <3>3. Len(m) >= Len(lower) /\ \A i \in 1 .. Len(lower) : m[i] = lower[i]
      BY <2>2, <3>2 DEF Merged, m
    <3>4. ASSUME NEW i \in Len(lower) + 1 .. Len(m)
          PROVE  /\ m[i].checked /\ \E j \in 1 .. k : m[i] = upper[j]
                 /\ \A j \in 1 .. i - 1 : ~(m[j].checked /\ Agree(m[i], m[j], fields))
      <4>1. CASE i = Len(l) + 1
        <5>1. m[i] = p /\ p.checked /\ p = upper[k]
          BY <2>4, <3>2, <4>1 DEF m, p
        <5>2. \A j \in 1 .. i - 1 : m[j] = l[j] /\ j \in DOMAIN l
          BY <2>2, <3>2, <4>1 DEF m
        <5>3. QED BY <2>1, <2>4, <5>1, <5>2
      <4>2. CASE i \in Len(lower) + 1 .. Len(l)
        <5>1. m[i] = l[i] /\ \A j \in 1 .. i - 1 : m[j] = l[j]
          BY <2>2, <3>2, <4>2 DEF m
        <5>2. l[i].checked /\ (\E j \in 1 .. k - 1 : l[i] = upper[j])
              /\ \A j \in 1 .. i - 1 : ~(l[j].checked /\ Agree(l[i], l[j], fields))
          BY <2>2, <4>2 DEF Merged
        <5>3. QED BY <2>1, <5>1, <5>2
      <4>3. QED BY <2>2, <3>2, <4>1, <4>2 DEF m
    <3>5. ASSUME NEW j \in 1 .. k, upper[j].checked
          PROVE  \E i \in 1 .. Len(m) : m[i].checked /\ Agree(upper[j], m[i], fields)
      <4>1. CASE j = k
        <5>1. Len(l) + 1 \in 1 .. Len(m) /\ m[Len(l) + 1] = p /\ p = upper[j]
          BY <2>2, <3>2, <4>1 DEF m, p
        <5>2. QED BY <2>3, <2>4, <5>1
      <4>2. CASE j \in 1 .. k - 1
        <5>1. PICK i \in 1 .. Len(l) : l[i].checked /\ Agree(upper[j], l[i], fields)
          BY <2>2, <3>5, <4>2 DEF Merged
        <5>2. i \in 1 .. Len(m) /\ m[i] = l[i]
          BY <2>2, <3>2 DEF m
        <5>3. QED BY <5>1, <5>2
      <4>3. QED BY <2>1, <4>1, <4>2
    <3>6. Merged(m, lower, upper, k, fields)
      BY <3>3, <3>4, <3>5 DEF Merged
    <3>7. QED BY <2>1, <3>1, <3>6 DEF m
  <2>5. CASE ~(p.checked /\ ~\E i \in DOMAIN l : l[i].checked /\ Agree(p, l[i], fields))
    <3>1. v[k] = l
      BY <2>2, <2>5 DEF AddOne
    <3>2. \A j \in 1 .. k : upper[j].checked => \E i \in 1 .. Len(l) : l[i].checked /\ Agree(upper[j], l[i], fields)
      BY <2>1, <2>2, <2>5 DEF Merged, p
    <3>3. Merged(l, lower, upper, k, fields)
      BY <2>1, <2>2, <3>2 DEF Merged
    <3>4. QED BY <2>1, <3>1, <3>3
  <2>6. QED BY <2>4, <2>5
<1>5. n \in M
  <2>1. \A k \in 1 .. n : k - 1 \in M => k \in M
    BY <1>4
  <2> HIDE DEF M
  <2>2. \A k \in 0 .. n : k \in M
    BY <1>2, <1>3, <2>1, UpToInduction
  <2>3. QED BY <1>2, <2>2
<1>6. QED BY <1>1, <1>2, <1>5 DEF n

-----------------------------------------------------------------------------
(* Maps                                                                    *)

\* Maps of finitely many keys of N to values of V.
Maps(N, V) == UNION {[K -> V] : K \in {S \in SUBSET N : IsFiniteSet(S)}}

LEMMA MapsMembers ==
  ASSUME NEW N, NEW V, NEW m
  PROVE  m \in Maps(N, V) <=>
           /\ m = [x \in DOMAIN m |-> m[x]] /\ DOMAIN m \subseteq N /\ IsFiniteSet(DOMAIN m)
           /\ \A x \in DOMAIN m : m[x] \in V
<1>1. ASSUME m \in Maps(N, V)
      PROVE  /\ m = [x \in DOMAIN m |-> m[x]] /\ DOMAIN m \subseteq N /\ IsFiniteSet(DOMAIN m)
             /\ \A x \in DOMAIN m : m[x] \in V
  <2>1. PICK K \in SUBSET N : IsFiniteSet(K) /\ m \in [K -> V]
    BY <1>1 DEF Maps
  <2>2. QED BY <2>1
<1>2. ASSUME m = [x \in DOMAIN m |-> m[x]], DOMAIN m \subseteq N, IsFiniteSet(DOMAIN m), \A x \in DOMAIN m : m[x] \in V
      PROVE  m \in Maps(N, V)
  <2>1. m \in [DOMAIN m -> V]
    BY <1>2
  <2>2. QED BY <1>2, <2>1 DEF Maps
<1>3. QED BY <1>1, <1>2

LEMMA EmptyMap ==
  ASSUME NEW N, NEW V
  PROVE  <<>> \in Maps(N, V)
<1>1. <<>> \in [{} -> V]
  OBVIOUS
<1>2. QED BY <1>1, FS_EmptySet DEF Maps

LEMMA SetMaps ==
  ASSUME NEW N, NEW V, NEW m \in Maps(N, V), NEW k \in N, NEW v \in V
  PROVE  Set(m, k, v) \in Maps(N, V)
<1>1. DOMAIN m \subseteq N /\ IsFiniteSet(DOMAIN m) /\ \A x \in DOMAIN m : m[x] \in V
  BY MapsMembers
<1>2. IsFiniteSet(DOMAIN m \cup {k})
  BY <1>1, FS_AddElement
<1>3. Set(m, k, v) \in [DOMAIN m \cup {k} -> V] /\ DOMAIN m \cup {k} \subseteq N
  BY <1>1 DEF Set
<1>4. QED BY <1>2, <1>3 DEF Maps

LEMMA ChangedMaps ==
  ASSUME NEW N, NEW V, NEW m \in Maps(N, V), NEW k, NEW v \in V
  PROVE  [m EXCEPT ![k] = v] \in Maps(N, V)
<1> DEFINE c == [m EXCEPT ![k] = v]
<1>1. DOMAIN c = DOMAIN m /\ \A x \in DOMAIN m : c[x] \in V
  BY MapsMembers
<1>2. c = [x \in DOMAIN c |-> c[x]]
  OBVIOUS
<1> HIDE DEF c
<1>3. c \in Maps(N, V)
  BY <1>1, <1>2, MapsMembers
<1>4. QED BY <1>3 DEF c

LEMMA IndicesFacts ==
  ASSUME NEW s, IsList(s)
  PROVE  Len(s) \in Nat /\ DOMAIN s = 1 .. Len(s) /\ Indices(s) \in Seq(1 .. Len(s)) /\ Len(Indices(s)) = Len(s)
         /\ \A i \in 1 .. Len(s) : Indices(s)[i] = i
<1>1. Len(s) \in Nat /\ DOMAIN s = 1 .. Len(s)
  BY DEF IsList
<1>2. Indices(s) \in [1 .. Len(s) -> 1 .. Len(s)]
  BY <1>1 DEF Indices
<1>3. Indices(s) \in Seq(1 .. Len(s)) /\ Len(Indices(s)) = Len(s)
  BY <1>1, <1>2
<1>4. QED BY <1>1, <1>3 DEF Indices

\* The elements of a list are finitely many.
LEMMA ListIsFinite ==
  ASSUME NEW s, IsList(s)
  PROVE  IsFiniteSet(ToSet(s))
<1>1. Len(s) \in Nat /\ s \in [1 .. Len(s) -> ToSet(s)]
  BY DEF IsList
<1>2. IsFiniteSet(1 .. Len(s))
  BY <1>1, FS_Interval
<1>3. \A y \in ToSet(s) : \E x \in 1 .. Len(s) : s[x] = y
  BY <1>1 DEF ToSet
<1>4. s \in Surjection(1 .. Len(s), ToSet(s))
  BY <1>1, <1>3 DEF Surjection
<1>5. QED BY <1>2, <1>4, FS_Surjection

-----------------------------------------------------------------------------
(* The columns of the files                                                *)

\* The columns after each value of a line.
Filling(v, N, V, now, f, line) ==
  /\ v \in [0 .. Len(Indices(f.names)) -> Maps(N, Seq(V))]
  /\ v[0] = now
  /\ \A k \in 1 .. Len(Indices(f.names)) : v[k] = FillName(v[k - 1], f, line, Indices(f.names)[k])
  /\ FillLine(now, f, line) = v[Len(Indices(f.names))]

LEMMA FillLineSteps ==
  ASSUME NEW N, NEW V, NEW f, IsList(f.names), NEW line, \A i : Value(line, i) \in V, NEW now \in Maps(N, Seq(V))
  PROVE  \E v : Filling(v, N, V, now, f, line)
<1> DEFINE n == Len(Indices(f.names))
           T == Maps(N, Seq(V))
           g == [p \in T \X (1 .. n) |-> FillName(p[1], f, line, Indices(f.names)[p[2]])]
           Table(t) == t = [s \in SUBSET DOMAIN Indices(f.names) |->
                              IF s = {} THEN now ELSE FillName(t[s \ {Max(s)}], f, line, Indices(f.names)[Max(s)])]
           table == CHOOSE t : Table(t)
<1>1. n \in Nat /\ DOMAIN Indices(f.names) = 1 .. n /\ now \in T
  BY IndicesFacts
<1>2. ASSUME NEW v \in T, NEW i \in 1 .. n PROVE FillName(v, f, line, Indices(f.names)[i]) \in T
  <2> DEFINE at1 == Indices(f.names)[i]
  <2>1. CASE f.names[at1].spaced
    BY <2>1 DEF FillName
  <2>2. CASE ~f.names[at1].spaced
    <3> DEFINE c == f.names[at1].name
    <3>1. FillName(v, f, line, at1) = [v EXCEPT ![c] = Append(v[c], Value(line, at1))]
      BY <2>2 DEF FillName
    <3> HIDE DEF c, at1
    <3>2. CASE c \in DOMAIN v
      <4>1. v[c] \in Seq(V)
        BY <3>2, MapsMembers
      <4>2. Append(v[c], Value(line, at1)) \in Seq(V)
        BY <4>1
      <4>3. [v EXCEPT ![c] = Append(v[c], Value(line, at1))] \in T
        BY <4>2, ChangedMaps
      <4>4. QED BY <3>1, <4>3 DEF at1
    <3>3. CASE c \notin DOMAIN v
      <4>1. [v EXCEPT ![c] = Append(v[c], Value(line, at1))] = [x \in DOMAIN v |-> v[x]]
        BY <3>3
      <4>2. v = [x \in DOMAIN v |-> v[x]]
        BY MapsMembers
      <4>3. QED BY <3>1, <4>1, <4>2 DEF at1
    <3>4. QED BY <3>2, <3>3
  <2>3. QED BY <2>1, <2>2
<1>3. g \in [T \X (1 .. n) -> T]
  BY <1>2
<1>4. PICK t : IsTable(t, T, now, n, g)
  <2> HIDE DEF T, g, n
  <2>1. QED BY <1>1, <1>3, TableExists
<1>5. ASSUME NEW s \in SUBSET (1 .. n), s # {}
      PROVE  t[s] = FillName(t[s \ {Max(s)}], f, line, Indices(f.names)[Max(s)])
  <2> HIDE DEF T, n
  <2>1. Max(s) \in 1 .. n /\ s \ {Max(s)} \in SUBSET (1 .. n)
    BY <1>1, <1>5, LargestIsIn
  <2>2. <<t[s \ {Max(s)}], Max(s)>> \in T \X (1 .. n)
    BY <1>4, <2>1 DEF IsTable
  <2>3. QED BY <1>4, <1>5, <2>2 DEF IsTable
<1>6. Table(t)
  <2> HIDE DEF T, g, n
  <2>1. QED BY <1>1, <1>4, <1>5 DEF IsTable
<1>7. Table(table)
  <2> HIDE DEF Table
  <2>1. QED BY <1>6, Zenon
<1>8. FillLine(now, f, line) = table[DOMAIN Indices(f.names)]
  BY Zenon DEF FillLine, FoldLeft, MapThenFoldSet
<1>9. table[{}] = now /\ \A s \in SUBSET (1 .. n) : s # {} => table[s] = FillName(table[s \ {Max(s)}], f, line, Indices(f.names)[Max(s)])
  <2> HIDE DEF T, g, n, table
  <2>1. QED BY <1>1, <1>7
<1>10. Follows(table, T, now, n, g)
  <2> HIDE DEF T, n, table
  <2>1. \A s \in SUBSET (1 .. n) : s # {} => Max(s) \in 1 .. n
    BY <1>1, LargestIsIn
  <2>2. QED BY <1>9, <2>1 DEF Follows
<1> DEFINE v == [k \in 0 .. n |-> table[1 .. k]]
<1>11. IsRun(v, T, now, n, g)
  <2> HIDE DEF T, g, n, table
  <2>1. QED BY <1>1, <1>3, <1>10, TableRuns
<1>12. v \in [0 .. n -> T] /\ v[0] = now /\ (\A k \in 1 .. n : v[k] = FillName(v[k - 1], f, line, Indices(f.names)[k]))
  <2> HIDE DEF T, n, v
  <2>1. \A k \in 1 .. n : <<v[k - 1], k>> \in T \X (1 .. n)
    BY <1>1, <1>11 DEF IsRun
  <2>2. QED BY <1>11, <2>1 DEF IsRun
<1>13. FillLine(now, f, line) = v[n]
  <2> HIDE DEF T, n, table
  <2>1. QED BY <1>1, <1>8
<1> HIDE DEF v
<1>14. Filling(v, N, V, now, f, line)
  BY <1>12, <1>13 DEF Filling
<1>15. QED BY <1>14

LEMMA FillLineTyped ==
  ASSUME NEW N, NEW V, NEW f, IsList(f.names), NEW line, \A i : Value(line, i) \in V, NEW now \in Maps(N, Seq(V))
  PROVE  FillLine(now, f, line) \in Maps(N, Seq(V))
<1>1. PICK v : Filling(v, N, V, now, f, line)
  BY FillLineSteps
<1>2. Len(Indices(f.names)) \in 0 .. Len(Indices(f.names))
  BY IndicesFacts
<1>3. QED BY <1>1, <1>2 DEF Filling

\* The columns after each line.
RowFilling(v, N, V, now, f) ==
  /\ v \in [0 .. Len(f.rows) -> Maps(N, Seq(V))]
  /\ v[0] = now
  /\ \A k \in 1 .. Len(f.rows) : v[k] = FillLine(v[k - 1], f, f.rows[k])
  /\ FillRows(now, f) = v[Len(f.rows)]

LEMMA FillRowsSteps ==
  ASSUME NEW N, NEW V, NEW f, IsList(f.names), IsList(f.rows), \A line \in ToSet(f.rows) : \A i : Value(line, i) \in V, NEW now \in Maps(N, Seq(V))
  PROVE  \E v : RowFilling(v, N, V, now, f)
<1> DEFINE n == Len(f.rows)
           T == Maps(N, Seq(V))
           g == [p \in T \X (1 .. n) |-> FillLine(p[1], f, f.rows[p[2]])]
           Table(t) == t = [s \in SUBSET DOMAIN f.rows |->
                              IF s = {} THEN now ELSE FillLine(t[s \ {Max(s)}], f, f.rows[Max(s)])]
           table == CHOOSE t : Table(t)
<1>1. n \in Nat /\ DOMAIN f.rows = 1 .. n /\ now \in T
  BY DEF IsList
<1>2. ASSUME NEW v \in T, NEW i \in 1 .. n PROVE FillLine(v, f, f.rows[i]) \in T
  <2>1. f.rows[i] \in ToSet(f.rows)
    BY <1>1 DEF ToSet
  <2> HIDE DEF n
  <2>2. QED BY <2>1, FillLineTyped
<1>3. g \in [T \X (1 .. n) -> T]
  BY <1>2
<1>4. PICK t : IsTable(t, T, now, n, g)
  <2> HIDE DEF T, g, n
  <2>1. QED BY <1>1, <1>3, TableExists
<1>5. ASSUME NEW s \in SUBSET (1 .. n), s # {}
      PROVE  t[s] = FillLine(t[s \ {Max(s)}], f, f.rows[Max(s)])
  <2> HIDE DEF T, n
  <2>1. Max(s) \in 1 .. n /\ s \ {Max(s)} \in SUBSET (1 .. n)
    BY <1>1, <1>5, LargestIsIn
  <2>2. <<t[s \ {Max(s)}], Max(s)>> \in T \X (1 .. n)
    BY <1>4, <2>1 DEF IsTable
  <2>3. QED BY <1>4, <1>5, <2>2 DEF IsTable
<1>6. Table(t)
  <2> HIDE DEF T, g, n
  <2>1. QED BY <1>1, <1>4, <1>5 DEF IsTable
<1>7. Table(table)
  <2> HIDE DEF Table
  <2>1. QED BY <1>6, Zenon
<1>8. FillRows(now, f) = table[DOMAIN f.rows]
  BY Zenon DEF FillRows, FoldLeft, MapThenFoldSet
<1>9. table[{}] = now /\ \A s \in SUBSET (1 .. n) : s # {} => table[s] = FillLine(table[s \ {Max(s)}], f, f.rows[Max(s)])
  <2> HIDE DEF T, g, n, table
  <2>1. QED BY <1>1, <1>7
<1>10. Follows(table, T, now, n, g)
  <2> HIDE DEF T, n, table
  <2>1. \A s \in SUBSET (1 .. n) : s # {} => Max(s) \in 1 .. n
    BY <1>1, LargestIsIn
  <2>2. QED BY <1>9, <2>1 DEF Follows
<1> DEFINE v == [k \in 0 .. n |-> table[1 .. k]]
<1>11. IsRun(v, T, now, n, g)
  <2> HIDE DEF T, g, n, table
  <2>1. QED BY <1>1, <1>3, <1>10, TableRuns
<1>12. v \in [0 .. n -> T] /\ v[0] = now /\ (\A k \in 1 .. n : v[k] = FillLine(v[k - 1], f, f.rows[k]))
  <2> HIDE DEF T, n, v
  <2>1. \A k \in 1 .. n : <<v[k - 1], k>> \in T \X (1 .. n)
    BY <1>1, <1>11 DEF IsRun
  <2>2. QED BY <1>11, <2>1 DEF IsRun
<1>13. FillRows(now, f) = v[n]
  <2> HIDE DEF T, n, table
  <2>1. QED BY <1>1, <1>8
<1> HIDE DEF v
<1>14. RowFilling(v, N, V, now, f)
  BY <1>12, <1>13 DEF RowFilling
<1>15. QED BY <1>14

LEMMA FillRowsTyped ==
  ASSUME NEW N, NEW V, NEW f, IsList(f.names), IsList(f.rows),
         \A line \in ToSet(f.rows) : \A i : Value(line, i) \in V, NEW now \in Maps(N, Seq(V))
  PROVE  FillRows(now, f) \in Maps(N, Seq(V))
<1>1. PICK v : RowFilling(v, N, V, now, f)
  BY FillRowsSteps
<1>2. Len(f.rows) \in 0 .. Len(f.rows)
  BY DEF IsList
<1>3. QED BY <1>1, <1>2 DEF RowFilling

LEMMA ColumnedTyped ==
  ASSUME NEW N, NEW V, NEW f, IsList(f.names), \A x \in ToSet(f.names) : x.name \in N, NEW now \in Maps(N, Seq(V))
  PROVE  Columned(now, f) \in Maps(N, Seq(V))
<1> DEFINE names == {x.name : x \in ToSet(f.names)}
           c == Columned(now, f)
<1>1. IsFiniteSet(names)
  <2> DEFINE g == [x \in ToSet(f.names) |-> x.name]
  <2>1. g \in Surjection(ToSet(f.names), names)
    BY DEF Surjection
  <2> HIDE DEF names, g
  <2>2. QED BY <2>1, ListIsFinite, FS_Surjection
<1>2. DOMAIN now \subseteq N /\ IsFiniteSet(DOMAIN now) /\ \A x \in DOMAIN now : now[x] \in Seq(V)
  BY MapsMembers
<1>3. names \subseteq N
  OBVIOUS
<1> HIDE DEF names
<1>4. IsFiniteSet(DOMAIN now \cup names)
  BY <1>1, <1>2, FS_Union
<1>5. c = [x \in DOMAIN now \cup names |-> IF x \in DOMAIN now THEN now[x] ELSE <<>>]
  BY DEF Columned, names
<1> HIDE DEF c
<1>6. DOMAIN c = DOMAIN now \cup names /\ \A x \in DOMAIN c : c[x] \in Seq(V)
  BY <1>2, <1>5
<1>7. c = [x \in DOMAIN c |-> c[x]]
  BY <1>5
<1>8. c \in Maps(N, Seq(V))
  BY <1>2, <1>3, <1>4, <1>6, <1>7, MapsMembers
<1>9. QED BY <1>8 DEF c

LEMMA AddFileTyped ==
  ASSUME NEW N, NEW V, NEW f, IsFile(f), \A x \in ToSet(f.names) : x.name \in N,
         \A line \in ToSet(f.rows) : \A i : Value(line, i) \in V, NEW now \in Maps(N, Seq(V))
  PROVE  AddFile(now, f) \in Maps(N, Seq(V))
<1>1. IsList(f.names) /\ IsList(f.rows)
  BY DEF IsFile
<1>2. Columned(now, f) \in Maps(N, Seq(V))
  BY <1>1, ColumnedTyped
<1>3. FillRows(Columned(now, f), f) \in Maps(N, Seq(V))
  BY <1>1, <1>2, FillRowsTyped
<1>4. QED BY <1>3 DEF AddFile

\* The names of the files are in N, the values of their lines in V.
FilesOver(files, N, V) ==
  /\ IsList(files)
  /\ \A f \in ToSet(files) :
       /\ IsFile(f)
       /\ \A x \in ToSet(f.names) : x.name \in N
       /\ \A line \in ToSet(f.rows) : \A i : Value(line, i) \in V

\* The columns after each file.
Using(v, N, V, files) ==
  /\ v \in [0 .. Len(files) -> Maps(N, Seq(V))]
  /\ v[0] = <<>>
  /\ \A k \in 1 .. Len(files) : v[k] = AddFile(v[k - 1], files[k])
  /\ UseFile(files) = v[Len(files)]

LEMMA UseFileSteps ==
  ASSUME NEW N, NEW V, NEW files, FilesOver(files, N, V)
  PROVE  \E v : Using(v, N, V, files)
<1> DEFINE n == Len(files)
           T == Maps(N, Seq(V))
           g == [p \in T \X (1 .. n) |-> AddFile(p[1], files[p[2]])]
           Table(t) == t = [s \in SUBSET DOMAIN files |->
                              IF s = {} THEN <<>> ELSE AddFile(t[s \ {Max(s)}], files[Max(s)])]
           table == CHOOSE t : Table(t)
<1>1. n \in Nat /\ DOMAIN files = 1 .. n /\ <<>> \in T
  BY EmptyMap DEF FilesOver, IsList
<1>2. ASSUME NEW v \in T, NEW i \in 1 .. n PROVE AddFile(v, files[i]) \in T
  <2>1. files[i] \in ToSet(files)
    BY <1>1 DEF ToSet
  <2>2. IsFile(files[i]) /\ (\A x \in ToSet(files[i].names) : x.name \in N) /\ \A line \in ToSet(files[i].rows) : \A k : Value(line, k) \in V
    BY <2>1 DEF FilesOver
  <2> HIDE DEF n
  <2>3. QED BY <2>2, AddFileTyped
<1>3. g \in [T \X (1 .. n) -> T]
  BY <1>2
<1>4. PICK t : IsTable(t, T, <<>>, n, g)
  <2> HIDE DEF T, g, n
  <2>1. QED BY <1>1, <1>3, TableExists
<1>5. ASSUME NEW s \in SUBSET (1 .. n), s # {}
      PROVE  t[s] = AddFile(t[s \ {Max(s)}], files[Max(s)])
  <2> HIDE DEF T, n
  <2>1. Max(s) \in 1 .. n /\ s \ {Max(s)} \in SUBSET (1 .. n)
    BY <1>1, <1>5, LargestIsIn
  <2>2. <<t[s \ {Max(s)}], Max(s)>> \in T \X (1 .. n)
    BY <1>4, <2>1 DEF IsTable
  <2>3. QED BY <1>4, <1>5, <2>2 DEF IsTable
<1>6. Table(t)
  <2> HIDE DEF T, g, n
  <2>1. QED BY <1>1, <1>4, <1>5 DEF IsTable
<1>7. Table(table)
  <2> HIDE DEF Table
  <2>1. QED BY <1>6, Zenon
<1>8. UseFile(files) = table[DOMAIN files]
  BY Zenon DEF UseFile, FoldLeft, MapThenFoldSet
<1>9. table[{}] = <<>> /\ \A s \in SUBSET (1 .. n) : s # {} => table[s] = AddFile(table[s \ {Max(s)}], files[Max(s)])
  <2> HIDE DEF T, g, n, table
  <2>1. QED BY <1>1, <1>7
<1>10. Follows(table, T, <<>>, n, g)
  <2> HIDE DEF T, n, table
  <2>1. \A s \in SUBSET (1 .. n) : s # {} => Max(s) \in 1 .. n
    BY <1>1, LargestIsIn
  <2>2. QED BY <1>9, <2>1 DEF Follows
<1> DEFINE v == [k \in 0 .. n |-> table[1 .. k]]
<1>11. IsRun(v, T, <<>>, n, g)
  <2> HIDE DEF T, g, n, table
  <2>1. QED BY <1>1, <1>3, <1>10, TableRuns
<1>12. v \in [0 .. n -> T] /\ v[0] = <<>> /\ (\A k \in 1 .. n : v[k] = AddFile(v[k - 1], files[k]))
  <2> HIDE DEF T, n, v
  <2>1. \A k \in 1 .. n : <<v[k - 1], k>> \in T \X (1 .. n)
    BY <1>1, <1>11 DEF IsRun
  <2>2. QED BY <1>11, <2>1 DEF IsRun
<1>13. UseFile(files) = v[n]
  <2> HIDE DEF T, n, table
  <2>1. QED BY <1>1, <1>8
<1> HIDE DEF v
<1>14. Using(v, N, V, files)
  BY <1>12, <1>13 DEF Using
<1>15. QED BY <1>14

LEMMA FilesHaveValues ==
  ASSUME NEW files, IsList(files), \A f \in ToSet(files) : IsFile(f)
  PROVE  \E N, V : FilesOver(files, N, V)
<1> DEFINE N == UNION {{x.name : x \in ToSet(f.names)} : f \in ToSet(files)}
           V == {<<>>} \cup UNION {UNION {ToSet(line) : line \in ToSet(f.rows)} : f \in ToSet(files)}
<1>1. ASSUME NEW f \in ToSet(files), NEW line \in ToSet(f.rows), NEW i PROVE Value(line, i) \in V
  <2>0. ToSet(line) \subseteq V
    <3>1. ToSet(line) \subseteq UNION {ToSet(l) : l \in ToSet(f.rows)}
      OBVIOUS
    <3>2. QED BY <3>1
  <2>1. CASE i \in DOMAIN line
    <3>1. line[i] \in ToSet(line) /\ Value(line, i) = line[i]
      BY <2>1 DEF ToSet, Value
    <3> HIDE DEF V
    <3>2. QED BY <2>0, <3>1
  <2>2. CASE i \notin DOMAIN line
    BY <2>2 DEF Value
  <2>3. QED BY <2>1, <2>2
<1>2. \A f \in ToSet(files) : \A x \in ToSet(f.names) : x.name \in N
  OBVIOUS
<1> HIDE DEF N, V
<1>3. FilesOver(files, N, V)
  BY <1>1, <1>2 DEF FilesOver
<1>4. QED BY <1>3

LEMMA UseFileTyped ==
  ASSUME NEW files, IsList(files), \A f \in ToSet(files) : IsFile(f)
  PROVE  \E N, V : UseFile(files) \in Maps(N, Seq(V))
<1>1. PICK N, V : FilesOver(files, N, V)
  BY FilesHaveValues
<1>2. PICK v : Using(v, N, V, files)
  BY <1>1, UseFileSteps
<1>3. Len(files) \in 0 .. Len(files)
  BY DEF IsList
<1>4. QED BY <1>2, <1>3 DEF Using

-----------------------------------------------------------------------------
(* What the prepositions select                                            *)

\* The rules name variables of N and take values of V from the answer.
Takes(N, V, rules, answer) ==
  \A r \in ToSet(rules) :
    /\ r.var \in N
    /\ Missing \in V
    /\ r.field \in DOMAIN answer.result =>
         answer.result[r.field] \in V /\ String(answer.result[r.field].text[r.index + 1]) \in V

LEMMA TakeTyped ==
  ASSUME NEW N, NEW V, NEW rules, NEW answer, Takes(N, V, rules, answer), NEW r \in ToSet(rules), NEW now \in Maps(N, V)
  PROVE  Take(now, r, answer) \in Maps(N, V)
<1>1. /\ r.var \in N /\ Missing \in V
      /\ r.field \in DOMAIN answer.result =>
           answer.result[r.field] \in V /\ String(answer.result[r.field].text[r.index + 1]) \in V
  BY DEF Takes
<1>2. \A v \in V : Set(now, r.var, v) \in Maps(N, V)
  BY <1>1, SetMaps
<1> DEFINE found == answer.result[r.field]
<1>3. \/ Take(now, r, answer) = now
      \/ Take(now, r, answer) = Set(now, r.var, Missing)
      \/ r.field \in DOMAIN answer.result /\ Take(now, r, answer) = Set(now, r.var, found)
      \/ r.field \in DOMAIN answer.result /\ Take(now, r, answer) = Set(now, r.var, String(found.text[r.index + 1]))
  BY DEF Take
<1> HIDE DEF found
<1>4. QED BY <1>1, <1>2, <1>3 DEF found

\* The variables after each rule.
Extracting(v, N, V, rules, now, answer) ==
  /\ v \in [0 .. Len(rules) -> Maps(N, V)]
  /\ v[0] = now
  /\ \A k \in 1 .. Len(rules) : v[k] = Take(v[k - 1], rules[k], answer)
  /\ TakeAll(rules, now, answer) = v[Len(rules)]

LEMMA RegexSqlSteps ==
  ASSUME NEW N, NEW V, NEW rules, IsList(rules), NEW now \in Maps(N, V), NEW answer, Takes(N, V, rules, answer)
  PROVE  \E v : Extracting(v, N, V, rules, now, answer)
<1> DEFINE n == Len(rules)
           T == Maps(N, V)
           g == [p \in T \X (1 .. n) |-> Take(p[1], rules[p[2]], answer)]
           Table(t) == t = [s \in SUBSET DOMAIN rules |->
                              IF s = {} THEN now ELSE Take(t[s \ {Max(s)}], rules[Max(s)], answer)]
           table == CHOOSE t : Table(t)
<1>1. n \in Nat /\ DOMAIN rules = 1 .. n /\ now \in T
  BY DEF IsList
<1>2. ASSUME NEW v \in T, NEW i \in 1 .. n PROVE Take(v, rules[i], answer) \in T
  <2>1. rules[i] \in ToSet(rules)
    BY <1>1 DEF ToSet
  <2> HIDE DEF n
  <2>2. QED BY <2>1, TakeTyped
<1>3. g \in [T \X (1 .. n) -> T]
  BY <1>2
<1>4. PICK t : IsTable(t, T, now, n, g)
  <2> HIDE DEF T, g, n
  <2>1. QED BY <1>1, <1>3, TableExists
<1>5. ASSUME NEW s \in SUBSET (1 .. n), s # {}
      PROVE  t[s] = Take(t[s \ {Max(s)}], rules[Max(s)], answer)
  <2> HIDE DEF T, n
  <2>1. Max(s) \in 1 .. n /\ s \ {Max(s)} \in SUBSET (1 .. n)
    BY <1>1, <1>5, LargestIsIn
  <2>2. <<t[s \ {Max(s)}], Max(s)>> \in T \X (1 .. n)
    BY <1>4, <2>1 DEF IsTable
  <2>3. QED BY <1>4, <1>5, <2>2 DEF IsTable
<1>6. Table(t)
  <2> HIDE DEF T, g, n
  <2>1. QED BY <1>1, <1>4, <1>5 DEF IsTable
<1>7. Table(table)
  <2> HIDE DEF Table
  <2>1. QED BY <1>6, Zenon
<1>8. TakeAll(rules, now, answer) = table[DOMAIN rules]
  BY Zenon DEF TakeAll, FoldLeft, MapThenFoldSet
<1>9. table[{}] = now /\ \A s \in SUBSET (1 .. n) : s # {} => table[s] = Take(table[s \ {Max(s)}], rules[Max(s)], answer)
  <2> HIDE DEF T, g, n, table
  <2>1. QED BY <1>1, <1>7
<1>10. Follows(table, T, now, n, g)
  <2> HIDE DEF T, n, table
  <2>1. \A s \in SUBSET (1 .. n) : s # {} => Max(s) \in 1 .. n
    BY <1>1, LargestIsIn
  <2>2. QED BY <1>9, <2>1 DEF Follows
<1> DEFINE v == [k \in 0 .. n |-> table[1 .. k]]
<1>11. IsRun(v, T, now, n, g)
  <2> HIDE DEF T, g, n, table
  <2>1. QED BY <1>1, <1>3, <1>10, TableRuns
<1>12. v \in [0 .. n -> T] /\ v[0] = now /\ (\A k \in 1 .. n : v[k] = Take(v[k - 1], rules[k], answer))
  <2> HIDE DEF T, n, v
  <2>1. \A k \in 1 .. n : <<v[k - 1], k>> \in T \X (1 .. n)
    BY <1>1, <1>11 DEF IsRun
  <2>2. QED BY <1>11, <2>1 DEF IsRun
<1>13. TakeAll(rules, now, answer) = v[n]
  <2> HIDE DEF T, n, table
  <2>1. QED BY <1>1, <1>8
<1> HIDE DEF v
<1>14. Extracting(v, N, V, rules, now, answer)
  BY <1>12, <1>13 DEF Extracting
<1>15. QED BY <1>14

LEMMA RegexSqlTyped ==
  ASSUME NEW N, NEW V, NEW rules, IsList(rules), NEW now \in Maps(N, V), NEW answer, Takes(N, V, rules, answer)
  PROVE  RegexSql(rules, now, answer) \in Maps(N, V)
<1>1. PICK v : Extracting(v, N, V, rules, now, answer)
  BY RegexSqlSteps
<1>2. Len(rules) \in 0 .. Len(rules)
  BY DEF IsList
<1>3. v[Len(rules)] \in Maps(N, V)
  BY <1>1, <1>2 DEF Extracting
<1>4. RegexSql(rules, now, answer) \in {now, v[Len(rules)]}
  BY <1>1 DEF RegexSql, Extracting
<1>5. QED BY <1>3, <1>4

Selects(N, V, prepositions, answers) ==
  /\ IsList(prepositions)
  /\ \A i \in DOMAIN prepositions :
       IsList(prepositions[i].regex) /\ (i \in DOMAIN answers => Takes(N, V, prepositions[i].regex, answers[i]))

LEMMA SqlOneTyped ==
  ASSUME NEW N, NEW V, NEW prepositions, NEW answers, Selects(N, V, prepositions, answers),
         NEW i \in DOMAIN prepositions, NEW now \in Maps(N, V)
  PROVE  SqlOne(now, prepositions[i], i, answers) \in Maps(N, V)
<1>1. CASE i \in DOMAIN answers
  <2>1. IsList(prepositions[i].regex) /\ Takes(N, V, prepositions[i].regex, answers[i])
    BY <1>1 DEF Selects
  <2>2. RegexSql(prepositions[i].regex, now, answers[i]) \in Maps(N, V)
    BY <2>1, RegexSqlTyped
  <2>3. QED BY <1>1, <2>2 DEF SqlOne
<1>2. CASE i \notin DOMAIN answers
  BY <1>2 DEF SqlOne
<1>3. QED BY <1>1, <1>2

\* The variables after each preposition.
Selecting(v, N, V, prepositions, answers) ==
  /\ v \in [0 .. Len(Indices(prepositions)) -> Maps(N, V)]
  /\ v[0] = <<>>
  /\ \A k \in 1 .. Len(Indices(prepositions)) : v[k] = SqlOne(v[k - 1], prepositions[Indices(prepositions)[k]], Indices(prepositions)[k], answers)
  /\ SqlMap(prepositions, answers) = v[Len(Indices(prepositions))]

LEMMA SqlMapSteps ==
  ASSUME NEW N, NEW V, NEW prepositions, NEW answers, Selects(N, V, prepositions, answers)
  PROVE  \E v : Selecting(v, N, V, prepositions, answers)
<1> DEFINE n == Len(Indices(prepositions))
           T == Maps(N, V)
           g == [p \in T \X (1 .. n) |-> SqlOne(p[1], prepositions[Indices(prepositions)[p[2]]], Indices(prepositions)[p[2]], answers)]
           Table(t) == t = [s \in SUBSET DOMAIN Indices(prepositions) |->
                              IF s = {} THEN <<>> ELSE SqlOne(t[s \ {Max(s)}], prepositions[Indices(prepositions)[Max(s)]], Indices(prepositions)[Max(s)], answers)]
           table == CHOOSE t : Table(t)
<1>1. n \in Nat /\ DOMAIN Indices(prepositions) = 1 .. n /\ <<>> \in T
  BY IndicesFacts, EmptyMap DEF Selects
<1>2. ASSUME NEW v \in T, NEW i \in 1 .. n PROVE SqlOne(v, prepositions[Indices(prepositions)[i]], Indices(prepositions)[i], answers) \in T
  <2>1. i \in DOMAIN prepositions /\ Indices(prepositions)[i] = i
    BY <1>1, IndicesFacts DEF Selects
  <2> HIDE DEF n
  <2>2. QED BY <2>1, SqlOneTyped
<1>3. g \in [T \X (1 .. n) -> T]
  BY <1>2
<1>4. PICK t : IsTable(t, T, <<>>, n, g)
  <2> HIDE DEF T, g, n
  <2>1. QED BY <1>1, <1>3, TableExists
<1>5. ASSUME NEW s \in SUBSET (1 .. n), s # {}
      PROVE  t[s] = SqlOne(t[s \ {Max(s)}], prepositions[Indices(prepositions)[Max(s)]], Indices(prepositions)[Max(s)], answers)
  <2> HIDE DEF T, n
  <2>1. Max(s) \in 1 .. n /\ s \ {Max(s)} \in SUBSET (1 .. n)
    BY <1>1, <1>5, LargestIsIn
  <2>2. <<t[s \ {Max(s)}], Max(s)>> \in T \X (1 .. n)
    BY <1>4, <2>1 DEF IsTable
  <2>3. QED BY <1>4, <1>5, <2>2 DEF IsTable
<1>6. Table(t)
  <2> HIDE DEF T, g, n
  <2>1. QED BY <1>1, <1>4, <1>5 DEF IsTable
<1>7. Table(table)
  <2> HIDE DEF Table
  <2>1. QED BY <1>6, Zenon
<1>8. SqlMap(prepositions, answers) = table[DOMAIN Indices(prepositions)]
  BY Zenon DEF SqlMap, FoldLeft, MapThenFoldSet
<1>9. table[{}] = <<>> /\ \A s \in SUBSET (1 .. n) : s # {} => table[s] = SqlOne(table[s \ {Max(s)}], prepositions[Indices(prepositions)[Max(s)]], Indices(prepositions)[Max(s)], answers)
  <2> HIDE DEF T, g, n, table
  <2>1. QED BY <1>1, <1>7
<1>10. Follows(table, T, <<>>, n, g)
  <2> HIDE DEF T, n, table
  <2>1. \A s \in SUBSET (1 .. n) : s # {} => Max(s) \in 1 .. n
    BY <1>1, LargestIsIn
  <2>2. QED BY <1>9, <2>1 DEF Follows
<1> DEFINE v == [k \in 0 .. n |-> table[1 .. k]]
<1>11. IsRun(v, T, <<>>, n, g)
  <2> HIDE DEF T, g, n, table
  <2>1. QED BY <1>1, <1>3, <1>10, TableRuns
<1>12. v \in [0 .. n -> T] /\ v[0] = <<>> /\ (\A k \in 1 .. n : v[k] = SqlOne(v[k - 1], prepositions[Indices(prepositions)[k]], Indices(prepositions)[k], answers))
  <2> HIDE DEF T, n, v
  <2>1. \A k \in 1 .. n : <<v[k - 1], k>> \in T \X (1 .. n)
    BY <1>1, <1>11 DEF IsRun
  <2>2. QED BY <1>11, <2>1 DEF IsRun
<1>13. SqlMap(prepositions, answers) = v[n]
  <2> HIDE DEF T, n, table
  <2>1. QED BY <1>1, <1>8
<1> HIDE DEF v
<1>14. Selecting(v, N, V, prepositions, answers)
  BY <1>12, <1>13 DEF Selecting
<1>15. QED BY <1>14

\* What may be in the result of an answer.
IsAnswer(answer) ==
  \A c \in DOMAIN answer.result : answer.result[c].type = "list" => IsList(answer.result[c].text)

LEMMA AnswersAreLists ==
  ASSUME NEW sql, NEW answer \in SqlAnswers(sql)
  PROVE  IsAnswer(answer)
<1> DEFINE selected == {[c \in DOMAIN t |-> List(t[c])] : t \in Tables}
           executed == {[f \in fields |-> Number64] : fields \in {{}, {"rows_affected"}, {"rows_affected", "last_insert_id"}}}
<1>1. answer.result = <<>> \/ answer.result \in selected \/ answer.result \in executed
  BY DEF SqlAnswers
<1>2. CASE answer.result = <<>>
  BY <1>2 DEF IsAnswer
<1>3. CASE answer.result \in selected
  <2>1. PICK t \in Tables : answer.result = [c \in DOMAIN t |-> List(t[c])]
    BY <1>3
  <2>2. \A c \in DOMAIN t : answer.result[c].text = t[c] /\ IsList(t[c])
    BY <2>1, TablesAssumption DEF List
  <2>3. QED BY <2>1, <2>2 DEF IsAnswer
<1>4. CASE answer.result \in executed
  BY <1>4 DEF IsAnswer, Number64
<1>5. QED BY <1>1, <1>2, <1>3, <1>4

\* A list of texts that a preposition selected is a list.
IsValue(v) == v.type = "list" => IsList(v.text)

LEMMA SqlMapTyped ==
  ASSUME NEW prepositions, IsList(prepositions), \A q \in ToSet(prepositions) : IsList(q.regex),
         NEW answers, \A i \in DOMAIN answers : IsAnswer(answers[i])
  PROVE  \E N, V : SqlMap(prepositions, answers) \in Maps(N, V) /\ \A v \in V : IsValue(v)
<1> DEFINE D == DOMAIN prepositions
           Taken(i, r) == IF i \in DOMAIN answers /\ r.field \in DOMAIN answers[i].result
                          THEN {answers[i].result[r.field], String(answers[i].result[r.field].text[r.index + 1]), Missing}
                          ELSE {Missing}
           N == UNION {{r.var : r \in ToSet(prepositions[i].regex)} : i \in D}
           V == UNION {UNION {Taken(i, r) : r \in ToSet(prepositions[i].regex)} : i \in D}
<1>1. ASSUME NEW i \in D, NEW r \in ToSet(prepositions[i].regex)
      PROVE  r.var \in N /\ Taken(i, r) \subseteq V
  OBVIOUS
<1>2. ASSUME NEW i \in D, NEW r PROVE \A v \in Taken(i, r) : IsValue(v)
  <2>1. IsValue(Missing) /\ \A x : IsValue(String(x))
    BY DEF IsValue, Missing, String
  <2>2. i \in DOMAIN answers /\ r.field \in DOMAIN answers[i].result => IsValue(answers[i].result[r.field])
    BY DEF IsAnswer, IsValue
  <2>3. QED BY <2>1, <2>2
<1>3. \A v \in V : IsValue(v)
  <2> HIDE DEF Taken
  <2>1. QED BY <1>2
<1>4. \A i \in D : \A r \in ToSet(prepositions[i].regex) :
        /\ Missing \in Taken(i, r)
        /\ i \in DOMAIN answers /\ r.field \in DOMAIN answers[i].result =>
             {answers[i].result[r.field], String(answers[i].result[r.field].text[r.index + 1])} \subseteq Taken(i, r)
  OBVIOUS
<1> HIDE DEF N, V, Taken
<1>5. ASSUME NEW i \in D
      PROVE  IsList(prepositions[i].regex) /\ (i \in DOMAIN answers => Takes(N, V, prepositions[i].regex, answers[i]))
  <2>1. prepositions[i] \in ToSet(prepositions)
    BY DEF ToSet
  <2>2. QED BY <1>1, <1>4, <2>1 DEF Takes
<1>6. Selects(N, V, prepositions, answers)
  BY <1>5 DEF Selects
<1>7. PICK v : Selecting(v, N, V, prepositions, answers)
  BY <1>6, SqlMapSteps
<1>8. Len(Indices(prepositions)) \in 0 .. Len(Indices(prepositions))
  BY IndicesFacts
<1>9. SqlMap(prepositions, answers) \in Maps(N, V)
  BY <1>7, <1>8 DEF Selecting
<1>10. QED BY <1>3, <1>9

\* The columns of a scene: a list of rows each, and finitely many.
LEMMA ColumnsTyped ==
  ASSUME NEW files, IsList(files), \A f \in ToSet(files) : IsFile(f),
         NEW prepositions, IsList(prepositions), \A q \in ToSet(prepositions) : IsList(q.regex),
         NEW answers, \A i \in DOMAIN answers : IsAnswer(answers[i]),
         NEW columns, columns = AddSql(UseFile(files), SqlMap(prepositions, answers))
  PROVE  IsFiniteSet(DOMAIN columns) /\ \A c \in DOMAIN columns : IsList(columns[c])
<1>1. PICK N1, V1 : UseFile(files) \in Maps(N1, Seq(V1))
  BY UseFileTyped
<1>2. PICK N2, V2 : SqlMap(prepositions, answers) \in Maps(N2, V2) /\ \A v \in V2 : IsValue(v)
  BY SqlMapTyped
<1>3. PICK now : now = UseFile(files)
  OBVIOUS
<1>4. PICK sqlMap : sqlMap = SqlMap(prepositions, answers)
  OBVIOUS
<1> DEFINE Old(c) == IF c \in DOMAIN now THEN now[c] ELSE <<>>
           New(c) == IF c \in DOMAIN sqlMap THEN Rows(sqlMap[c]) ELSE <<>>
<1>5. columns = [c \in DOMAIN now \cup DOMAIN sqlMap |-> Old(c) \o New(c)]
  BY <1>3, <1>4 DEF AddSql
<1>6. IsFiniteSet(DOMAIN columns)
  <2>1. IsFiniteSet(DOMAIN now) /\ IsFiniteSet(DOMAIN sqlMap)
    BY <1>1, <1>2, <1>3, <1>4, MapsMembers
  <2>2. DOMAIN columns = DOMAIN now \cup DOMAIN sqlMap
    BY <1>5
  <2>3. QED BY <2>1, <2>2, FS_Union
<1>7. ASSUME NEW c PROVE \E A : Old(c) \in Seq(A)
  <2>1. c \in DOMAIN now => now[c] \in Seq(V1)
    BY <1>1, <1>3, MapsMembers
  <2>2. \A A : <<>> \in Seq(A)
    OBVIOUS
  <2>3. QED BY <2>1, <2>2
<1>8. ASSUME NEW c PROVE \E A : New(c) \in Seq(A)
  <2>1. c \in DOMAIN sqlMap => IsValue(sqlMap[c])
    BY <1>2, <1>4, MapsMembers
  <2>2. \A x : <<x>> \in Seq({x})
    OBVIOUS
  <2>3. \A A : <<>> \in Seq(A)
    OBVIOUS
  <2>4. \A v : IsValue(v) => \E A : Rows(v) \in Seq(A)
    BY <2>2, <2>3 DEF IsValue, Rows, IsList
  <2>5. QED BY <2>1, <2>3, <2>4
<1> HIDE DEF Old, New
<1>9. ASSUME NEW c \in DOMAIN columns PROVE IsList(columns[c])
  <2>1. PICK A : Old(c) \in Seq(A)
    BY <1>7
  <2>2. PICK B : New(c) \in Seq(B)
    BY <1>8
  <2>3. Old(c) \in Seq(A \cup B) /\ New(c) \in Seq(A \cup B)
    BY <2>1, <2>2
  <2>4. Old(c) \o New(c) \in Seq(A \cup B)
    BY <2>3
  <2>5. columns[c] = Old(c) \o New(c)
    BY <1>5
  <2>6. columns[c] \in Seq(A \cup B)
    BY <2>4, <2>5
  <2>7. \A i \in 1 .. Len(columns[c]) : columns[c][i] \in ToSet(columns[c])
    BY <2>6 DEF ToSet
  <2>8. QED BY <2>6, <2>7 DEF IsList
<1>10. QED BY <1>6, <1>9

-----------------------------------------------------------------------------
(* Texts without references                                                *)

LEMMA FilledPlain ==
  ASSUME NEW text, NEW with, Tokens(text) = <<>>
  PROVE  Filled(text, with) = text
<1> DEFINE Table(t) == t = [s \in SUBSET DOMAIN Tokens(text) |->
                              IF s = {} THEN text ELSE FillToken(t[s \ {Max(s)}], Tokens(text)[Max(s)], with)]
           table == CHOOSE t : Table(t)
<1>1. DOMAIN Tokens(text) = {}
  OBVIOUS
<1>2. Table([s \in {{}} |-> text])
  BY <1>1
<1>3. Table(table)
  <2> HIDE DEF Table
  <2>1. QED BY <1>2, Zenon
<1>4. Filled(text, with) = table[DOMAIN Tokens(text)]
  BY Zenon DEF Filled, FoldLeft, MapThenFoldSet
<1>5. table[{}] = text
  <2> HIDE DEF table
  <2>1. QED BY <1>1, <1>3
<1> HIDE DEF table
<1>6. QED BY <1>1, <1>4, <1>5

LEMMA NamedPlain ==
  ASSUME NEW text, NEW with, Tokens(text) = <<>>
  PROVE  Named(text, with) = text
<1> DEFINE Table(t) == t = [s \in SUBSET DOMAIN Tokens(text) |->
                              IF s = {} THEN text ELSE NameToken(t[s \ {Max(s)}], Tokens(text)[Max(s)], with)]
           table == CHOOSE t : Table(t)
<1>1. DOMAIN Tokens(text) = {}
  OBVIOUS
<1>2. Table([s \in {{}} |-> text])
  BY <1>1
<1>3. Table(table)
  <2> HIDE DEF Table
  <2>1. QED BY <1>2, Zenon
<1>4. Named(text, with) = table[DOMAIN Tokens(text)]
  BY Zenon DEF Named, FoldLeft, MapThenFoldSet
<1>5. table[{}] = text
  <2> HIDE DEF table
  <2>1. QED BY <1>1, <1>3
<1> HIDE DEF table
<1>6. QED BY <1>1, <1>4, <1>5

-----------------------------------------------------------------------------
(* Assertions of every level                                               *)

\* A checked assertion of the list is one that was stated, or one whose references were
\* replaced, which changes what it compares with and nothing else that SupToSub looks at.
Stems(asserts, stated) ==
  /\ asserts \in Seq(ToSet(asserts))
  /\ \A e \in ToSet(asserts) :
       /\ IsAssertion(e)
       /\ e.checked => \E b \in stated : e.var = b.var /\ e.compare = b.compare /\ (Tokens(b.val) = <<>> => e = b)

\* An assertion without references that no other one may be taken for.
IsPlain(a, stated) ==
  /\ a \in stated /\ a.checked /\ Tokens(a.var) = <<>> /\ Tokens(a.val) = <<>>
  /\ \A b \in stated : MayAgree(a, b) => a = b

LEMMA PlainIsAlone ==
  ASSUME NEW stated, NEW a, IsPlain(a, stated), NEW asserts, Stems(asserts, stated),
         NEW e \in ToSet(asserts), e.checked, a.var = e.var, a.val = e.val, a.compare = e.compare
  PROVE  e = a
<1>1. PICK b \in stated : e.var = b.var /\ e.compare = b.compare /\ (Tokens(b.val) = <<>> => e = b)
  BY DEF Stems
<1>2. MayAgree(a, b)
  BY <1>1 DEF MayAgree
<1>3. a = b /\ Tokens(a.val) = <<>>
  BY <1>2 DEF IsPlain
<1>4. QED BY <1>1, <1>3

\* Adding the upper level leaves a plain assertion of either level in the list.
LEMMA AddingKeepsPlain ==
  ASSUME NEW stated, NEW lower, NEW upper, Stems(lower, stated), Stems(upper, stated),
         NEW fields, SameCheck \subseteq fields
  PROVE  /\ Stems(AddMissing(lower, upper, fields), stated)
         /\ \A a : IsPlain(a, stated) /\ (a \in ToSet(lower) \/ a \in ToSet(upper)) =>
              a \in ToSet(AddMissing(lower, upper, fields))
<1> DEFINE S == ToSet(lower) \cup ToSet(upper)
           R == AddMissing(lower, upper, fields)
<1>1. lower \in Seq(S) /\ upper \in Seq(S)
  <2>1. \A A, B, s : s \in Seq(A) => s \in Seq(A \cup B) /\ s \in Seq(B \cup A)
    OBVIOUS
  <2>2. QED BY <2>1 DEF Stems
<1>2. R \in Seq(S) /\ Merged(R, lower, upper, Len(upper), fields)
  <2> HIDE DEF S
  <2>1. QED BY <1>1, AddMissingMerges
<1> HIDE DEF S, R
<1>3. ToSet(R) \subseteq S /\ R \in Seq(ToSet(R))
  BY <1>2 DEF ToSet
<1>4. Stems(R, stated)
  BY <1>3 DEF Stems, S
<1>5. ASSUME NEW a, a \in ToSet(lower) PROVE a \in ToSet(R)
  <2>1. PICK i \in 1 .. Len(lower) : a = lower[i]
    BY <1>1, <1>5 DEF ToSet
  <2>2. R[i] = a /\ i \in DOMAIN R
    BY <1>1, <1>2, <2>1 DEF Merged
  <2>3. QED BY <2>2 DEF ToSet
<1>6. ASSUME NEW a, IsPlain(a, stated), a \in ToSet(upper) PROVE a \in ToSet(R)
  <2>1. PICK j \in 1 .. Len(upper) : a = upper[j]
    BY <1>1, <1>6 DEF ToSet
  <2>2. PICK i \in 1 .. Len(R) : R[i].checked /\ Agree(upper[j], R[i], fields)
    BY <1>2, <1>6, <2>1 DEF Merged, IsPlain
  <2>3. R[i] \in ToSet(R)
    BY <1>2 DEF ToSet
  <2>4. a.var = R[i].var /\ a.val = R[i].val /\ a.compare = R[i].compare
    BY <2>1, <2>2 DEF Agree, SameCheck
  <2>5. R[i] = a
    BY <1>4, <1>6, <2>2, <2>3, <2>4, PlainIsAlone
  <2>6. QED BY <2>3, <2>5
<1>7. QED BY <1>4, <1>5, <1>6 DEF R

\* Replacing references leaves it, too.
LEMMA ReplacingKeepsPlain ==
  ASSUME NEW stated, NEW g, Stems(g.assert, stated)
  PROVE  /\ Stems(InitReplace(g).assert, stated)
         /\ \A a : IsPlain(a, stated) /\ a \in ToSet(g.assert) => a \in ToSet(InitReplace(g).assert)
<1> DEFINE with == Values(g)
           Check(e) == IF e.checked THEN [e EXCEPT !.val = Filled(@, with)] ELSE e
           l == g.assert
           m == [i \in DOMAIN l |-> Check(l[i])]
<1>1. InitReplace(g).assert = m
  BY DEF InitReplace, Each
<1> HIDE DEF with
<1>2. l \in Seq(ToSet(l)) /\ \A i \in DOMAIN l : l[i] \in ToSet(l)
  BY DEF Stems, ToSet
<1>3. ASSUME NEW e \in ToSet(l), Tokens(e.val) = <<>> PROVE Check(e) = e
  <2>1. Filled(e.val, with) = e.val
    BY <1>3, FilledPlain
  <2>2. IsStruct(e, {"checked", "target", "compare", "var", "val"})
    BY DEF Stems, IsAssertion
  <2>3. QED BY <2>1, <2>2 DEF IsStruct
<1>4. ASSUME NEW e \in ToSet(l)
      PROVE  /\ IsAssertion(Check(e)) /\ Check(e).checked = e.checked
             /\ Check(e).var = e.var /\ Check(e).compare = e.compare
  <2>1. IsAssertion(e)
    BY DEF Stems
  <2>2. QED BY <2>1 DEF IsAssertion, IsStruct
<1>5. \A e \in ToSet(m) : \E d \in ToSet(l) : e = Check(d)
  BY <1>2 DEF ToSet
<1>6. m \in Seq(ToSet(m))
  <2>1. DOMAIN m = 1 .. Len(l) /\ Len(l) \in Nat
    BY <1>2
  <2>2. \A i \in 1 .. Len(l) : m[i] \in ToSet(m)
    BY <2>1 DEF ToSet
  <2> HIDE DEF m
  <2>3. m = [i \in 1 .. Len(l) |-> m[i]]
    BY <2>1 DEF m
  <2>4. QED BY <2>1, <2>2, <2>3
<1>7. Stems(m, stated)
  <2> SUFFICES ASSUME NEW e \in ToSet(m)
               PROVE  /\ IsAssertion(e)
                      /\ e.checked => \E b \in stated : e.var = b.var /\ e.compare = b.compare /\ (Tokens(b.val) = <<>> => e = b)
    BY <1>6 DEF Stems
  <2>1. PICK d \in ToSet(l) : e = Check(d)
    BY <1>5
  <2>2. IsAssertion(e) /\ e.checked = d.checked /\ e.var = d.var /\ e.compare = d.compare
    BY <1>4, <2>1
  <2> HIDE DEF Check
  <2>3. ASSUME e.checked PROVE \E b \in stated : e.var = b.var /\ e.compare = b.compare /\ (Tokens(b.val) = <<>> => e = b)
    <3>1. PICK b \in stated : d.var = b.var /\ d.compare = b.compare /\ (Tokens(b.val) = <<>> => d = b)
      BY <2>2, <2>3 DEF Stems
    <3>2. Tokens(b.val) = <<>> => e = b
      BY <1>3, <2>1, <3>1
    <3>3. QED BY <2>2, <3>1, <3>2
  <2>4. QED BY <2>2, <2>3
<1>8. ASSUME NEW a, IsPlain(a, stated), a \in ToSet(l) PROVE a \in ToSet(m)
  <2>1. PICK i \in DOMAIN l : l[i] = a
    BY <1>8 DEF ToSet
  <2>2. Check(a) = a
    BY <1>3, <1>8 DEF IsPlain
  <2> HIDE DEF Check
  <2>3. m[i] = a /\ i \in DOMAIN m
    BY <2>1, <2>2
  <2>4. QED BY <2>3 DEF ToSet
<1> HIDE DEF m, Check
<1>9. QED BY <1>1, <1>7, <1>8

-----------------------------------------------------------------------------
(* Workers                                                                 *)

Services == {r.service : r \in {q \in ToSet(plan.requests) : q.kind = "dubbo"}}
Waiting  == {"idle", "append"}
Holding  == {"replace", "sent", "init", "store", "invoke"}

\* Where the workers and the nodes are: a node runs in the round its worker is in.
WorkersInv ==
  /\ plan \in Plans
  /\ pc \in {"setup", "run"}
  /\ started \in 0 .. plan.executions
  /\ at \in [Workers -> Waiting \cup {"round"}]
  /\ round \in [Workers -> 0 .. Len(plan.requests)]
  /\ node \in [Nodes -> {"off", "prepare", "done"} \cup Holding]
  /\ DOMAIN kv = Workers /\ DOMAIN copy = Workers /\ DOMAIN prepared = Nodes
  /\ \A w \in Workers :
       /\ round[w] = 0 <=> at[w] \in Waiting
       /\ kv[w] # <<>> => at[w] = "append"
       /\ copy[w] # <<FALSE>> => kv[w] # <<>>
  /\ \A g \in Nodes :
       /\ node[g] # "off" <=> plan.round[g[2]] = round[g[1]]
       /\ prepared[g] # <<>> <=> node[g] \in Holding
  /\ DOMAIN made = Services
  /\ references \subseteq DOMAIN made
  /\ crashed \in BOOLEAN

\* A plan has requests, as many as a number says, and each one is in a round.
LEMMA PlanFacts ==
  ASSUME NEW p \in Plans
  PROVE  /\ Len(p.requests) \in Nat /\ Len(p.requests) >= 1
         /\ DOMAIN p.requests = 1 .. Len(p.requests)
         /\ \A n \in DOMAIN p.requests : p.round[n] \in 1 .. Len(p.requests)
         /\ p.executions \in Nat
<1>1. p.requests \in Seq(ToSet(p.requests)) /\ p.requests # <<>> /\ p.executions \in Nat
      /\ p.round \in [DOMAIN p.requests -> 1 .. Len(p.requests)]
  BY VariablesAssumption DEF IsPlan, IsList
<1>2. QED BY <1>1

\* The request of a node is one of the plan's.
LEMMA CurrentIsThere ==
  ASSUME NEW g \in Nodes
  PROVE  Current(g) \in ToSet(plan.requests)
BY DEF Nodes, Current, ToSet

\* What an action of a node changes: itself, and when it is done the variables.
LEMMA NodeMoves ==
  ASSUME WorkersInv, NEW g \in Nodes, DisposeNode(g)
  PROVE  /\ UNCHANGED <<tables, drawing, at, round>> /\ crashed' \in BOOLEAN
         /\ node[g] \in {"prepare"} \cup Holding
         /\ \/ UNCHANGED <<node, prepared, vars, result>>
            \/ \E to \in Holding \cup {"done"} :
                 /\ node' = [node EXCEPT ![g] = to]
                 /\ DOMAIN prepared' = Nodes /\ \A h \in Nodes \ {g} : prepared'[h] = prepared[h]
                 /\ prepared'[g] # <<>> <=> to \in Holding
                 /\ \/ to # "done" /\ UNCHANGED <<vars, result>>
                    \/ to = "done" /\ \E after, r : /\ vars' = [vars EXCEPT ![g[1]] = after]
                                                    /\ result' = [result EXCEPT ![g] = r]
<1> DEFINE Moved(to) ==
             /\ node' = [node EXCEPT ![g] = to]
             /\ DOMAIN prepared' = Nodes /\ \A h \in Nodes \ {g} : prepared'[h] = prepared[h]
             /\ prepared'[g] # <<>> <=> to \in Holding
             /\ \/ to # "done" /\ UNCHANGED <<vars, result>>
                \/ to = "done" /\ \E after, r : /\ vars' = [vars EXCEPT ![g[1]] = after]
                                                /\ result' = [result EXCEPT ![g] = r]
           Goal ==
             /\ UNCHANGED <<tables, drawing, at, round>> /\ crashed' \in BOOLEAN
             /\ node[g] \in {"prepare"} \cup Holding
             /\ UNCHANGED <<node, prepared, vars, result>> \/ \E to \in Holding \cup {"done"} : Moved(to)
<1>a. DOMAIN prepared = Nodes /\ crashed \in BOOLEAN
  BY DEF WorkersInv
<1>b. prepared[g] # <<>> <=> node[g] \in Holding
  BY DEF WorkersInv
<1>c. ASSUME NEW dies \in BOOLEAN, NEW after, NEW r, Report(g, dies, after, r), node[g] \in {"prepare"} \cup Holding
      PROVE  Goal
  <2>1. UNCHANGED <<tables, drawing, at, round>> /\ crashed' \in BOOLEAN
    BY <1>c DEF Report
  <2>2. CASE dies
    BY <1>c, <2>1, <2>2 DEF Report
  <2>3. CASE ~dies
    <3>1. /\ node' = [node EXCEPT ![g] = "done"] /\ prepared' = [prepared EXCEPT ![g] = <<>>]
          /\ vars' = [vars EXCEPT ![g[1]] = after] /\ result' = [result EXCEPT ![g] = r]
      BY <1>c, <2>3 DEF Report
    <3>2. Moved("done")
      BY <1>a, <3>1 DEF Holding
    <3> HIDE DEF Moved
    <3>3. QED BY <1>c, <2>1, <3>2
  <2>4. QED BY <2>2, <2>3
<1>d. ASSUME NEW to \in {"init", "store", "invoke"}, Move(g, to), node[g] \in {"prepare", "init", "store"},
             (prepared' = prepared /\ node[g] # "prepare") \/ \E x : prepared' = [prepared EXCEPT ![g] = <<x>>]
      PROVE  Goal
  <2>1. /\ UNCHANGED <<tables, drawing, at, round, vars, result>> /\ crashed' \in BOOLEAN
        /\ node' = [node EXCEPT ![g] = to]
    BY <1>a, <1>d DEF Move
  <2>2. prepared'[g] # <<>> /\ DOMAIN prepared' = Nodes /\ \A h \in Nodes \ {g} : prepared'[h] = prepared[h]
    BY <1>a, <1>b, <1>d DEF Holding
  <2>3. Moved(to)
    BY <1>d, <2>1, <2>2 DEF Holding
  <2> HIDE DEF Moved
  <2>4. QED BY <1>d, <2>1, <2>3 DEF Holding
<1>1. ASSUME Begin(g) PROVE Goal
  <2>1. /\ UNCHANGED <<tables, drawing, at, round, vars, result, crashed>> /\ node[g] = "prepare"
        /\ node' = [node EXCEPT ![g] = "replace"] /\ prepared' = [prepared EXCEPT ![g] = <<vars[g[1]]>>]
    BY <1>1 DEF Begin, Is
  <2>2. Moved("replace")
    BY <1>a, <2>1 DEF Holding
  <2> HIDE DEF Moved
  <2>3. QED BY <1>a, <2>1, <2>2 DEF Holding
<1>2. ASSUME Prepare(g) PROVE Goal
  <2>1. UNCHANGED <<tables, drawing, at, round, vars, result>> /\ crashed' \in BOOLEAN /\ node[g] = "replace"
    BY <1>2 DEF Prepare, Is
  <2>2. UNCHANGED <<node, prepared>> \/ \E real, view : /\ node' = [node EXCEPT ![g] = "sent"]
                                                          /\ prepared' = [prepared EXCEPT ![g] = <<real, view>>]
    BY <1>2, Zenon DEF Prepare
  <2>3. UNCHANGED <<node, prepared>> \/ Moved("sent")
    BY <1>a, <2>1, <2>2 DEF Holding
  <2> HIDE DEF Moved
  <2>4. QED BY <2>1, <2>3 DEF Holding
<1>3. ASSUME Respond(g) PROVE Goal
  <2>1. PICK resp \in Responses :
          LET r   == prepared[g][1]
              now == vars[g[1]]
              o   == Outcome(r, resp)
          IN Report(g, WithdrawFails(r.regex, now, resp), Withdraw(r.regex, now, resp),
                    Reported(g, o.succeed, o.errorType, Recorded(plan.debug, o.succeed), r.assert, resp))
    BY <1>3, Zenon DEF Respond
  <2>2. WithdrawFails(prepared[g][1].regex, vars[g[1]], resp) \in BOOLEAN
    BY DEF WithdrawFails
  <2>3. node[g] = "sent"
    BY <1>3 DEF Respond, Is
  <2> HIDE DEF Goal
  <2>4. QED BY <1>c, <2>1, <2>2, <2>3 DEF Holding
<1>4. ASSUME QuerySql(g) PROVE Goal
  <2>1. PICK answer \in SqlAnswers(Current(g)) :
          LET succeed == SqlSucceeds(Current(g), answer)
          IN Report(g, SqlFails(Current(g), answer), RegexSql(Current(g).regex, vars[g[1]], answer),
                    Reported(g, succeed, "unset", SqlRecorded(plan.debug, succeed), Current(g).assert, answer))
    BY <1>4, Zenon DEF QuerySql
  <2>2. SqlFails(Current(g), answer) \in BOOLEAN
    BY DEF SqlFails
  <2>3. node[g] = "prepare"
    BY <1>4 DEF QuerySql, Is
  <2> HIDE DEF Goal
  <2>4. QED BY <1>c, <2>1, <2>2, <2>3
<1>5. ASSUME LookUp(g) PROVE Goal
  <2>1. node[g] = "prepare" /\ prepared' = [prepared EXCEPT ![g] = <<Current(g).service \in references>>]
        /\ \E to \in {"init", "invoke"} : Move(g, to)
    BY <1>5, Zenon DEF LookUp, Is
  <2> HIDE DEF Goal
  <2>2. QED BY <1>d, <2>1
<1>6. ASSUME InitFails(g) PROVE Goal
  <2>1. node[g] = "init" /\ prepared' = prepared /\ Move(g, "invoke")
    BY <1>6 DEF InitFails, Is
  <2> HIDE DEF Goal
  <2>2. QED BY <1>d, <2>1
<1>7. ASSUME InitDubbo(g) PROVE Goal
  <2>1. node[g] = "init" /\ prepared' = [prepared EXCEPT ![g] = <<TRUE>>] /\ \E to \in {"store", "invoke"} : Move(g, to)
    BY <1>7, Zenon DEF InitDubbo, Is
  <2> HIDE DEF Goal
  <2>2. QED BY <1>d, <2>1
<1>8. ASSUME StoreReference(g) PROVE Goal
  <2>1. node[g] = "store" /\ prepared' = prepared /\ Move(g, "invoke")
    BY <1>8 DEF StoreReference, Is
  <2> HIDE DEF Goal
  <2>2. QED BY <1>d, <2>1
<1>9. ASSUME Invoke(g) PROVE Goal
  <2>1. PICK answer \in (IF prepared[g][1] THEN DubboAnswers ELSE Unreached) :
          LET status == Status(prepared[g][1], answer)
              rules  == Current(g).regex
          IN Report(g, ExtractFails(rules, vars[g[1]], answer), DubboExtract(rules, vars[g[1]], answer),
                    Reported(g, FALSE, "unset", DubboRecorded(plan.debug, status), ParamInit(Current(g).param), answer))
    BY <1>9, Zenon DEF Invoke
  <2>2. ExtractFails(Current(g).regex, vars[g[1]], answer) \in BOOLEAN
    BY DEF ExtractFails
  <2>3. node[g] = "invoke"
    BY <1>9 DEF Invoke, Is
  <2> HIDE DEF Goal
  <2>4. QED BY <1>c, <2>1, <2>2, <2>3 DEF Holding
<1>10. Goal
  BY <1>1, <1>2, <1>3, <1>4, <1>5, <1>6, <1>7, <1>8, <1>9 DEF DisposeNode
<1>11. QED BY <1>10

\* A worker that loads, or has awaited its round, has no node that runs.
LEMMA NodesRest ==
  ASSUME WorkersInv, NEW w \in Workers, at[w] = "append" \/ Unfinished(w) = {}, NEW n \in DOMAIN plan.requests
  PROVE  node[<<w, n>>] \in {"off", "done"} /\ prepared[<<w, n>>] = <<>>
<1>1. <<w, n>> \in Nodes /\ plan.round[n] \in 1 .. Len(plan.requests) /\ Len(plan.requests) \in Nat
  BY PlanFacts DEF Nodes, WorkersInv
<1>2. /\ node[<<w, n>>] # "off" <=> plan.round[n] = round[w]
      /\ prepared[<<w, n>>] # <<>> <=> node[<<w, n>>] \in Holding
  BY <1>1 DEF WorkersInv
<1>3. node[<<w, n>>] \in {"off", "done"}
  <2>1. CASE at[w] = "append"
    <3>1. round[w] = 0
      BY <2>1 DEF WorkersInv, Waiting
    <3>2. QED BY <1>1, <1>2, <3>1
  <2>2. CASE Unfinished(w) = {}
    BY <1>2, <2>2 DEF Unfinished
  <2>3. QED BY <2>1, <2>2
<1>4. QED BY <1>2, <1>3 DEF Holding

\* The nodes of a round are started, those of other workers left.
LEMMA StartKeeps ==
  ASSUME WorkersInv, NEW w \in Workers, NEW k \in 0 .. Len(plan.requests), StartRound(w, k),
         at[w] = "append" \/ Unfinished(w) = {}, UNCHANGED <<plan, prepared>>
  PROVE  /\ round' \in [Workers -> 0 .. Len(plan.requests)] /\ round'[w] = k
         /\ \A v \in Workers \ {w} : round'[v] = round[v]
         /\ node' \in [Nodes -> {"off", "prepare", "done"} \cup Holding]
         /\ \A g \in Nodes :
              /\ node'[g] # "off" <=> plan.round[g[2]] = round'[g[1]]
              /\ prepared'[g] # <<>> <=> node'[g] \in Holding
              /\ g[1] = w => node'[g] \in {"off", "prepare"} /\ node[g] \in {"off", "done"}
              /\ g[1] # w => node'[g] = node[g]
<1>1. /\ round' = [round EXCEPT ![w] = k]
      /\ node' = [g \in Nodes |-> IF g[1] # w THEN node[g] ELSE IF plan.round[g[2]] = k THEN "prepare" ELSE "off"]
  BY DEF StartRound
<1>2. round \in [Workers -> 0 .. Len(plan.requests)] /\ node \in [Nodes -> {"off", "prepare", "done"} \cup Holding]
  BY DEF WorkersInv
<1>3. round' \in [Workers -> 0 .. Len(plan.requests)] /\ round'[w] = k /\ \A v \in Workers \ {w} : round'[v] = round[v]
  BY <1>1, <1>2
<1>4. ASSUME NEW g \in Nodes
      PROVE  /\ node'[g] \in {"off", "prepare", "done"} \cup Holding
             /\ node'[g] # "off" <=> plan.round[g[2]] = round'[g[1]]
             /\ prepared'[g] # <<>> <=> node'[g] \in Holding
             /\ g[1] = w => node'[g] \in {"off", "prepare"} /\ node[g] \in {"off", "done"}
             /\ g[1] # w => node'[g] = node[g]
  <2>0. g[1] \in Workers /\ g[2] \in DOMAIN plan.requests /\ g = <<g[1], g[2]>>
    BY DEF Nodes
  <2>1. CASE g[1] = w
    <3>1. prepared[g] = <<>> /\ node[g] \in {"off", "done"}
      BY <2>0, <2>1, NodesRest
    <3>2. node'[g] = IF plan.round[g[2]] = k THEN "prepare" ELSE "off"
      BY <1>1, <2>1
    <3>3. QED BY <1>3, <2>1, <3>1, <3>2 DEF Holding
  <2>2. CASE g[1] # w
    <3>1. node'[g] = node[g] /\ round'[g[1]] = round[g[1]]
      BY <1>1, <1>3, <2>0, <2>2
    <3>2. QED BY <1>2, <2>2, <3>1 DEF WorkersInv
  <2>3. QED BY <2>1, <2>2
<1>5. QED BY <1>1, <1>3, <1>4

\* The round a worker goes to, and how many there are at most.
LEMMA RoundGoesOn ==
  ASSUME WorkersInv, NEW w \in Workers, NextRound(w)
  PROVE  /\ at[w] = "round" /\ Unfinished(w) = {} /\ UNCHANGED <<tables, drawing, sharing, vars, prepared, crashed>>
         /\ result' = [g \in Nodes |-> IF g[1] = w THEN NoResult ELSE result[g]]
         /\ \E k \in 0 .. Len(plan.requests) :
              /\ StartRound(w, k) /\ k # 1
              /\ at' = [at EXCEPT ![w] = IF k = 0 THEN "idle" ELSE "round"]
<1>1. /\ at[w] = "round" /\ Unfinished(w) = {} /\ UNCHANGED <<tables, drawing, sharing, vars, prepared, crashed>>
      /\ result' = [g \in Nodes |-> IF g[1] = w THEN NoResult ELSE result[g]]
  BY DEF NextRound
<1>2. Len(plan.requests) \in Nat /\ round[w] \in 1 .. Len(plan.requests) /\ at \in [Workers -> Waiting \cup {"round"}]
  <2>1. Len(plan.requests) \in Nat /\ round[w] \in 0 .. Len(plan.requests) /\ round[w] # 0
    BY <1>1, PlanFacts DEF WorkersInv, Waiting
  <2>2. QED BY <2>1 DEF WorkersInv
<1>3. CASE \E n \in DOMAIN plan.requests : plan.round[n] > round[w]
  <2>1. PICK n \in DOMAIN plan.requests : plan.round[n] > round[w]
    BY <1>3
  <2>2. plan.round[n] \in 1 .. Len(plan.requests)
    BY PlanFacts DEF WorkersInv
  <2>3. round[w] + 1 \in 0 .. Len(plan.requests) /\ round[w] + 1 # 1 /\ round[w] + 1 # 0
    BY <1>2, <2>1, <2>2
  <2>4. StartRound(w, round[w] + 1) /\ at' = at
    BY <1>3 DEF NextRound
  <2>5. at' = [at EXCEPT ![w] = "round"]
    BY <1>1, <1>2, <2>4
  <2>6. QED BY <1>1, <2>3, <2>4, <2>5
<1>4. CASE ~\E n \in DOMAIN plan.requests : plan.round[n] > round[w]
  <2>1. StartRound(w, 0) /\ at' = [at EXCEPT ![w] = "idle"]
    BY <1>4 DEF NextRound
  <2>2. \E k \in 0 .. Len(plan.requests) :
          StartRound(w, k) /\ k # 1 /\ at' = [at EXCEPT ![w] = IF k = 0 THEN "idle" ELSE "round"]
    <3>1. PICK k \in 0 .. Len(plan.requests) : k = 0
      BY <1>2
    <3>2. StartRound(w, k) /\ k # 1 /\ at' = [at EXCEPT ![w] = IF k = 0 THEN "idle" ELSE "round"]
      BY <2>1, <3>1
    <3>3. QED BY <3>2
  <2>3. QED BY <1>1, <2>2
<1>5. QED BY <1>3, <1>4

LEMMA WorkersStep == WorkersInv /\ [Next]_everything => WorkersInv'
<1> SUFFICES ASSUME WorkersInv, [Next]_everything PROVE WorkersInv'
  OBVIOUS
<1>1. CASE Setup
  <2>1. crashed' \in BOOLEAN
    BY <1>1 DEF Setup
  <2>2. pc' = "run" /\ UNCHANGED <<plan, started, at, round, node, kv, copy, prepared, references, made>>
    BY <1>1 DEF Setup, sharing, running
  <2>3. QED BY <2>1, <2>2 DEF WorkersInv, Services, Nodes
<1>2. ASSUME NEW w \in Workers, Draw(w) PROVE WorkersInv'
  <2>1. started' \in 0 .. plan.executions
    BY <1>2, PlanFacts DEF WorkersInv, Draw
  <2>2. at[w] = "idle" /\ at' = [at EXCEPT ![w] = "append"] /\ DOMAIN kv' = DOMAIN kv
        /\ \A v \in Workers \ {w} : kv'[v] = kv[v]
    BY <1>2 DEF WorkersInv, Draw
  <2>3. UNCHANGED <<plan, pc, references, made, copy, round, node, prepared, crashed>>
    BY <1>2 DEF Draw, tables, sharing, running
  <2>4. QED BY <2>1, <2>2, <2>3 DEF WorkersInv, Services, Nodes, Waiting
<1>3. ASSUME NEW w \in Workers, ReadList(w) PROVE WorkersInv'
  BY <1>3 DEF ReadList, WorkersInv, Services, Nodes, tables, sharing, running
<1>4. ASSUME NEW w \in Workers, WriteList(w) PROVE WorkersInv'
  BY <1>4 DEF WriteList, WorkersInv, Services, Nodes, tables, sharing, running
<1>5. ASSUME NEW w \in Workers, Load(w) PROVE WorkersInv'
  <2>1. 1 \in 0 .. Len(plan.requests)
    BY PlanFacts DEF WorkersInv
  <2>2. /\ at[w] = "append" /\ kv[w] = <<>> /\ StartRound(w, 1)
        /\ at' = [at EXCEPT ![w] = "round"]
        /\ UNCHANGED <<plan, pc, started, kv, copy, prepared, references, made, crashed>>
    BY <1>5 DEF Load, tables, drawing, sharing
  <2>a. /\ round' \in [Workers -> 0 .. Len(plan.requests)] /\ round'[w] = 1
        /\ \A v \in Workers \ {w} : round'[v] = round[v]
        /\ node' \in [Nodes -> {"off", "prepare", "done"} \cup Holding]
        /\ \A g \in Nodes : /\ node'[g] # "off" <=> plan.round[g[2]] = round'[g[1]]
                            /\ prepared'[g] # <<>> <=> node'[g] \in Holding
    BY <2>1, <2>2, StartKeeps
  <2>b. \A v \in Workers \ {w} : at'[v] = at[v]
    BY <2>1, <2>2 DEF WorkersInv
  <2>c. at'[w] \notin Waiting <=> round'[w] # 0
    BY <2>1, <2>2, <2>a DEF WorkersInv, Waiting
  <2>d. Nodes' = Nodes /\ Services' = Services
    BY <2>2 DEF Nodes, Services
  <2>3. \A v \in Workers :
          /\ round'[v] = 0 <=> at'[v] \in Waiting
          /\ kv'[v] # <<>> => at'[v] = "append"
          /\ copy'[v] # <<FALSE>> => kv'[v] # <<>>
    BY <2>1, <2>2, <2>a, <2>b, <2>c DEF WorkersInv, Waiting
  <2>4. at' \in [Workers -> Waiting \cup {"round"}]
    BY <2>2 DEF WorkersInv
  <2>5. QED BY <2>2, <2>3, <2>4, <2>a, <2>d DEF WorkersInv
<1>6. ASSUME NEW w \in Workers, NextRound(w) PROVE WorkersInv'
  <2>1. PICK k \in 0 .. Len(plan.requests) :
          /\ StartRound(w, k)
          /\ at' = [at EXCEPT ![w] = IF k = 0 THEN "idle" ELSE "round"]
    BY <1>6, RoundGoesOn
  <2>2. /\ at[w] = "round" /\ Unfinished(w) = {}
        /\ UNCHANGED <<plan, pc, started, kv, copy, prepared, references, made, crashed>>
    BY <1>6, RoundGoesOn DEF tables, drawing, sharing
  <2>a. /\ round' \in [Workers -> 0 .. Len(plan.requests)] /\ round'[w] = k
        /\ \A v \in Workers \ {w} : round'[v] = round[v]
        /\ node' \in [Nodes -> {"off", "prepare", "done"} \cup Holding]
        /\ \A g \in Nodes : /\ node'[g] # "off" <=> plan.round[g[2]] = round'[g[1]]
                            /\ prepared'[g] # <<>> <=> node'[g] \in Holding
    BY <2>1, <2>2, StartKeeps
  <2>b. \A v \in Workers \ {w} : at'[v] = at[v]
    BY <2>1, <2>2 DEF WorkersInv
  <2>c. at'[w] \notin Waiting <=> round'[w] # 0
    BY <2>1, <2>2, <2>a DEF WorkersInv, Waiting
  <2>d. Nodes' = Nodes /\ Services' = Services
    BY <2>2 DEF Nodes, Services
  <2>3. \A v \in Workers :
          /\ round'[v] = 0 <=> at'[v] \in Waiting
          /\ kv'[v] # <<>> => at'[v] = "append"
          /\ copy'[v] # <<FALSE>> => kv'[v] # <<>>
    BY <2>1, <2>2, <2>a, <2>b, <2>c DEF WorkersInv, Waiting
  <2>4. at' \in [Workers -> Waiting \cup {"round"}]
    BY <2>1 DEF WorkersInv, Waiting
  <2>5. QED BY <2>2, <2>3, <2>4, <2>a, <2>d DEF WorkersInv
<1>7. ASSUME NEW g \in Nodes, DisposeNode(g) PROVE WorkersInv'
  <2>1. UNCHANGED <<plan, pc, started, kv, copy, at, round>> /\ crashed' \in BOOLEAN /\ node[g] \in {"prepare"} \cup Holding
    BY <1>7, NodeMoves DEF tables, drawing
  <2>2. DOMAIN made' = DOMAIN made /\ references' \subseteq DOMAIN made
    <3>1. CASE StoreReference(g)
      <4>1. Current(g).service \in DOMAIN made
        BY <3>1, CurrentIsThere DEF StoreReference, Is, WorkersInv, Services
      <4>2. QED BY <3>1, <4>1 DEF StoreReference, WorkersInv
    <3>2. CASE InitDubbo(g)
      BY <3>2 DEF InitDubbo, WorkersInv
    <3>3. CASE ~StoreReference(g) /\ ~InitDubbo(g)
      <4>1. Respond(g) \/ QuerySql(g) \/ Invoke(g) => \E dies, after, r : Report(g, dies, after, r)
        BY Zenon DEF Respond, QuerySql, Invoke
      <4>2. UNCHANGED <<made, references>>
        BY <1>7, <3>3, <4>1 DEF DisposeNode, Begin, Prepare, LookUp, InitFails, Report, sharing
      <4>3. QED BY <4>2 DEF WorkersInv
    <3>4. QED BY <3>1, <3>2, <3>3
  <2>3. \/ UNCHANGED <<node, prepared>>
        \/ \E to \in Holding \cup {"done"} :
             /\ node' = [node EXCEPT ![g] = to]
             /\ DOMAIN prepared' = Nodes /\ \A h \in Nodes \ {g} : prepared'[h] = prepared[h]
             /\ prepared'[g] # <<>> <=> to \in Holding
    BY <1>7, NodeMoves
  <2>4. node' \in [Nodes -> {"off", "prepare", "done"} \cup Holding] /\ DOMAIN prepared' = Nodes
    BY <2>3 DEF WorkersInv
  <2>5. \A h \in Nodes :
          /\ node'[h] # "off" <=> plan.round[h[2]] = round[h[1]]
          /\ prepared'[h] # <<>> <=> node'[h] \in Holding
    BY <2>1, <2>3 DEF WorkersInv, Holding
  <2>6. Nodes' = Nodes /\ Services' = Services
    BY <2>1 DEF Nodes, Services
  <2>7. QED BY <2>1, <2>2, <2>4, <2>5, <2>6 DEF WorkersInv
<1>8. CASE UNCHANGED everything
  BY <1>8 DEF WorkersInv, Services, Nodes, everything, tables, drawing, sharing, running
<1>9. QED
  BY <1>1, <1>2, <1>3, <1>4, <1>5, <1>6, <1>7, <1>8 DEF Next, DisposeScene

-----------------------------------------------------------------------------
(* Dubbo references                                                        *)

Storing(s) == {g \in Nodes : node[g] = "store" /\ Current(g).kind = "dubbo" /\ Current(g).service = s}

\* No round asks a service more than m times.
AtMost(s, m) == \A k \in 1 .. Len(plan.requests) : Cardinality(Asking(s, k)) <= m

\* As long as nobody stored a reference to a service, those made are held by the
\* nodes about to store them; after that none is made.
SharedInv ==
  /\ made = [s \in DOMAIN made |-> made[s]]
  /\ \A s \in DOMAIN made :
       /\ \A m \in Nat : AtMost(s, m) => made[s] <= Cardinality(Workers) * m
       /\ s \notin references => made[s] = Cardinality(Storing(s))

\* Nodes of the rounds the workers are in, m of each: a node is known by its worker
\* and its place among those of the round that ask the service.
LEMMA AskersBounded ==
  ASSUME WorkersInv, NEW s, NEW m \in Nat, AtMost(s, m),
         NEW T \in SUBSET Nodes, \A g \in T : g[2] \in Asking(s, round[g[1]])
  PROVE  Cardinality(T) <= Cardinality(Workers) * m
<1> DEFINE rounds == 1 .. Len(plan.requests)
           ask == [k \in rounds |-> Asking(s, k)]
           nth == [k \in rounds |-> CHOOSE f \in Bijection(1 .. Cardinality(ask[k]), ask[k]) : TRUE]
<1>1. Len(plan.requests) \in Nat /\ DOMAIN plan.requests = rounds
  BY PlanFacts DEF WorkersInv
<1>2. ASSUME NEW k \in rounds
      PROVE  /\ Cardinality(ask[k]) \in Nat /\ Cardinality(ask[k]) <= m
             /\ nth[k] \in Bijection(1 .. Cardinality(ask[k]), ask[k])
  <2>1. ask[k] \subseteq rounds /\ ask[k] = Asking(s, k)
    BY <1>1 DEF Asking
  <2>2. IsFiniteSet(ask[k])
    <3>1. IsFiniteSet(rounds)
      BY <1>1, FS_Interval
    <3>2. QED BY <2>1, <3>1, FS_Subset
  <2>3. Cardinality(ask[k]) \in Nat /\ ExistsBijection(1 .. Cardinality(ask[k]), ask[k])
    BY <2>2, FS_CardinalityType
  <2>4. nth[k] = CHOOSE f \in Bijection(1 .. Cardinality(ask[k]), ask[k]) : TRUE
    OBVIOUS
  <2>5. Bijection(1 .. Cardinality(ask[k]), ask[k]) # {}
    BY <2>3 DEF ExistsBijection
  <2> HIDE DEF nth
  <2>6. nth[k] \in Bijection(1 .. Cardinality(ask[k]), ask[k])
    BY <2>4, <2>5
  <2>7. QED BY <2>1, <2>3, <2>6 DEF AtMost
<1> HIDE DEF nth
<1>3. ASSUME NEW g \in T
      PROVE  g[1] \in Workers /\ round[g[1]] \in rounds /\ \E i \in 1 .. m : nth[round[g[1]]][i] = g[2]
  <2>1. g[1] \in Workers /\ g[2] \in DOMAIN plan.requests
    BY DEF Nodes
  <2>2. plan.round[g[2]] = round[g[1]] /\ plan.round[g[2]] \in rounds
    BY <2>1, PlanFacts DEF Asking, WorkersInv
  <2>3. PICK k \in rounds : k = round[g[1]]
    BY <2>2
  <2>4. g[2] \in ask[k]
    BY <2>3
  <2>5. PICK i \in 1 .. Cardinality(ask[k]) : nth[k][i] = g[2]
    <3>1. nth[k] \in Surjection(1 .. Cardinality(ask[k]), ask[k])
      BY <1>2 DEF Bijection
    <3>2. QED BY <2>4, <3>1 DEF Surjection
  <2>6. i \in 1 .. m
    <3>1. \A c \in Nat : c <= m => \A j \in 1 .. c : j \in 1 .. m
      OBVIOUS
    <3>2. QED BY <1>2, <3>1
  <2>7. QED BY <2>1, <2>2, <2>3, <2>5, <2>6
<1> DEFINE place == [g \in T |-> <<g[1], CHOOSE i \in 1 .. m : nth[round[g[1]]][i] = g[2]>>]
<1>4. \A g \in T : place[g] \in Workers \X (1 .. m) /\ place[g][1] = g[1] /\ nth[round[g[1]]][place[g][2]] = g[2]
  BY <1>3
<1>5. DOMAIN place = T
  OBVIOUS
<1> HIDE DEF place
<1>6. \A g, h \in T : place[g] = place[h] => g = h
  <2> SUFFICES ASSUME NEW g \in T, NEW h \in T, place[g] = place[h] PROVE g = h
    OBVIOUS
  <2>1. g[1] = h[1] /\ g[2] = h[2]
    BY <1>4
  <2>2. QED BY <2>1 DEF Nodes
<1>7. place \in Injection(T, Workers \X (1 .. m))
  <2>1. place = [g \in T |-> place[g]]
    BY DEF place
  <2>2. place \in [T -> Workers \X (1 .. m)]
    BY <1>4, <2>1
  <2>3. QED BY <1>5, <1>6, <2>2 DEF Injection, IsInjective
<1>8. IsFiniteSet(1 .. m) /\ Cardinality(1 .. m) = m
  <2>1. IsFiniteSet(1 .. m) /\ Cardinality(1 .. m) = IF 1 > m THEN 0 ELSE m - 1 + 1
    BY FS_Interval
  <2>2. QED BY <2>1
<1>9. IsFiniteSet(Workers \X (1 .. m)) /\ Cardinality(Workers \X (1 .. m)) = Cardinality(Workers) * m
  BY <1>8, VariablesAssumption, FS_Product
<1>10. QED BY <1>7, <1>9, FS_Injection

\* The nodes that are about to store are finitely many, and in the rounds of their workers.
LEMMA StoringNodes ==
  ASSUME WorkersInv, NEW s
  PROVE  /\ IsFiniteSet(Storing(s)) /\ Cardinality(Storing(s)) \in Nat
         /\ \A g \in Storing(s) : g[2] \in Asking(s, round[g[1]])
<1>1. DOMAIN plan.requests = 1 .. Len(plan.requests) /\ Len(plan.requests) \in Nat
  BY PlanFacts DEF WorkersInv
<1>2. IsFiniteSet(DOMAIN plan.requests)
  BY <1>1, FS_Interval
<1>3. IsFiniteSet(Nodes)
  BY <1>2, VariablesAssumption, FS_Product DEF Nodes
<1>4. Storing(s) \subseteq Nodes
  BY DEF Storing
<1>5. ASSUME NEW g \in Storing(s) PROVE g[2] \in Asking(s, round[g[1]])
  <2>1. g \in Nodes /\ node[g] = "store" /\ Current(g).kind = "dubbo" /\ Current(g).service = s
    BY DEF Storing
  <2>2. plan.round[g[2]] = round[g[1]] /\ g[2] \in DOMAIN plan.requests
    BY <2>1 DEF WorkersInv, Nodes
  <2>3. QED BY <2>1, <2>2 DEF Asking, Current
<1>6. QED BY <1>3, <1>4, <1>5, FS_Subset, FS_CardinalityType

\* What neither makes nor stores a reference leaves the nodes that do.
LEMMA SharedUnmoved ==
  ASSUME SharedInv, UNCHANGED <<plan, made, references>>,
         \A g \in Nodes : node'[g] = "store" <=> node[g] = "store"
  PROVE  SharedInv'
<1>1. \A s : Storing(s)' = Storing(s)
  BY DEF Storing, Current, Nodes
<1>2. \A s, m : AtMost(s, m)' = AtMost(s, m)
  BY DEF AtMost, Asking
<1>3. QED BY <1>1, <1>2 DEF SharedInv

LEMMA SharedStep == WorkersInv /\ SharedInv /\ [Next]_everything => SharedInv'
<1> SUFFICES ASSUME WorkersInv, SharedInv, [Next]_everything PROVE SharedInv'
  OBVIOUS
<1>a. node \in [Nodes -> {"off", "prepare", "done"} \cup Holding]
  BY DEF WorkersInv
<1>1. CASE Setup
  BY <1>1, SharedUnmoved DEF Setup, sharing, running
<1>2. ASSUME NEW w \in Workers, Draw(w) \/ ReadList(w) \/ WriteList(w) PROVE SharedInv'
  BY <1>2, SharedUnmoved DEF Draw, ReadList, WriteList, tables, sharing, running
<1>3. ASSUME NEW w \in Workers, NEW k \in 0 .. Len(plan.requests), StartRound(w, k),
             at[w] = "append" \/ Unfinished(w) = {}, UNCHANGED <<plan, prepared, made, references>>
      PROVE  SharedInv'
  <2>1. \A g \in Nodes : node'[g] = "store" <=> node[g] = "store"
    BY <1>3, StartKeeps
  <2>2. QED BY <1>3, <2>1, SharedUnmoved
<1>4. ASSUME NEW w \in Workers, Load(w) PROVE SharedInv'
  <2>1. 1 \in 0 .. Len(plan.requests)
    BY PlanFacts DEF WorkersInv
  <2>2. QED BY <1>3, <1>4, <2>1 DEF Load, tables, sharing
<1>5. ASSUME NEW w \in Workers, NextRound(w) PROVE SharedInv'
  <2>1. PICK k \in 0 .. Len(plan.requests) : StartRound(w, k)
    BY <1>5, RoundGoesOn
  <2>2. Unfinished(w) = {} /\ UNCHANGED <<plan, prepared, made, references>>
    BY <1>5, RoundGoesOn DEF tables, sharing
  <2>3. QED BY <1>3, <2>1, <2>2
<1>6. ASSUME NEW g \in Nodes, InitDubbo(g) PROVE SharedInv'
  <2>0. PICK mine : mine = Current(g).service
    OBVIOUS
  <2>1. node[g] = "init" /\ Current(g).kind = "dubbo" /\ UNCHANGED <<plan, round, references>>
    BY <1>6 DEF InitDubbo, Is, Move, tables
  <2>2. CASE mine \in references
    <3>1. node' = [node EXCEPT ![g] = "invoke"] /\ made' = [made EXCEPT ![mine] = made[mine]]
      BY <1>6, <2>0, <2>2 DEF InitDubbo, Move
    <3>2. made' = made
      BY <3>1 DEF SharedInv
    <3>3. QED BY <2>1, <3>1, <3>2, <1>a, SharedUnmoved
  <2>3. CASE mine \notin references
    <3>1. node' = [node EXCEPT ![g] = "store"] /\ made' = [made EXCEPT ![mine] = made[mine] + 1]
      BY <1>6, <2>0, <2>3 DEF InitDubbo, Move
    <3>2. Storing(mine)' = Storing(mine) \cup {g} /\ g \notin Storing(mine)
      BY <2>0, <2>1, <3>1, <1>a DEF Storing, Current, Nodes
    <3>3. \A s : s # mine => Storing(s)' = Storing(s)
      BY <2>0, <2>1, <3>1, <1>a DEF Storing, Current, Nodes
    <3>4. Cardinality(Storing(mine)') = Cardinality(Storing(mine)) + 1
      BY <3>2, StoringNodes, FS_AddElement
    <3>5. \A s, m : AtMost(s, m)' = AtMost(s, m)
      BY <2>1 DEF AtMost, Asking
    <3>6. ASSUME NEW m \in Nat, AtMost(mine, m)
          PROVE  Cardinality(Storing(mine)') <= Cardinality(Workers) * m
      <4>1. g[2] \in Asking(mine, round[g[1]])
        <5>1. plan.round[g[2]] = round[g[1]] /\ g[2] \in DOMAIN plan.requests
          BY <2>1 DEF WorkersInv, Nodes
        <5>2. QED BY <2>0, <2>1, <5>1 DEF Asking, Current
      <4>2. PICK T : T = Storing(mine) \cup {g}
        OBVIOUS
      <4>3. T \subseteq Nodes /\ \A h \in T : h[2] \in Asking(mine, round[h[1]])
        <5>1. Storing(mine) \subseteq Nodes
          BY DEF Storing
        <5>2. QED BY <4>1, <4>2, <5>1, StoringNodes
      <4>4. Cardinality(T) <= Cardinality(Workers) * m
        BY <3>6, <4>3, AskersBounded
      <4>5. QED BY <3>2, <4>2, <4>4
    <3>7. ASSUME NEW s \in DOMAIN made
          PROVE  /\ \A m \in Nat : AtMost(s, m) => made'[s] <= Cardinality(Workers) * m
                 /\ s \notin references => made'[s] = Cardinality(Storing(s)')
      <4>1. CASE s = mine
        <5>1. made[mine] = Cardinality(Storing(mine)) /\ made'[mine] = made[mine] + 1
          BY <2>3, <3>1, <4>1 DEF SharedInv
        <5>2. made'[mine] = Cardinality(Storing(mine)')
          BY <3>4, <5>1
        <5>3. QED BY <3>6, <4>1, <5>2
      <4>2. CASE s # mine
        BY <3>1, <3>3, <4>2 DEF SharedInv
      <4>3. QED BY <4>1, <4>2
    <3>8. DOMAIN made' = DOMAIN made /\ made' = [s \in DOMAIN made' |-> made'[s]]
      BY <3>1
    <3>9. QED BY <2>1, <3>5, <3>7, <3>8 DEF SharedInv
  <2>4. QED BY <2>2, <2>3
<1>7. ASSUME NEW g \in Nodes, StoreReference(g) PROVE SharedInv'
  <2>0. PICK mine : mine = Current(g).service
    OBVIOUS
  <2>1. node[g] = "store" /\ node' = [node EXCEPT ![g] = "invoke"] /\ UNCHANGED <<plan, made>>
        /\ references' = references \cup {mine}
    BY <1>7, <2>0 DEF StoreReference, Is, Move, tables
  <2>2. \A s : s # mine => Storing(s)' = Storing(s)
    BY <2>0, <2>1, <1>a DEF Storing, Current, Nodes
  <2>3. \A s, m : AtMost(s, m)' = AtMost(s, m)
    BY <2>1 DEF AtMost, Asking
  <2>4. QED BY <2>1, <2>2, <2>3 DEF SharedInv
<1>8. ASSUME NEW g \in Nodes, NEW dies, NEW after, NEW r, node[g] # "store", Report(g, dies, after, r)
      PROVE  SharedInv'
  <2>1. node' = node \/ node' = [node EXCEPT ![g] = "done"]
    BY <1>8 DEF Report
  <2>2. UNCHANGED <<plan, made, references>>
    BY <1>8 DEF Report, tables, sharing
  <2>3. QED BY <1>a, <1>8, <2>1, <2>2, SharedUnmoved
<1>9. ASSUME NEW g \in Nodes, Respond(g) \/ QuerySql(g) \/ Invoke(g) PROVE SharedInv'
  <2>1. node[g] \in {"sent", "prepare", "invoke"}
    BY <1>9 DEF Respond, QuerySql, Invoke, Is
  <2>2. \E dies, after, r : Report(g, dies, after, r)
    BY <1>9, Zenon DEF Respond, QuerySql, Invoke
  <2>3. QED BY <1>8, <2>1, <2>2
<1>10. ASSUME NEW g \in Nodes, Begin(g) \/ Prepare(g) \/ LookUp(g) \/ InitFails(g) PROVE SharedInv'
  <2>1. node[g] \in {"prepare", "replace", "init"} /\ UNCHANGED <<plan, made, references>>
    BY <1>10 DEF Begin, Prepare, LookUp, InitFails, Is, Move, tables, sharing
  <2>2. node' = node \/ \E to \in {"replace", "sent", "init", "invoke"} : node' = [node EXCEPT ![g] = to]
    BY <1>10, Zenon DEF Begin, Prepare, LookUp, InitFails, Move
  <2>3. QED BY <1>a, <2>1, <2>2, SharedUnmoved
<1>11. CASE UNCHANGED everything
  BY <1>11, SharedUnmoved DEF everything, tables, sharing, running
<1>12. QED
  BY <1>1, <1>2, <1>4, <1>5, <1>6, <1>7, <1>9, <1>10, <1>11 DEF Next, DisposeScene, DisposeNode

LEMMA WorkersInit == Init => WorkersInv /\ SharedInv
<1> SUFFICES ASSUME Init PROVE WorkersInv /\ SharedInv
  OBVIOUS
<1>1. 0 \in 0 .. plan.executions /\ 0 \in 0 .. Len(plan.requests)
      /\ \A n \in DOMAIN plan.requests : plan.round[n] # 0
  BY PlanFacts DEF Init
<1>2. \A g \in Nodes : g[1] \in Workers /\ g[2] \in DOMAIN plan.requests
  BY DEF Nodes
<1>3. WorkersInv
  BY <1>1, <1>2 DEF Init, WorkersInv, Services, Waiting, Holding
<1>4. \A s : Storing(s) = {}
  BY DEF Init, Storing
<1>5. \A s \in DOMAIN made : made[s] = 0
  BY DEF Init
<1>6. Cardinality(Workers) \in Nat /\ Cardinality({}) = 0
  BY VariablesAssumption, FS_CardinalityType, FS_EmptySet
<1>7. made = [s \in DOMAIN made |-> made[s]]
  BY DEF Init
<1>8. \A m \in Nat : 0 <= Cardinality(Workers) * m
  BY <1>6
<1>9. QED BY <1>3, <1>4, <1>5, <1>6, <1>7, <1>8 DEF SharedInv

\* However many Dubbo requests are sent, the references to a service are at most as
\* many as nodes can ask for it at one time: the second look at the map and the store
\* behind it (request_dubbo.go:208-216), among the goroutines of link.go:70-93.
THEOREM VariablesReferencesAreShared == Spec => []ReferencesAreShared
<1>1. WorkersInv /\ SharedInv => ReferencesAreShared
  <2> SUFFICES ASSUME WorkersInv, SharedInv, NEW s \in DOMAIN made, NEW m \in 1 .. Len(plan.requests), AtMost(s, m)
               PROVE  made[s] <= Cardinality(Workers) * m
    BY DEF ReferencesAreShared, AtMost
  <2>1. m \in Nat
    BY PlanFacts DEF WorkersInv
  <2>2. QED BY <2>1 DEF SharedInv
<1>2. QED BY <1>1, WorkersInit, WorkersStep, SharedStep, PTL DEF Spec

-----------------------------------------------------------------------------
(* Rows                                                                    *)

\* The index of a column separates the rows of it that were dealt once more from the
\* others, and is behind the last one at most.
ColumnInv(c) ==
  /\ index[c] \in Nat \ {0}
  /\ file[c] # <<>> => index[c] <= Len(file[c]) + 1
  /\ DOMAIN dealt[c] = DOMAIN file[c]
  /\ \E k \in Nat : \A i \in DOMAIN dealt[c] : dealt[c][i] = IF i < index[c] THEN k + 1 ELSE k

DealtInv ==
  /\ DOMAIN index = Columns /\ DOMAIN dealt = Columns
  /\ index = [c \in DOMAIN index |-> index[c]]
  /\ \A c \in Columns : ColumnInv(c)

LEMMA ColumnFacts ==
  ASSUME ColumnsAreRows, NEW c \in Columns
  PROVE  /\ Len(file[c]) \in Nat
         /\ DOMAIN file[c] = 1 .. Len(file[c])
         /\ file[c] # <<>> => Len(file[c]) >= 1
<1>1. file[c] \in Seq(ToSet(file[c]))
  BY DEF ColumnsAreRows
<1>2. QED BY <1>1

\* What is neither set up nor drawn leaves the rows and how they were dealt.
LEMMA OnlySetupFills ==
  ASSUME WorkersInv, [Next]_everything, ~Setup
  PROVE  UNCHANGED <<pc, file>> /\ ((\A w \in Workers : ~Draw(w)) => UNCHANGED <<index, dealt>>)
<1>1. ASSUME NEW g \in Nodes, DisposeNode(g)
      PROVE  UNCHANGED <<pc, file, index, dealt>>
  BY <1>1, NodeMoves DEF tables, drawing
<1>2. ASSUME NEW w \in Workers, DisposeScene(w), ~Draw(w)
      PROVE  UNCHANGED <<pc, file, index, dealt>>
  <2>1. CASE ReadList(w) \/ WriteList(w)
    BY <2>1 DEF ReadList, WriteList, tables
  <2>2. CASE Load(w) \/ NextRound(w)
    BY <2>2 DEF Load, NextRound, tables, drawing
  <2>3. QED BY <1>2, <2>1, <2>2 DEF DisposeScene
<1>3. \A w \in Workers : Draw(w) => UNCHANGED <<pc, file>>
  BY DEF Draw, tables
<1>4. UNCHANGED everything => UNCHANGED <<pc, file, index, dealt>>
  BY DEF everything, tables, drawing
<1>5. QED BY <1>1, <1>2, <1>3, <1>4 DEF Next

\* What is set up is rows, and columns finitely many.
RowsInv == IsFiniteSet(Columns) /\ ColumnsAreRows

LEMMA ColumnsAreSetUp ==
  ASSUME plan \in Plans, Setup
  PROVE  RowsInv'
<1>1. /\ IsList(plan.files) /\ \A f \in ToSet(plan.files) : IsFile(f)
      /\ IsList(plan.prepositions) /\ \A q \in ToSet(plan.prepositions) : IsList(q.regex)
  BY VariablesAssumption DEF IsPlan
<1>2. PICK answers \in {f \in [Used -> UNION {SqlAnswers(plan.prepositions[i]) : i \in Used}] :
                          \A i \in Used : f[i] \in SqlAnswers(plan.prepositions[i])} :
        file' = IF crashed' THEN <<>> ELSE AddSql(UseFile(plan.files), SqlMap(plan.prepositions, answers))
  BY DEF Setup
<1>3. \A i \in DOMAIN answers : IsAnswer(answers[i])
  <2>1. DOMAIN answers = Used /\ \A i \in Used : answers[i] \in SqlAnswers(plan.prepositions[i])
    BY <1>2
  <2>2. QED BY <2>1, AnswersAreLists
<1>4. PICK columns : columns = AddSql(UseFile(plan.files), SqlMap(plan.prepositions, answers))
  OBVIOUS
<1>5. IsFiniteSet(DOMAIN columns) /\ \A c \in DOMAIN columns : IsList(columns[c])
  BY <1>1, <1>3, <1>4, ColumnsTyped
<1>6. CASE crashed'
  <2>1. DOMAIN file' = {}
    BY <1>2, <1>6
  <2>2. QED BY <2>1, FS_EmptySet DEF RowsInv, ColumnsAreRows, Columns
<1>7. CASE ~crashed'
  <2>1. file' = columns
    BY <1>2, <1>4, <1>7
  <2>2. QED BY <1>5, <2>1 DEF RowsInv, ColumnsAreRows, Columns, IsList
<1>8. QED BY <1>6, <1>7

LEMMA RowsStep == WorkersInv /\ RowsInv /\ [Next]_everything => RowsInv'
<1> SUFFICES ASSUME WorkersInv, RowsInv, [Next]_everything PROVE RowsInv'
  OBVIOUS
<1>1. CASE Setup
  BY <1>1, ColumnsAreSetUp DEF WorkersInv
<1>2. CASE ~Setup
  <2>1. UNCHANGED file
    BY <1>2, OnlySetupFills
  <2>2. QED BY <2>1 DEF RowsInv, ColumnsAreRows, Columns
<1>3. QED BY <1>1, <1>2

LEMMA RowsInit == Init => RowsInv
<1>1. Init => Columns = {}
  BY DEF Init, Columns
<1>2. QED BY <1>1, FS_EmptySet DEF RowsInv, ColumnsAreRows

LEMMA DealtStep == WorkersInv /\ DealtInv /\ ColumnsAreRows /\ ColumnsAreRows' /\ [Next]_everything => DealtInv'
<1> SUFFICES ASSUME WorkersInv, DealtInv, ColumnsAreRows, ColumnsAreRows', [Next]_everything PROVE DealtInv'
  OBVIOUS
<1>1. CASE Setup
  <2>1. /\ pc' = "run"
        /\ index' = [c \in Columns' |-> 1]
        /\ dealt' = [c \in Columns' |-> [i \in DOMAIN file'[c] |-> 0]]
    BY <1>1 DEF Setup, Columns
  <2>2. ASSUME NEW c \in Columns' PROVE ColumnInv(c)'
    <3>1. Len(file'[c]) \in Nat /\ (file'[c] # <<>> => Len(file'[c]) >= 1) /\ DOMAIN file'[c] = 1 .. Len(file'[c])
      <4>1. file'[c] \in Seq(ToSet(file'[c]))
        BY <2>2 DEF ColumnsAreRows
      <4>2. QED BY <4>1
    <3>2. index'[c] = 1 /\ DOMAIN dealt'[c] = DOMAIN file'[c]
      BY <2>1
    <3>3. \A i \in DOMAIN dealt'[c] : dealt'[c][i] = IF i < index'[c] THEN 0 + 1 ELSE 0
      BY <2>1, <3>1, <3>2
    <3>4. 0 \in Nat /\ 1 \in Nat \ {0}
      OBVIOUS
    <3>5. \E k \in Nat : \A i \in DOMAIN dealt'[c] : dealt'[c][i] = IF i < index'[c] THEN k + 1 ELSE k
      BY <3>3, <3>4
    <3>6. index'[c] <= Len(file'[c]) + 1
      BY <3>1, <3>2
    <3>7. QED BY <3>2, <3>4, <3>5, <3>6 DEF ColumnInv
  <2>3. QED BY <2>1, <2>2 DEF DealtInv
<1>2. ASSUME NEW w \in Workers, Draw(w) PROVE DealtInv'
  <2> DEFINE row == [c \in Columns |-> Wrapped(c)]
  <2>1. /\ UNCHANGED <<pc, file>> /\ pc = "run"
        /\ index' = [c \in Columns |-> Wrapped(c) + 1]
        /\ dealt' = [c \in Columns |-> [i \in DOMAIN dealt[c] |-> IF i = Wrapped(c) THEN dealt[c][i] + 1 ELSE dealt[c][i]]]
    BY <1>2 DEF Draw, tables
  <2>2. Columns' = Columns
    BY <2>1 DEF Columns
  <2>3. ASSUME NEW c \in Columns PROVE ColumnInv(c)'
    <3>1. Len(file[c]) \in Nat /\ DOMAIN file[c] = 1 .. Len(file[c]) /\ (file[c] # <<>> => Len(file[c]) >= 1)
      BY ColumnFacts
    <3>2. PICK k \in Nat : \A i \in DOMAIN dealt[c] : dealt[c][i] = IF i < index[c] THEN k + 1 ELSE k
      BY DEF DealtInv, ColumnInv
    <3>3. index[c] \in Nat \ {0} /\ (file[c] # <<>> => index[c] <= Len(file[c]) + 1) /\ DOMAIN dealt[c] = 1 .. Len(file[c])
      BY <3>1 DEF DealtInv, ColumnInv
    <3>4. DOMAIN dealt'[c] = DOMAIN dealt[c] /\ index'[c] = Wrapped(c) + 1
          /\ \A i \in DOMAIN dealt[c] : dealt'[c][i] = IF i = Wrapped(c) THEN dealt[c][i] + 1 ELSE dealt[c][i]
      BY <2>1
    <3>5. CASE index[c] > Len(file[c])
      <4>1. Wrapped(c) = 1
        BY <3>5 DEF Wrapped
      <4>2. file[c] # <<>> => index'[c] <= Len(file[c]) + 1
        BY <3>1, <3>4, <4>1
      <4>3. \A i \in DOMAIN dealt[c] : dealt[c][i] = k + 1
        BY <3>1, <3>2, <3>3, <3>5
      <4>4. \A i \in DOMAIN dealt'[c] : dealt'[c][i] = IF i < index'[c] THEN (k + 1) + 1 ELSE k + 1
        BY <3>3, <3>4, <4>1, <4>3
      <4>5. k + 1 \in Nat /\ index'[c] \in Nat \ {0}
        BY <3>4, <4>1
      <4>6. \E l \in Nat : \A i \in DOMAIN dealt'[c] : dealt'[c][i] = IF i < index'[c] THEN l + 1 ELSE l
        BY <4>4, <4>5
      <4>7. QED BY <2>1, <3>1, <3>3, <3>4, <4>2, <4>5, <4>6 DEF ColumnInv
    <3>6. CASE ~(index[c] > Len(file[c]))
      <4>1. Wrapped(c) = index[c]
        BY <3>6 DEF Wrapped
      <4>2. index'[c] <= Len(file[c]) + 1 /\ index'[c] \in Nat \ {0}
        BY <3>1, <3>3, <3>4, <3>6, <4>1
      <4>3. \A i \in DOMAIN dealt'[c] : dealt'[c][i] = IF i < index'[c] THEN k + 1 ELSE k
        BY <3>2, <3>3, <3>4, <4>1
      <4>4. QED BY <2>1, <3>1, <3>3, <3>4, <4>2, <4>3 DEF ColumnInv
    <3>7. QED BY <3>5, <3>6
  <2>4. QED BY <2>1, <2>2, <2>3 DEF DealtInv
<1>3. CASE UNCHANGED <<pc, file, index, dealt>>
  BY <1>3 DEF DealtInv, ColumnInv, Columns
<1>4. QED BY <1>1, <1>2, <1>3, OnlySetupFills

LEMMA DealtInit == Init => DealtInv
  BY DEF Init, DealtInv, Columns

\* Rows of a column are dealt as evenly as its length allows, by any number of
\* workers: VarToSceneKV moves the index of a column and takes its row under one
\* lock (scene.go:41-62).
THEOREM VariablesRowsAreDealtInTurn == Spec => []RowsAreDealtInTurn
<1>1. DealtInv /\ ColumnsAreRows => RowsAreDealtInTurn
  <2> SUFFICES ASSUME DealtInv, ColumnsAreRows, NEW c \in Columns,
                      NEW i \in DOMAIN dealt[c], NEW j \in DOMAIN dealt[c], i < j
               PROVE  dealt[c][i] \in {dealt[c][j], dealt[c][j] + 1}
    BY DEF RowsAreDealtInTurn
  <2>1. i \in Nat /\ j \in Nat
    BY ColumnFacts DEF DealtInv, ColumnInv
  <2>2. index[c] \in Nat
    BY DEF DealtInv, ColumnInv
  <2>3. PICK k \in Nat : \A n \in DOMAIN dealt[c] : dealt[c][n] = IF n < index[c] THEN k + 1 ELSE k
    BY DEF DealtInv, ColumnInv
  <2>4. QED BY <2>1, <2>2, <2>3
<1>2. RowsInv => ColumnsAreRows
  BY DEF RowsInv
<1>3. QED BY <1>1, <1>2, WorkersInit, WorkersStep, RowsInit, RowsStep, DealtInit, DealtStep, PTL DEF Spec

\* The types, for every table of rows: no node runs before the variables are loaded or
\* outside the round of its worker, and no index runs past the end of its column.
THEOREM VariablesTypes == Spec => []TypeOK
<1>1. WorkersInv /\ DealtInv /\ ColumnsAreRows => TypeOK
  <2> SUFFICES ASSUME WorkersInv, DealtInv, ColumnsAreRows PROVE TypeOK
    OBVIOUS
  <2>1. /\ index \in [Columns -> Nat \ {0}]
        /\ \A c \in Columns : file[c] # <<>> => index[c] <= Len(file[c]) + 1
    BY DEF DealtInv, ColumnInv
  <2>2. QED BY <2>1 DEF WorkersInv, TypeOK, Waiting, Holding
<1>2. RowsInv => ColumnsAreRows
  BY DEF RowsInv
<1>3. QED BY <1>1, <1>2, WorkersInit, WorkersStep, RowsInit, RowsStep, DealtInit, DealtStep, PTL DEF Spec

-----------------------------------------------------------------------------
(* The request that is sent                                                *)

RequestFields == {"url", "query", "body", "header", "cookie", "auth", "assert"}

\* Headers and assertions are as they were.
SameParts(u, r) == IsStruct(u, RequestFields) /\ u.header = r.header /\ u.assert = r.assert

\* Replacing the references of one part leaves the others.
LEMMA OtherParts ==
  ASSUME NEW r, NEW with, IsStruct(r, RequestFields)
  PROVE  /\ SameParts(ReplaceUrl(r, with), r)
         /\ SameParts(ReplaceBodyVarForm(r, with), r)
         /\ SameParts(ReplaceQueryVarForm(r, with), r)
         /\ SameParts(ReplaceCookieVarForm(r, with), r)
         /\ SameParts(ReplaceAuthVarForm(r, with), r)
<1> DEFINE With(f, x) == [r EXCEPT ![f] = x]
<1>1. ASSUME NEW f \in {"url", "body", "query", "cookie", "auth"}, NEW x
      PROVE  SameParts(With(f, x), r)
  BY DEF SameParts, IsStruct, RequestFields
<1>2. ReplaceUrl(r, with) = With("url", Filled(r.url, with))
  BY DEF ReplaceUrl
<1>3. ReplaceBodyVarForm(r, with) = r \/ \E x : ReplaceBodyVarForm(r, with) = With("body", x)
  <2>1. CASE r.body.mode = "none"
    BY <2>1 DEF ReplaceBodyVarForm
  <2>2. CASE r.body.mode \in {"form", "urlencode"}
    <3>1. ReplaceBodyVarForm(r, with) =
            [r EXCEPT !.body.parameter = [i \in DOMAIN r.body.parameter |-> FillField(r.body.parameter[i], with)]]
      BY <2>2 DEF ReplaceBodyVarForm, Each
    <3>2. QED BY <3>1
  <2>3. CASE r.body.mode \notin {"none", "form", "urlencode"}
    <3>1. ReplaceBodyVarForm(r, with) = [r EXCEPT !.body.raw = Filled(r.body.raw, with)]
      BY <2>3 DEF ReplaceBodyVarForm
    <3>2. QED BY <3>1
  <2>4. QED BY <2>1, <2>2, <2>3
<1>4. \E x : ReplaceQueryVarForm(r, with) = With("query", x)
  BY DEF ReplaceQueryVarForm, Each
<1>5. \E x : ReplaceCookieVarForm(r, with) = With("cookie", x)
  BY DEF ReplaceCookieVarForm, Each
<1>6. \E x : ReplaceAuthVarForm(r, with) = With("auth", x)
  BY DEF ReplaceAuthVarForm, Each
<1>7. SameParts(r, r)
  BY DEF SameParts
<1> HIDE DEF With
<1>8. QED BY <1>1, <1>2, <1>3, <1>4, <1>5, <1>6, <1>7

LEMMA FilledHeader ==
  ASSUME NEW r, NEW with, IsStruct(r, RequestFields)
  PROVE  LET u == ReplaceHeaderVarForm(r, with) IN
           /\ IsStruct(u, RequestFields) /\ u.assert = r.assert
           /\ u.header = [i \in DOMAIN r.header |-> FillField(r.header[i], with)]
<1> DEFINE h == [i \in DOMAIN r.header |-> FillField(r.header[i], with)]
<1>1. ReplaceHeaderVarForm(r, with) = [r EXCEPT !.header = h]
  BY DEF ReplaceHeaderVarForm, Each
<1> HIDE DEF h
<1>2. LET u == [r EXCEPT !.header = h] IN IsStruct(u, RequestFields) /\ u.assert = r.assert /\ u.header = h
  BY DEF IsStruct, RequestFields
<1>3. QED BY <1>1, <1>2 DEF h

LEMMA FilledAssertions ==
  ASSUME NEW r, NEW with, IsStruct(r, RequestFields)
  PROVE  LET u == ReplaceAssertionVarForm(r, with) IN
           u.header = r.header /\ u.assert = [i \in DOMAIN r.assert |-> FillAssertion(r.assert[i], with)]
<1> DEFINE a == [i \in DOMAIN r.assert |-> FillAssertion(r.assert[i], with)]
<1>1. ReplaceAssertionVarForm(r, with) = [r EXCEPT !.assert = a]
  BY DEF ReplaceAssertionVarForm, Each
<1> HIDE DEF a
<1>2. LET u == [r EXCEPT !.assert = a] IN u.header = r.header /\ u.assert = a
  BY DEF IsStruct, RequestFields
<1>3. QED BY <1>1, <1>2 DEF a

\* The headers and assertions of u are those of r, each with its references replaced.
Refilled(u, r, with) ==
  /\ u.header = [i \in DOMAIN r.header |-> FillField(r.header[i], with)]
  /\ u.assert = [i \in DOMAIN r.assert |-> FillAssertion(r.assert[i], with)]

\* In the request that is sent the headers and assertions are those that were there,
\* each with its references replaced.
LEMMA ReplacedParts ==
  ASSUME NEW r, NEW with, IsStruct(r, RequestFields)
  PROVE  Refilled(ReplaceQueryParameterizes(r, with), r, with)
<1>1. PICK u1 : u1 = ReplaceUrl(r, with)
  OBVIOUS
<1>2. PICK u2 : u2 = ReplaceBodyVarForm(u1, with)
  OBVIOUS
<1>3. PICK u3 : u3 = ReplaceQueryVarForm(u2, with)
  OBVIOUS
<1>4. PICK u4 : u4 = ReplaceHeaderVarForm(u3, with)
  OBVIOUS
<1>5. PICK u5 : u5 = ReplaceCookieVarForm(u4, with)
  OBVIOUS
<1>6. PICK u6 : u6 = ReplaceAuthVarForm(u5, with)
  OBVIOUS
<1>7. ReplaceQueryParameterizes(r, with) = ReplaceAssertionVarForm(u6, with)
  BY <1>1, <1>2, <1>3, <1>4, <1>5, <1>6 DEF ReplaceQueryParameterizes
<1>8. SameParts(u1, r)
  BY <1>1, OtherParts
<1>9. IsStruct(u1, RequestFields) /\ SameParts(u2, u1)
  BY <1>2, <1>8, OtherParts DEF SameParts
<1>10. IsStruct(u2, RequestFields) /\ SameParts(u3, u2)
  BY <1>3, <1>9, OtherParts DEF SameParts
<1>11. IsStruct(u3, RequestFields) /\ u3.header = r.header /\ u3.assert = r.assert
  BY <1>8, <1>9, <1>10 DEF SameParts
<1>12. /\ IsStruct(u4, RequestFields) /\ u4.assert = r.assert
       /\ u4.header = [i \in DOMAIN r.header |-> FillField(r.header[i], with)]
  BY <1>4, <1>11, FilledHeader
<1>13. SameParts(u5, u4)
  BY <1>5, <1>12, OtherParts
<1>14. IsStruct(u5, RequestFields) /\ SameParts(u6, u5)
  BY <1>6, <1>13, OtherParts DEF SameParts
<1>15. IsStruct(u6, RequestFields) /\ u6.header = u4.header /\ u6.assert = r.assert
  BY <1>12, <1>13, <1>14 DEF SameParts
<1>16. PICK u7 : u7 = ReplaceAssertionVarForm(u6, with)
  OBVIOUS
<1>17. u7.header = u6.header /\ u7.assert = [i \in DOMAIN u6.assert |-> FillAssertion(u6.assert[i], with)]
  BY <1>15, <1>16, FilledAssertions
<1>18. Refilled(u7, r, with)
  BY <1>12, <1>15, <1>17 DEF Refilled
<1>19. QED BY <1>7, <1>16, <1>18

LEMMA AddedParts ==
  ASSUME NEW r, NEW api, IsStruct(r, RequestFields)
  PROVE  LET u == GlobalToRequest(r, api) IN
           /\ IsStruct(u, RequestFields)
           /\ u.header = AddMissing(r.header, api.header, SameKey)
           /\ u.assert = AddMissing(r.assert, api.assert, SameAssert)
<1> DEFINE c == AddMissing(r.cookie, api.cookie, SameField)
           h == AddMissing(r.header, api.header, SameKey)
           a == AddMissing(r.assert, api.assert, SameAssert)
<1>1. GlobalToRequest(r, api) = [r EXCEPT !.cookie = c, !.header = h, !.assert = a]
  BY DEF GlobalToRequest
<1> HIDE DEF c, h, a
<1>2. LET u == [r EXCEPT !.cookie = c, !.header = h, !.assert = a] IN
        IsStruct(u, RequestFields) /\ u.header = h /\ u.assert = a
  BY DEF IsStruct, RequestFields
<1>3. QED BY <1>1, <1>2 DEF h, a

\* The globals an execution of a plan works with.
SetUp == globals = InitReplace(SupToSub(InitReplace(plan.globals), plan.scene))

Real(r, with) ==
  ReplaceQueryParameterizes(GlobalToRequest(r, SupToSub(globals, InitReplace(plan.api))), with)

\* What the answer is judged by holds each plain assertion.
Carries(asserts, stated) ==
  /\ asserts \in Seq(ToSet(asserts)) /\ \A e \in ToSet(asserts) : e.checked \in BOOLEAN
  /\ \A a : IsPlain(a, stated) => a \in ToSet(asserts)

\* A plain assertion of any level is among those the answer is judged by.
LEMMA PlainIsSent ==
  ASSUME plan \in Plans, SetUp, NEW r, IsRequest(r), NEW with
  PROVE  Carries(Real(r, with).assert, Stated(r))
<1> DEFINE stated == Stated(r)
           g1 == InitReplace(plan.globals)
           g2 == SupToSub(g1, plan.scene)
           g3 == InitReplace(plan.api)
           g4 == SupToSub(globals, g3)
           full == GlobalToRequest(r, g4)
           l == full.assert
           m == [i \in DOMAIN l |-> FillAssertion(l[i], with)]
<1>1. \A g \in {plan.globals, plan.scene, plan.api} : Stems(g.assert, stated)
  <2>1. \A g \in {plan.globals, plan.scene, plan.api} : IsList(g.assert) /\ \A a \in ToSet(g.assert) : IsAssertion(a)
    BY VariablesAssumption DEF IsPlan, IsGlobal
  <2>2. \A g \in {plan.globals, plan.scene, plan.api} : \A a \in ToSet(g.assert) : a.checked => a \in stated
    BY DEF Stated, Levels
  <2>3. QED BY <2>1, <2>2 DEF Stems, IsList
<1>2. Stems(r.assert, stated)
  <2>1. IsList(r.assert) /\ \A a \in ToSet(r.assert) : IsAssertion(a)
    BY DEF IsRequest
  <2>2. \A a \in ToSet(r.assert) : a.checked => a \in stated
    BY DEF Stated
  <2>3. QED BY <2>1, <2>2 DEF Stems, IsList
<1>3. \A a \in stated : \/ a \in ToSet(r.assert) \/ a \in ToSet(plan.globals.assert)
                          \/ a \in ToSet(plan.scene.assert) \/ a \in ToSet(plan.api.assert)
  BY DEF Stated, Levels
<1>4. g2.assert = AddMissing(plan.scene.assert, g1.assert, SameCheck) /\ g4.assert = AddMissing(g3.assert, globals.assert, SameCheck)
  BY DEF SupToSub
<1>5. IsStruct(r, RequestFields)
  BY DEF IsRequest, RequestFields
<1>6. l = AddMissing(r.assert, g4.assert, SameAssert) /\ Real(r, with).assert = m
  <2>1. IsStruct(full, RequestFields) /\ l = AddMissing(r.assert, g4.assert, SameAssert)
    BY <1>5, AddedParts
  <2>2. Real(r, with) = ReplaceQueryParameterizes(full, with)
    BY DEF Real
  <2>3. PICK q : q = full
    OBVIOUS
  <2>4. IsStruct(q, RequestFields) /\ Real(r, with) = ReplaceQueryParameterizes(q, with)
    BY <2>1, <2>2, <2>3
  <2>5. Refilled(Real(r, with), q, with)
    <3>1. Refilled(ReplaceQueryParameterizes(q, with), q, with)
      BY <2>4, ReplacedParts
    <3>2. QED BY <2>4, <3>1
  <2>6. Real(r, with).assert = [i \in DOMAIN q.assert |-> FillAssertion(q.assert[i], with)]
    BY <2>5 DEF Refilled
  <2>7. QED BY <2>1, <2>3, <2>6
<1>7. globals = InitReplace(g2)
  BY DEF SetUp
<1>8. SameCheck \subseteq SameAssert
  BY DEF SameCheck, SameAssert
<1> HIDE DEF g1, g2, g3, g4, full, stated
<1> DEFINE Keeps(k, n) == \A a : IsPlain(a, stated) /\ a \in ToSet(k) => a \in ToSet(n)
<1>9. Stems(g1.assert, stated) /\ Keeps(plan.globals.assert, g1.assert)
  BY <1>1, ReplacingKeepsPlain DEF g1
<1>10. Stems(g3.assert, stated) /\ Keeps(plan.api.assert, g3.assert)
  BY <1>1, ReplacingKeepsPlain DEF g3
<1>11. Stems(g2.assert, stated) /\ Keeps(plan.scene.assert, g2.assert) /\ Keeps(g1.assert, g2.assert)
  BY <1>1, <1>4, <1>9, AddingKeepsPlain
<1>12. Stems(globals.assert, stated) /\ Keeps(g2.assert, globals.assert)
  BY <1>7, <1>11, ReplacingKeepsPlain
<1>13. Stems(g4.assert, stated) /\ Keeps(g3.assert, g4.assert) /\ Keeps(globals.assert, g4.assert)
  BY <1>4, <1>10, <1>12, AddingKeepsPlain
<1>14. Stems(l, stated) /\ Keeps(r.assert, l) /\ Keeps(g4.assert, l)
  BY <1>2, <1>6, <1>8, <1>13, AddingKeepsPlain
<1>15. ASSUME NEW a, IsPlain(a, stated) PROVE a \in ToSet(l)
  <2>1. a \in stated
    BY <1>15 DEF IsPlain
  <2>2. a \in ToSet(g1.assert) \/ a \in ToSet(plan.scene.assert) => a \in ToSet(globals.assert)
    BY <1>11, <1>12, <1>15
  <2>3. a \in ToSet(g3.assert) \/ a \in ToSet(globals.assert) => a \in ToSet(l)
    BY <1>13, <1>14, <1>15
  <2>4. QED BY <1>3, <1>9, <1>10, <1>14, <1>15, <2>1, <2>2, <2>3
<1>16. l \in Seq(ToSet(l)) /\ \A i \in DOMAIN l : l[i] \in ToSet(l) /\ IsAssertion(l[i])
  BY <1>14 DEF Stems, ToSet
<1>17. \A e : IsAssertion(e) => FillAssertion(e, with).checked = e.checked /\ e.checked \in BOOLEAN
  BY DEF FillAssertion, IsAssertion, IsStruct
<1>18. m \in Seq(ToSet(m)) /\ \A e \in ToSet(m) : e.checked \in BOOLEAN
  <2>1. DOMAIN m = 1 .. Len(l) /\ Len(l) \in Nat /\ DOMAIN m = DOMAIN l
    BY <1>16
  <2>2. \A i \in 1 .. Len(l) : m[i] \in ToSet(m)
    BY <2>1 DEF ToSet
  <2>3. \A i \in 1 .. Len(l) : m[i].checked \in BOOLEAN
    BY <1>16, <1>17, <2>1
  <2>4. m = [i \in 1 .. Len(l) |-> m[i]]
    BY <2>1
  <2> HIDE DEF m
  <2>5. m \in Seq(ToSet(m))
    BY <2>1, <2>2, <2>4
  <2>6. QED BY <2>1, <2>3, <2>5 DEF ToSet
<1>19. ASSUME NEW a, IsPlain(a, stated) PROVE a \in ToSet(m)
  <2>1. PICK i \in DOMAIN l : l[i] = a
    BY <1>15, <1>19 DEF ToSet
  <2>2. FillAssertion(a, with) = a
    <3>1. FillPath(a, with) = a.var
      BY <1>19 DEF FillPath, IsPlain
    <3>2. Filled(a.val, with) = a.val
      BY <1>19, FilledPlain DEF IsPlain
    <3>3. IsStruct(a, {"checked", "target", "compare", "var", "val"})
      BY <1>16, <2>1 DEF IsAssertion
    <3>4. QED BY <3>1, <3>2, <3>3 DEF FillAssertion, IsStruct
  <2>3. m[i] = a /\ i \in DOMAIN m
    BY <2>1, <2>2
  <2> HIDE DEF m
  <2>4. QED BY <2>3 DEF ToSet
<1> HIDE DEF m
<1>20. QED BY <1>6, <1>18, <1>19 DEF stated, Carries

\* A result counts the assertions stated of its request.
Counted(request, r) ==
  r.kind = "http" =>
    /\ \A a : IsPlain(a, Stated(request)) /\ ~VerifyAssertionText(a, r.answer) =>
         ~r.succeed /\ r.errorType = "assert"
    /\ ~r.succeed => r.answer.error \/ \E a \in ToSet(r.with) : a.checked /\ ~VerifyAssertionText(a, r.answer)

\* A node has sent what is made of the globals of the execution and the variables it saw.
Sending(g) == Current(g).kind = "http" /\ prepared[g] = <<Real(Current(g), prepared[g][2]), prepared[g][2]>>

JudgedInv ==
  /\ IF pc = "setup" THEN \A w \in Workers : at[w] = "idle" ELSE SetUp
  /\ \A g \in Nodes : (node[g] = "sent" => Sending(g)) /\ Counted(Current(g), result[g])
  /\ DOMAIN vars = Workers /\ DOMAIN result = Nodes

\* Nobody runs before the variables are set up.
LEMMA NodesRunLater ==
  ASSUME WorkersInv, JudgedInv, NEW w \in Workers,
         at[w] # "idle" \/ \E n \in DOMAIN plan.requests : node[<<w, n>>] # "off"
  PROVE  pc # "setup" /\ SetUp
<1>1. CASE at[w] # "idle"
  BY <1>1 DEF JudgedInv
<1>2. CASE \E n \in DOMAIN plan.requests : node[<<w, n>>] # "off"
  <2>1. PICK n \in DOMAIN plan.requests : node[<<w, n>>] # "off"
    BY <1>2
  <2>2. <<w, n>> \in Nodes
    BY DEF Nodes
  <2>3. plan.round[n] = round[w] /\ plan.round[n] \in 1 .. Len(plan.requests) /\ Len(plan.requests) \in Nat
    BY <2>1, <2>2, PlanFacts DEF WorkersInv
  <2>4. round[w] # 0
    BY <2>3
  <2>5. at[w] # "idle"
    BY <2>4 DEF WorkersInv, Waiting
  <2>6. QED BY <1>1, <2>5
<1>3. QED BY <1>1, <1>2

LEMMA AnswerIsJudged ==
  ASSUME WorkersInv, JudgedInv, NEW g \in Nodes, node[g] = "sent", NEW resp, NEW recorded
  PROVE  LET r == prepared[g][1]
             o == Outcome(r, resp)
         IN Counted(Current(g), Reported(g, o.succeed, o.errorType, recorded, r.assert, resp))
<1> DEFINE real == Real(Current(g), prepared[g][2])
           l == real.assert
           stated == Stated(Current(g))
           Refuted == \E a \in ToSet(l) : a.checked /\ ~VerifyAssertionText(a, resp)
<1>1. SetUp /\ plan \in Plans
  <2>1. g[1] \in Workers /\ g[2] \in DOMAIN plan.requests /\ g = <<g[1], g[2]>>
    BY DEF Nodes
  <2>2. QED BY <2>1, NodesRunLater DEF WorkersInv
<1>2. prepared[g][1] = real /\ Current(g).kind = "http"
  BY DEF JudgedInv, Sending
<1>3. IsRequest(Current(g))
  BY <1>1, <1>2, CurrentIsThere, VariablesAssumption DEF IsPlan
<1>4. Carries(l, stated)
  BY <1>1, <1>3, PlainIsSent
<1> HIDE DEF real, l, stated
<1>5. PICK v : v = Assertion(l, resp)
  OBVIOUS
<1>6. /\ v.isAssert = (\E a \in ToSet(l) : a.checked)
      /\ v.succeed = ~Refuted
      /\ v.code = IF Refuted THEN "assert" ELSE "none"
  BY <1>4, <1>5, AssertionMeaning DEF Carries
<1>7. PICK o : o = Outcome(real, resp)
  OBVIOUS
<1>8. o = IF v.isAssert THEN [succeed |-> v.succeed, errorType |-> v.code] ELSE [succeed |-> ~resp.error, errorType |-> "none"]
  BY <1>5, <1>7 DEF Outcome, l
<1>9. ASSUME NEW a, IsPlain(a, stated), ~VerifyAssertionText(a, resp)
      PROVE  ~o.succeed /\ o.errorType = "assert"
  <2>1. a \in ToSet(l) /\ a.checked
    BY <1>4, <1>9 DEF Carries, IsPlain
  <2>2. Refuted /\ v.isAssert
    BY <1>6, <1>9, <2>1
  <2>3. QED BY <1>6, <1>8, <2>2
<1>10. ~o.succeed => resp.error \/ Refuted
  BY <1>6, <1>8
<1> DEFINE r == Reported(g, o.succeed, o.errorType, recorded, l, resp)
<1>11. r.kind = "http" /\ r.succeed = o.succeed /\ r.errorType = o.errorType /\ r.with = l /\ r.answer = resp
  BY <1>2 DEF Reported
<1> HIDE DEF r
<1>12. Counted(Current(g), r)
  BY <1>9, <1>10, <1>11 DEF Counted, stated
<1>13. QED BY <1>2, <1>7, <1>12 DEF r, l

\* What a step must leave or make of each node.
LEMMA JudgedKeeps ==
  ASSUME JudgedInv, pc # "setup", UNCHANGED <<plan, pc, globals>>, DOMAIN vars' = Workers, DOMAIN result' = Nodes,
         \A h \in Nodes :
           /\ node'[h] = "sent" =>
                \/ node[h] = "sent" /\ prepared'[h] = prepared[h]
                \/ Current(h).kind = "http" /\ \E view : prepared'[h] = <<Real(Current(h), view), view>>
           /\ result'[h] = result[h] \/ Counted(Current(h), result'[h])
  PROVE  JudgedInv'
<1>1. SetUp' /\ pc' # "setup" /\ Nodes' = Nodes
  BY DEF JudgedInv, SetUp, Nodes
<1>2. \A h \in Nodes : Current(h)' = Current(h) /\ \A view : Real(Current(h), view)' = Real(Current(h), view)
  BY DEF Current, Real
<1>3. ASSUME NEW h \in Nodes, node'[h] = "sent" PROVE Sending(h)'
  <2>1. Current(h).kind = "http" /\ \E view : prepared'[h] = <<Real(Current(h), view), view>>
    BY <1>3 DEF JudgedInv, Sending
  <2>2. PICK view : prepared'[h] = <<Real(Current(h), view), view>>
    BY <2>1
  <2>3. QED BY <1>2, <2>1, <2>2 DEF Sending, Current, Real
<1>4. ASSUME NEW h \in Nodes PROVE Counted(Current(h), result[h])'
  <2>1. Counted(Current(h), result'[h])
    BY DEF JudgedInv
  <2>2. QED BY <2>1 DEF Counted, Stated, Levels, Current
<1>5. QED BY <1>1, <1>3, <1>4 DEF JudgedInv

LEMMA JudgedReport ==
  ASSUME WorkersInv, JudgedInv, NEW g \in Nodes, NEW dies, NEW after, NEW r,
         node[g] # "off", Report(g, dies, after, r), Counted(Current(g), r)
  PROVE  JudgedInv'
<1>1. g[1] \in Workers /\ g[2] \in DOMAIN plan.requests /\ g = <<g[1], g[2]>>
  BY DEF Nodes
<1>2. pc # "setup" /\ UNCHANGED <<plan, pc, globals>>
  BY <1>1, NodesRunLater DEF Report, tables
<1>3. DOMAIN vars = Workers /\ DOMAIN result = Nodes /\ DOMAIN prepared = Nodes
      /\ node \in [Nodes -> {"off", "prepare", "done"} \cup Holding]
  BY DEF JudgedInv, WorkersInv
<1>4. CASE dies
  BY <1>2, <1>3, <1>4, JudgedKeeps DEF Report
<1>5. CASE ~dies
  <2>1. /\ vars' = [vars EXCEPT ![g[1]] = after] /\ result' = [result EXCEPT ![g] = r]
        /\ prepared' = [prepared EXCEPT ![g] = <<>>] /\ node' = [node EXCEPT ![g] = "done"]
    BY <1>5 DEF Report
  <2>2. \A h \in Nodes : /\ node'[h] = "sent" => node[h] = "sent" /\ prepared'[h] = prepared[h]
                         /\ result'[h] = result[h] \/ Counted(Current(h), result'[h])
    BY <1>3, <2>1
  <2>3. QED BY <1>2, <1>3, <2>1, <2>2, JudgedKeeps
<1>6. QED BY <1>4, <1>5

LEMMA JudgedStep == WorkersInv /\ JudgedInv /\ [Next]_everything => JudgedInv'
<1> SUFFICES ASSUME WorkersInv, JudgedInv, [Next]_everything PROVE JudgedInv'
  OBVIOUS
<1>a. /\ node \in [Nodes -> {"off", "prepare", "done"} \cup Holding]
      /\ DOMAIN prepared = Nodes /\ DOMAIN vars = Workers /\ DOMAIN result = Nodes
  BY DEF WorkersInv, JudgedInv
<1>b. \A g \in Nodes : node[g] # "off" => pc # "setup"
  <2>1. \A g \in Nodes : g[1] \in Workers /\ g[2] \in DOMAIN plan.requests /\ g = <<g[1], g[2]>>
    BY DEF Nodes
  <2>2. QED BY <2>1, NodesRunLater
<1>1. CASE Setup
  <2>1. pc = "setup" /\ pc' = "run" /\ UNCHANGED <<plan, at, node, vars, prepared, result>>
    BY <1>1 DEF Setup, running
  <2>2. SetUp'
    BY <1>1 DEF Setup, SetUp
  <2>3. ASSUME NEW g \in Nodes PROVE node'[g] # "sent" /\ Counted(Current(g), result[g])'
    <3>1. node'[g] # "sent"
      BY <1>b, <2>1
    <3>2. QED BY <2>1, <3>1 DEF JudgedInv, Counted, Stated, Levels, Current
  <2>4. QED BY <2>1, <2>2, <2>3 DEF JudgedInv, Nodes
<1>2. ASSUME NEW w \in Workers, Draw(w) \/ ReadList(w) \/ WriteList(w) PROVE JudgedInv'
  <2>1. pc # "setup"
    <3>1. ReadList(w) \/ WriteList(w) => at[w] = "append"
      BY DEF ReadList, WriteList, WorkersInv
    <3>2. Draw(w) => pc = "run"
      BY DEF Draw
    <3>3. QED BY <1>2, <3>1, <3>2, NodesRunLater
  <2>2. UNCHANGED <<plan, pc, globals, node, prepared, vars, result>>
    BY <1>2 DEF Draw, ReadList, WriteList, tables, running
  <2>3. QED BY <1>a, <2>1, <2>2, JudgedKeeps
<1>3. ASSUME NEW w \in Workers, Load(w) PROVE JudgedInv'
  <2> DEFINE loaded == Loaded(list)
  <2>1. /\ at[w] = "append" /\ vars' = [vars EXCEPT ![w] = loaded] /\ StartRound(w, 1)
        /\ UNCHANGED <<plan, pc, globals, prepared, result>>
    BY <1>3 DEF Load, tables
  <2> HIDE DEF loaded
  <2>2. 1 \in 0 .. Len(plan.requests)
    BY PlanFacts DEF WorkersInv
  <2>3. \A h \in Nodes : node'[h] = "sent" => node[h] = "sent"
    BY <2>1, <2>2, StartKeeps
  <2>4. pc # "setup"
    BY <2>1, NodesRunLater
  <2>5. QED BY <1>a, <2>1, <2>3, <2>4, JudgedKeeps
<1>4. ASSUME NEW w \in Workers, NextRound(w) PROVE JudgedInv'
  <2>1. /\ at[w] = "round" /\ Unfinished(w) = {} /\ UNCHANGED <<plan, pc, globals, vars, prepared>>
        /\ result' = [g \in Nodes |-> IF g[1] = w THEN NoResult ELSE result[g]]
    BY <1>4, RoundGoesOn DEF tables
  <2>2. \E k \in 0 .. Len(plan.requests) : StartRound(w, k)
    BY <1>4, RoundGoesOn
  <2>3. \A h \in Nodes : node'[h] = "sent" => node[h] = "sent"
    BY <2>1, <2>2, StartKeeps
  <2>4. pc # "setup"
    BY <2>1, NodesRunLater
  <2>5. \A request : Counted(request, NoResult)
    BY DEF Counted, NoResult
  <2>6. \A h \in Nodes : result'[h] = result[h] \/ Counted(Current(h), result'[h])
    BY <2>1, <2>5
  <2>7. DOMAIN result' = Nodes
    BY <2>1
  <2>8. QED BY <1>a, <2>1, <2>3, <2>4, <2>6, <2>7, JudgedKeeps
<1>5. ASSUME NEW g \in Nodes, Prepare(g) PROVE JudgedInv'
  <2>1. /\ node[g] = "replace" /\ Current(g).kind = "http"
        /\ UNCHANGED <<plan, pc, globals, vars, result>>
    BY <1>5 DEF Prepare, Is, tables
  <2>2. UNCHANGED <<node, prepared>> \/ \E view : /\ node' = [node EXCEPT ![g] = "sent"]
                                                    /\ prepared' = [prepared EXCEPT ![g] = <<Real(Current(g), view), view>>]
    BY <1>5, Zenon DEF Prepare, Real
  <2>3. \A h \in Nodes :
          node'[h] = "sent" =>
            \/ node[h] = "sent" /\ prepared'[h] = prepared[h]
            \/ Current(h).kind = "http" /\ \E view : prepared'[h] = <<Real(Current(h), view), view>>
    BY <1>a, <2>1, <2>2
  <2>4. QED BY <1>a, <1>b, <2>1, <2>3, JudgedKeeps
<1>6. ASSUME NEW g \in Nodes, Respond(g) PROVE JudgedInv'
  <2>1. PICK resp \in Responses :
          LET r   == prepared[g][1]
              now == vars[g[1]]
              o   == Outcome(r, resp)
          IN Report(g, WithdrawFails(r.regex, now, resp), Withdraw(r.regex, now, resp),
                    Reported(g, o.succeed, o.errorType, Recorded(plan.debug, o.succeed), r.assert, resp))
    BY <1>6, Zenon DEF Respond
  <2>2. node[g] = "sent"
    BY <1>6 DEF Respond, Is
  <2>3. PICK r : r = LET p == prepared[g][1]
                         o == Outcome(p, resp)
                     IN Reported(g, o.succeed, o.errorType, Recorded(plan.debug, o.succeed), p.assert, resp)
    OBVIOUS
  <2>4. Counted(Current(g), r)
    BY <2>2, <2>3, AnswerIsJudged
  <2>5. \E dies, after : Report(g, dies, after, r)
    BY <2>1, <2>3
  <2>6. QED BY <2>2, <2>4, <2>5, JudgedReport
<1>7. ASSUME NEW g \in Nodes, QuerySql(g) \/ Invoke(g) PROVE JudgedInv'
  <2>1. node[g] \in {"prepare", "invoke"} /\ Current(g).kind # "http"
    BY <1>7 DEF QuerySql, Invoke, Is
  <2>2. \E dies, after, a, b, c, d, e : Report(g, dies, after, Reported(g, a, b, c, d, e))
    BY <1>7, Zenon DEF QuerySql, Invoke
  <2>3. \A a, b, c, d, e : Counted(Current(g), Reported(g, a, b, c, d, e))
    BY <2>1 DEF Counted, Reported
  <2>4. QED BY <2>1, <2>2, <2>3, JudgedReport
<1>8. ASSUME NEW g \in Nodes, Begin(g) \/ LookUp(g) \/ InitFails(g) \/ InitDubbo(g) \/ StoreReference(g)
      PROVE  JudgedInv'
  <2>1. node[g] # "off" /\ UNCHANGED <<plan, pc, globals, vars, result>>
    BY <1>8 DEF Begin, LookUp, InitFails, InitDubbo, StoreReference, Is, Move, tables
  <2>2. \E to \in {"replace", "init", "store", "invoke"} : node' = [node EXCEPT ![g] = to]
    <3>1. Begin(g) => node' = [node EXCEPT ![g] = "replace"]
      BY DEF Begin
    <3>2. LookUp(g) => node' = [node EXCEPT ![g] = IF Current(g).service \in references THEN "invoke" ELSE "init"]
      BY Zenon DEF LookUp, Move
    <3>3. InitDubbo(g) => node' = [node EXCEPT ![g] = IF Current(g).service \in references THEN "invoke" ELSE "store"]
      BY Zenon DEF InitDubbo, Move
    <3>4. InitFails(g) \/ StoreReference(g) => node' = [node EXCEPT ![g] = "invoke"]
      BY Zenon DEF InitFails, StoreReference, Move
    <3>5. QED BY <1>8, <3>1, <3>2, <3>3, <3>4
  <2>3. \A h \in Nodes \ {g} : prepared'[h] = prepared[h]
    <3>1. Begin(g) \/ LookUp(g) \/ InitDubbo(g) => \E x : prepared' = [prepared EXCEPT ![g] = x]
      BY Zenon DEF Begin, LookUp, InitDubbo
    <3>2. InitFails(g) \/ StoreReference(g) => prepared' = prepared
      BY DEF InitFails, StoreReference
    <3>3. QED BY <1>a, <1>8, <3>1, <3>2
  <2>4. \A h \in Nodes : node'[h] = "sent" => node[h] = "sent" /\ prepared'[h] = prepared[h]
    BY <1>a, <2>2, <2>3
  <2>5. QED BY <1>a, <1>b, <2>1, <2>4, JudgedKeeps
<1>9. CASE UNCHANGED everything
  <2>1. UNCHANGED <<plan, pc, globals, at, node, vars, prepared, result>>
    BY <1>9 DEF everything, tables, running
  <2>2. \A g \in Nodes : (node[g] = "sent" => Sending(g))' /\ Counted(Current(g), result[g])'
    BY <2>1 DEF JudgedInv, Sending, Current, Real, Counted, Stated, Levels
  <2>3. (IF pc = "setup" THEN \A w \in Workers : at[w] = "idle" ELSE SetUp)'
    BY <2>1 DEF JudgedInv, SetUp
  <2>4. QED BY <2>1, <2>2, <2>3 DEF JudgedInv, Nodes
<1>10. QED
  BY <1>1, <1>2, <1>3, <1>4, <1>5, <1>6, <1>7, <1>8, <1>9 DEF Next, DisposeScene, DisposeNode

LEMMA JudgedInit == Init => JudgedInv
  BY DEF Init, JudgedInv, Counted, NoResult

\* An assertion that is made at any level decides: InitReplace, SupToSub and
\* GlobalToRequest hand it down to the request, and no later one takes a failure back
\* (scene.go:120-200, request.go:59-80, request_http.go:820-860).
THEOREM VariablesAssertionsCount == Spec => []AssertionsOfEveryLevelCount
<1>1. JudgedInv => AssertionsOfEveryLevelCount
  BY DEF JudgedInv, Counted, IsPlain, Stated, AssertionsOfEveryLevelCount
<1>2. QED BY <1>1, WorkersInit, WorkersStep, JudgedInit, JudgedStep, PTL DEF Spec

-----------------------------------------------------------------------------
(* Headers                                                                 *)

\* Fields whose names are not computed.
Spelled(fields) ==
  fields \in Seq(ToSet(fields)) /\ \A f \in ToSet(fields) : IsField(f) /\ Tokens(f.key) = <<>>

LEMMA AddingKeepsNames ==
  ASSUME NEW lower, NEW upper, Spelled(lower), Spelled(upper), NEW fields
  PROVE  Spelled(AddMissing(lower, upper, fields))
<1> DEFINE S == ToSet(lower) \cup ToSet(upper)
           R == AddMissing(lower, upper, fields)
<1>1. lower \in Seq(S) /\ upper \in Seq(S)
  <2>1. \A A, B, s : s \in Seq(A) => s \in Seq(A \cup B) /\ s \in Seq(B \cup A)
    OBVIOUS
  <2>2. QED BY <2>1 DEF Spelled
<1>2. R \in Seq(S)
  <2> HIDE DEF S
  <2>1. QED BY <1>1, AddMissingMerges
<1> HIDE DEF S, R
<1>3. ToSet(R) \subseteq S /\ R \in Seq(ToSet(R))
  BY <1>2 DEF ToSet
<1>4. Spelled(R)
  BY <1>3 DEF Spelled, S
<1>5. QED BY <1>4 DEF R

LEMMA ReplacingKeepsNames ==
  ASSUME NEW g, Spelled(g.header)
  PROVE  Spelled(InitReplace(g).header)
<1> DEFINE with == Values(g)
           Field(f) == IF f.checked /\ f.value # Nil THEN [f EXCEPT !.value = Filled(@, with)] ELSE f
           l == g.header
           m == [i \in DOMAIN l |-> Field(l[i])]
<1>1. InitReplace(g).header = m
  BY DEF InitReplace, Each
<1> HIDE DEF with
<1>2. ASSUME NEW f, IsField(f) PROVE IsField(Field(f)) /\ Field(f).key = f.key
  BY <1>2 DEF IsField, IsStruct
<1> HIDE DEF Field
<1>3. DOMAIN m = 1 .. Len(l) /\ Len(l) \in Nat /\ \A i \in 1 .. Len(l) : l[i] \in ToSet(l)
  BY DEF Spelled, ToSet
<1>4. \A i \in 1 .. Len(l) : m[i] \in ToSet(m) /\ IsField(m[i]) /\ Tokens(m[i].key) = <<>>
  BY <1>2, <1>3 DEF Spelled, ToSet
<1>5. m = [i \in 1 .. Len(l) |-> m[i]]
  BY <1>3
<1> HIDE DEF m
<1>6. m \in Seq(ToSet(m))
  BY <1>3, <1>4, <1>5
<1>7. Spelled(m)
  BY <1>3, <1>4, <1>6 DEF Spelled, ToSet
<1>8. QED BY <1>1, <1>7

\* Fields behind those of the request do not replace them, unless they have their name.
LEMMA FirstFieldsWin ==
  ASSUME NEW n \in Nat, NEW k \in Nat, n <= k, NEW own, DOMAIN own = 1 .. n, NEW all, DOMAIN all = 1 .. k,
         \A i \in 1 .. n : all[i] = own[i],
         \A i \in n + 1 .. k : \A j \in 1 .. n : own[j].checked => all[i].key # own[j].key,
         NEW name \in DOMAIN SetHeader(own)
  PROVE  name \in DOMAIN SetHeader(all) /\ SetHeader(all)[name] = SetHeader(own)[name]
<1> DEFINE Counting(fields) == {i \in DOMAIN fields : fields[i].checked /\ fields[i].value # Nil}
           Of(fields) == {i \in Counting(fields) : fields[i].key = name}
<1>1. \E i \in Counting(own) : own[i].key = name
  BY DEF SetHeader, LastOf
<1>2. Of(all) = Of(own)
  <2>1. ASSUME NEW i \in Of(all) PROVE i \in Of(own)
    <3>1. i \in 1 .. n
      BY <1>1
    <3>2. QED BY <3>1
  <2>2. QED BY <2>1
<1>3. name \in DOMAIN SetHeader(all)
  BY <1>1 DEF SetHeader, LastOf
<1>4. SetHeader(own)[name] = own[Max(Of(own))].value /\ SetHeader(all)[name] = all[Max(Of(all))].value
  BY <1>1, <1>3 DEF SetHeader, LastOf
<1>5. Max(Of(own)) \in 1 .. n
  <2>1. Of(own) \in SUBSET (1 .. n) /\ Of(own) # {}
    BY <1>1
  <2> HIDE DEF Of
  <2>2. QED BY <2>1, LargestIsIn
<1> HIDE DEF Of
<1>6. QED BY <1>2, <1>3, <1>4, <1>5

\* Fields with their references replaced.
Refield(fields, with) == [i \in DOMAIN fields |-> FillField(fields[i], with)]

\* The request's own headers are in front of those that are sent.
LEMMA OwnIsSent ==
  ASSUME plan \in Plans, SetUp, NEW r, IsRequest(r), NEW with, Spelled(r.header),
         \A g \in Levels : \A f \in ToSet(g.header) : Tokens(f.key) = <<>>,
         NEW name \in DOMAIN SetHeader(Refield(r.header, with))
  PROVE  /\ name \in DOMAIN SetHeader(Real(r, with).header)
         /\ SetHeader(Real(r, with).header)[name] = SetHeader(Refield(r.header, with))[name]
<1> DEFINE g1 == InitReplace(plan.globals)
           g2 == SupToSub(g1, plan.scene)
           g3 == InitReplace(plan.api)
           g4 == SupToSub(globals, g3)
           full == GlobalToRequest(r, g4)
           l == full.header
           n == Len(r.header)
           own == [i \in DOMAIN r.header |-> FillField(r.header[i], with)]
           all == [i \in DOMAIN l |-> FillField(l[i], with)]
<1>1. \A g \in {plan.globals, plan.scene, plan.api} : Spelled(g.header)
  BY VariablesAssumption DEF IsPlan, IsGlobal, IsList, Spelled, Levels
<1>2. g2.header = AddMissing(plan.scene.header, g1.header, SameField) /\ g4.header = AddMissing(g3.header, globals.header, SameField)
  BY DEF SupToSub
<1>3. IsStruct(r, RequestFields)
  BY DEF IsRequest, RequestFields
<1>4. l = AddMissing(r.header, g4.header, SameKey) /\ Real(r, with).header = all
  <2>1. IsStruct(full, RequestFields) /\ l = AddMissing(r.header, g4.header, SameKey)
    BY <1>3, AddedParts
  <2>2. Real(r, with) = ReplaceQueryParameterizes(full, with)
    BY DEF Real
  <2>3. PICK q : q = full
    OBVIOUS
  <2>4. IsStruct(q, RequestFields) /\ Real(r, with) = ReplaceQueryParameterizes(q, with)
    BY <2>1, <2>2, <2>3
  <2>5. Refilled(Real(r, with), q, with)
    <3>1. Refilled(ReplaceQueryParameterizes(q, with), q, with)
      BY <2>4, ReplacedParts
    <3>2. QED BY <2>4, <3>1
  <2>6. Real(r, with).header = [i \in DOMAIN q.header |-> FillField(q.header[i], with)]
    BY <2>5 DEF Refilled
  <2>7. QED BY <2>1, <2>3, <2>6
<1>5. globals = InitReplace(g2)
  BY DEF SetUp
<1>6. own = Refield(r.header, with)
  BY DEF Refield
<1> HIDE DEF g1, g2, g3, g4, full
<1>7. Spelled(g1.header) /\ Spelled(g3.header)
  BY <1>1, ReplacingKeepsNames DEF g1, g3
<1>8. Spelled(g2.header)
  BY <1>1, <1>2, <1>7, AddingKeepsNames
<1>9. Spelled(globals.header)
  BY <1>5, <1>8, ReplacingKeepsNames
<1>10. Spelled(g4.header)
  BY <1>2, <1>7, <1>9, AddingKeepsNames
<1>11. Spelled(l)
  BY <1>4, <1>10, AddingKeepsNames
<1>12. PICK S : r.header \in Seq(S) /\ g4.header \in Seq(S)
  <2>1. \A A, B, s : s \in Seq(A) => s \in Seq(A \cup B) /\ s \in Seq(B \cup A)
    OBVIOUS
  <2>2. \A A, B, s, t : s \in Seq(A) /\ t \in Seq(B) => s \in Seq(A \cup B) /\ t \in Seq(A \cup B)
    BY <2>1
  <2>3. QED BY <1>10, <2>2 DEF Spelled
<1>13. l \in Seq(S) /\ Merged(l, r.header, g4.header, Len(g4.header), SameKey)
  BY <1>4, <1>12, AddMissingMerges
<1>14. n \in Nat /\ DOMAIN r.header = 1 .. n /\ Len(l) \in Nat /\ DOMAIN l = 1 .. Len(l) /\ n <= Len(l)
  BY <1>12, <1>13 DEF Merged
<1>15. \A i \in 1 .. Len(l) : all[i] = FillField(l[i], with)
  BY <1>14
<1>16. ASSUME NEW f, IsField(f), Tokens(f.key) = <<>>
       PROVE  FillField(f, with).key = f.key /\ FillField(f, with).checked = f.checked
  <2>1. Named(f.key, with) = f.key
    BY <1>16, NamedPlain
  <2>2. QED BY <1>16, <2>1 DEF FillField, IsField, IsStruct
<1>17. \A i \in 1 .. Len(l) : all[i].key = l[i].key /\ all[i].checked = l[i].checked
  <2>1. \A i \in 1 .. Len(l) : IsField(l[i]) /\ Tokens(l[i].key) = <<>>
    BY <1>11, <1>14 DEF Spelled, ToSet
  <2>2. QED BY <1>15, <1>16, <2>1
<1>18. \A i \in 1 .. n : own[i] = FillField(r.header[i], with)
  BY <1>14
<1>19. \A i \in 1 .. n : all[i] = own[i] /\ l[i] = r.header[i] /\ i \in 1 .. Len(l)
  BY <1>13, <1>14, <1>15, <1>18 DEF Merged
<1>20. \A i \in n + 1 .. Len(l) : \A j \in 1 .. n : own[j].checked => all[i].key # own[j].key
  <2> SUFFICES ASSUME NEW i \in n + 1 .. Len(l), NEW j \in 1 .. n, own[j].checked, all[i].key = own[j].key PROVE FALSE
    OBVIOUS
  <2>1. l[j].checked /\ l[i].key = l[j].key
    <3>1. i \in 1 .. Len(l)
      BY <1>14
    <3> HIDE DEF all, own, l, n
    <3>2. QED BY <1>17, <1>19, <3>1
  <2>2. j \in 1 .. i - 1
    BY <1>14
  <2>3. ~(l[j].checked /\ Agree(l[i], l[j], SameKey))
    BY <1>13, <2>2 DEF Merged
  <2>4. QED BY <2>1, <2>3 DEF Agree, SameKey
<1>21. DOMAIN own = 1 .. n /\ DOMAIN all = 1 .. Len(l) /\ name \in DOMAIN SetHeader(own)
  BY <1>6, <1>14
<1> HIDE DEF own, all, n, l
<1>22. name \in DOMAIN SetHeader(all) /\ SetHeader(all)[name] = SetHeader(own)[name]
  BY <1>14, <1>19, <1>20, <1>21, FirstFieldsWin
<1>23. QED BY <1>4, <1>6, <1>22

\* What a request sets itself is sent, under any name that is not computed: a header
\* of plan, scene or api is added behind it and only when it is not there
\* (request.go:59-80).
THEOREM VariablesOwnHeaderWins == Spec => []OwnHeaderWins
<1>1. WorkersInv /\ JudgedInv => OwnHeaderWins
  <2> SUFFICES ASSUME WorkersInv, JudgedInv, NEW g \in Nodes, node[g] = "sent",
                      \A f \in ToSet(Current(g).header) \cup UNION {ToSet(l.header) : l \in Levels} : Tokens(f.key) = <<>>,
                      NEW k \in DOMAIN SetHeader(Refield(Current(g).header, prepared[g][2]))
               PROVE  /\ k \in DOMAIN Request(prepared[g][1]).header
                      /\ Request(prepared[g][1]).header[k] =
                           SetHeader(Refield(Current(g).header, prepared[g][2]))[k]
    BY DEF OwnHeaderWins, Each, Refield
  <2>1. SetUp /\ plan \in Plans
    <3>1. g[1] \in Workers /\ g[2] \in DOMAIN plan.requests /\ g = <<g[1], g[2]>>
      BY DEF Nodes
    <3>2. QED BY <3>1, NodesRunLater DEF WorkersInv
  <2>2. prepared[g][1] = Real(Current(g), prepared[g][2]) /\ Current(g).kind = "http"
    BY DEF JudgedInv, Sending
  <2>3. IsRequest(Current(g))
    BY <2>1, <2>2, CurrentIsThere, VariablesAssumption DEF IsPlan
  <2>4. Spelled(Current(g).header) /\ \A l \in Levels : \A f \in ToSet(l.header) : Tokens(f.key) = <<>>
    BY <2>3 DEF IsRequest, IsList, Spelled
  <2>5. Request(prepared[g][1]).header = SetHeader(Real(Current(g), prepared[g][2]).header)
    BY <2>2 DEF Request
  <2>6. QED BY <2>1, <2>3, <2>4, <2>5, OwnIsSent
<1>2. QED BY <1>1, WorkersInit, WorkersStep, JudgedInit, JudgedStep, PTL DEF Spec

-----------------------------------------------------------------------------
(* What is loaded from the shared slice                                    *)

\* The variables after each one that is loaded.
Loading(v, N, V, l) ==
  /\ v \in [0 .. Len(l) -> Maps(N, V)]
  /\ v[0] = <<>>
  /\ \A k \in 1 .. Len(l) : v[k] = Store(v[k - 1], l[k])
  /\ Loaded(l) = v[Len(l)]

LEMMA LoadedSteps ==
  ASSUME NEW N, NEW V, NEW l, IsList(l), \A e \in ToSet(l) : e.key \in N /\ String(Filled(e.value, <<>>)) \in V
  PROVE  \E v : Loading(v, N, V, l)
<1> DEFINE n == Len(l)
           T == Maps(N, V)
           g == [p \in T \X (1 .. n) |-> Store(p[1], l[p[2]])]
           Table(t) == t = [s \in SUBSET DOMAIN l |->
                              IF s = {} THEN <<>> ELSE Store(t[s \ {Max(s)}], l[Max(s)])]
           table == CHOOSE t : Table(t)
<1>1. n \in Nat /\ DOMAIN l = 1 .. n /\ <<>> \in T
  BY EmptyMap DEF IsList
<1>2. ASSUME NEW v \in T, NEW i \in 1 .. n PROVE Store(v, l[i]) \in T
  <2>1. l[i] \in ToSet(l)
    BY <1>1 DEF ToSet
  <2> HIDE DEF n
  <2>2. l[i].key \in N /\ String(Filled(l[i].value, <<>>)) \in V
    BY <2>1
  <2>3. QED BY <2>2, SetMaps DEF Store
<1>3. g \in [T \X (1 .. n) -> T]
  BY <1>2
<1>4. PICK t : IsTable(t, T, <<>>, n, g)
  <2> HIDE DEF T, g, n
  <2>1. QED BY <1>1, <1>3, TableExists
<1>5. ASSUME NEW s \in SUBSET (1 .. n), s # {}
      PROVE  t[s] = Store(t[s \ {Max(s)}], l[Max(s)])
  <2> HIDE DEF T, n
  <2>1. Max(s) \in 1 .. n /\ s \ {Max(s)} \in SUBSET (1 .. n)
    BY <1>1, <1>5, LargestIsIn
  <2>2. <<t[s \ {Max(s)}], Max(s)>> \in T \X (1 .. n)
    BY <1>4, <2>1 DEF IsTable
  <2>3. QED BY <1>4, <1>5, <2>2 DEF IsTable
<1>6. Table(t)
  <2> HIDE DEF T, g, n
  <2>1. QED BY <1>1, <1>4, <1>5 DEF IsTable
<1>7. Table(table)
  <2> HIDE DEF Table
  <2>1. QED BY <1>6, Zenon
<1>8. Loaded(l) = table[DOMAIN l]
  BY Zenon DEF Loaded, FoldLeft, MapThenFoldSet
<1>9. table[{}] = <<>> /\ \A s \in SUBSET (1 .. n) : s # {} => table[s] = Store(table[s \ {Max(s)}], l[Max(s)])
  <2> HIDE DEF T, g, n, table
  <2>1. QED BY <1>1, <1>7
<1>10. Follows(table, T, <<>>, n, g)
  <2> HIDE DEF T, n, table
  <2>1. \A s \in SUBSET (1 .. n) : s # {} => Max(s) \in 1 .. n
    BY <1>1, LargestIsIn
  <2>2. QED BY <1>9, <2>1 DEF Follows
<1> DEFINE v == [k \in 0 .. n |-> table[1 .. k]]
<1>11. IsRun(v, T, <<>>, n, g)
  <2> HIDE DEF T, g, n, table
  <2>1. QED BY <1>1, <1>3, <1>10, TableRuns
<1>12. v \in [0 .. n -> T] /\ v[0] = <<>> /\ (\A k \in 1 .. n : v[k] = Store(v[k - 1], l[k]))
  <2> HIDE DEF T, n, v
  <2>1. \A k \in 1 .. n : <<v[k - 1], k>> \in T \X (1 .. n)
    BY <1>1, <1>11 DEF IsRun
  <2>2. QED BY <1>11, <2>1 DEF IsRun
<1>13. Loaded(l) = v[n]
  <2> HIDE DEF T, n, table
  <2>1. QED BY <1>1, <1>8
<1> HIDE DEF v
<1>14. Loading(v, N, V, l)
  BY <1>12, <1>13 DEF Loading
<1>15. QED BY <1>14

\* The last variable of the list that is set under the name c is d.
LastIs(l, c, d) ==
  \E j \in DOMAIN l : l[j] = d /\ \A i \in DOMAIN l : i > j /\ l[i].checked => l[i].key # c

LEMMA AppendLast ==
  ASSUME NEW l, IsList(l), NEW e, NEW c
  PROVE  /\ IsList(Append(l, e))
         /\ LastIs(Append(l, e), c, e)
         /\ \A d : LastIs(l, c, d) /\ e.key # c => LastIs(Append(l, e), c, d)
<1>1. Len(l) \in Nat /\ DOMAIN l = 1 .. Len(l) /\ l \in Seq(ToSet(l) \cup {e})
  <2>1. \A A, s : s \in Seq(A) => s \in Seq(A \cup {e})
    OBVIOUS
  <2>2. QED BY <2>1 DEF IsList
<1> DEFINE m == Append(l, e)
<1>2. /\ m \in Seq(ToSet(l) \cup {e}) /\ Len(m) = Len(l) + 1 /\ DOMAIN m = 1 .. Len(l) + 1
      /\ m[Len(l) + 1] = e /\ \A i \in 1 .. Len(l) : m[i] = l[i]
  BY <1>1, AppendProperties
<1> HIDE DEF m
<1>3. IsList(m)
  <2>1. \A i \in 1 .. Len(m) : m[i] \in ToSet(m)
    BY <1>1, <1>2 DEF ToSet
  <2>2. QED BY <1>2, <2>1 DEF IsList
<1>4. LastIs(m, c, e)
  <2>1. Len(l) + 1 \in DOMAIN m /\ \A i \in DOMAIN m : ~(i > Len(l) + 1)
    BY <1>1, <1>2
  <2>2. QED BY <1>2, <2>1 DEF LastIs
<1>5. ASSUME NEW d, LastIs(l, c, d), e.key # c PROVE LastIs(m, c, d)
  <2>1. PICK j \in DOMAIN l : l[j] = d /\ \A i \in DOMAIN l : i > j /\ l[i].checked => l[i].key # c
    BY <1>5 DEF LastIs
  <2>2. j \in DOMAIN m /\ m[j] = d
    BY <1>1, <1>2, <2>1
  <2>3. \A i \in DOMAIN m : i > j /\ m[i].checked => m[i].key # c
    BY <1>1, <1>2, <1>5, <2>1
  <2>4. QED BY <2>2, <2>3 DEF LastIs
<1>6. QED BY <1>3, <1>4, <1>5 DEF m

LEMMA LoadedLast ==
  ASSUME NEW l, IsList(l), NEW c, NEW d, LastIs(l, c, d), d.checked, d.key = c
  PROVE  c \in DOMAIN Loaded(l) /\ Loaded(l)[c] = String(Filled(d.value, <<>>))
<1> DEFINE N == {e.key : e \in ToSet(l)}
           V == {String(Filled(e.value, <<>>)) : e \in ToSet(l)}
           n == Len(l)
           x == String(Filled(d.value, <<>>))
<1>1. \A e \in ToSet(l) : e.key \in N /\ String(Filled(e.value, <<>>)) \in V
  OBVIOUS
<1> HIDE DEF N, V
<1>2. PICK v : Loading(v, N, V, l)
  BY <1>1, LoadedSteps
<1>3. n \in Nat /\ DOMAIN l = 1 .. n /\ \A i \in 1 .. n : l[i] \in ToSet(l)
  BY DEF IsList, ToSet
<1>4. /\ v \in [0 .. n -> Maps(N, V)]
      /\ \A k \in 1 .. n : v[k] = Store(v[k - 1], l[k])
      /\ Loaded(l) = v[n]
  BY <1>2 DEF Loading
<1>5. PICK j \in 1 .. n : l[j] = d /\ \A i \in 1 .. n : i > j /\ l[i].checked => l[i].key # c
  BY <1>3 DEF LastIs
<1> HIDE DEF n, x
<1> DEFINE S == {k \in 0 .. n : k >= j => c \in DOMAIN v[k] /\ v[k][c] = x}
<1>6. 0 \in S
  BY <1>3, <1>5
<1>7. ASSUME NEW k \in 1 .. n, k - 1 \in S PROVE k \in S
  <2>1. k \in 0 .. n /\ k - 1 \in 0 .. n /\ v[k - 1] \in Maps(N, V) /\ v[k] = Store(v[k - 1], l[k])
    BY <1>3, <1>4
  <2>2. l[k].key \in N /\ String(Filled(l[k].value, <<>>)) \in V
    BY <1>1, <1>3
  <2>3. CASE ~l[k].checked
    <3>1. v[k] = v[k - 1] /\ k # j
      BY <1>5, <2>1, <2>3 DEF Store
    <3>2. QED BY <1>3, <1>5, <1>7, <2>1, <3>1
  <2>4. CASE l[k].checked
    <3>1. PICK y : y = String(Filled(l[k].value, <<>>))
      OBVIOUS
    <3>0. PICK p, q : p = v[k - 1] /\ q = l[k].key
      OBVIOUS
    <3>2. v[k] = Set(p, q, y)
      BY <2>1, <2>4, <3>0, <3>1 DEF Store
    <3>3. /\ DOMAIN v[k] = DOMAIN v[k - 1] \cup {l[k].key}
          /\ v[k][l[k].key] = y
          /\ \A z \in DOMAIN v[k - 1] \ {l[k].key} : v[k][z] = v[k - 1][z]
      <4>1. /\ DOMAIN Set(p, q, y) = DOMAIN p \cup {q} /\ Set(p, q, y)[q] = y
            /\ \A z \in DOMAIN p \ {q} : Set(p, q, y)[z] = p[z]
        BY DEF Set
      <4>2. QED BY <3>0, <3>2, <4>1
    <3>4. CASE k = j
      BY <1>5, <2>1, <3>1, <3>3, <3>4 DEF x
    <3>5. CASE k > j
      <4>1. l[k].key # c
        BY <1>5, <2>4, <3>5
      <4>2. c \in DOMAIN v[k - 1] /\ v[k - 1][c] = x
        BY <1>3, <1>5, <1>7, <3>5
      <4>3. QED BY <2>1, <3>3, <4>1, <4>2
    <3>6. CASE k < j
      BY <1>3, <1>5, <2>1, <3>6
    <3>7. QED BY <1>3, <1>5, <3>4, <3>5, <3>6
  <2>5. QED BY <2>3, <2>4
<1>8. n \in S
  <2>1. \A k \in 1 .. n : k - 1 \in S => k \in S
    BY <1>7
  <2> HIDE DEF S
  <2>2. \A k \in 0 .. n : k \in S
    BY <1>3, <1>6, <2>1, UpToInduction
  <2>3. QED BY <1>3, <2>2
<1>9. QED BY <1>3, <1>4, <1>5, <1>8 DEF x

\* All variables of the plan and the scene are a list.
LEMMA VariablesAreList ==
  ASSUME NEW upper, IsList(upper.variable), NEW lower, IsList(lower.variable)
  PROVE  IsList(InitReplace(SupToSub(InitReplace(upper), lower)).variable)
<1>1. ASSUME NEW l, IsList(l) PROVE IsList(Evaluated(l))
  <2> DEFINE m == Evaluated(l)
             Value1(e) == IF e.checked THEN [e EXCEPT !.value = Filled(@, <<>>)] ELSE e
  <2>1. m = [i \in 1 .. Len(l) |-> Value1(l[i])] /\ Len(l) \in Nat
    BY <1>1 DEF Evaluated, Each, IsList
  <2> HIDE DEF Value1, m
  <2>2. DOMAIN m = 1 .. Len(l) /\ \A i \in 1 .. Len(l) : m[i] \in ToSet(m)
    BY <2>1 DEF ToSet
  <2>3. m \in [1 .. Len(l) -> ToSet(m)]
    BY <2>1, <2>2
  <2>4. QED BY <2>1, <2>3 DEF IsList, m
<1>2. ASSUME NEW a, NEW b, IsList(a), IsList(b), NEW fields PROVE IsList(AddMissing(a, b, fields))
  <2> DEFINE S == ToSet(a) \cup ToSet(b)
             R == AddMissing(a, b, fields)
  <2>1. a \in Seq(S) /\ b \in Seq(S)
    <3>1. \A A, B, s : s \in Seq(A) => s \in Seq(A \cup B) /\ s \in Seq(B \cup A)
      OBVIOUS
    <3>2. QED BY <1>2, <3>1 DEF IsList
  <2> HIDE DEF S
  <2>2. R \in Seq(S)
    BY <2>1, AddMissingMerges
  <2> HIDE DEF R
  <2>3. \A i \in 1 .. Len(R) : R[i] \in ToSet(R)
    BY <2>2 DEF ToSet
  <2>4. QED BY <2>2, <2>3 DEF IsList, R
<1>3. \A g : InitReplace(g).variable = Evaluated(g.variable)
  BY DEF InitReplace
<1>4. \A p, q : SupToSub(p, q).variable = AddMissing(q.variable, p.variable, SameKey)
  BY DEF SupToSub
<1>5. PICK g1 : g1 = InitReplace(upper)
  OBVIOUS
<1>6. PICK g2 : g2 = SupToSub(g1, lower)
  OBVIOUS
<1>7. IsList(g1.variable)
  BY <1>1, <1>3, <1>5
<1>8. IsList(g2.variable)
  BY <1>2, <1>4, <1>6, <1>7
<1>9. IsList(InitReplace(g2).variable)
  BY <1>1, <1>3, <1>8
<1>10. QED BY <1>5, <1>6, <1>9

\* An order of the columns names each of them.
LEMMA OrderNamesAll ==
  ASSUME NEW S, IsFiniteSet(S), NEW order \in SetToSeqs(S)
  PROVE  /\ order \in Seq(S) /\ DOMAIN order = 1 .. Len(order)
         /\ \A c \in S : \E i \in DOMAIN order : order[i] = c
<1> DEFINE n == Cardinality(S)
<1>1. n \in Nat
  BY FS_CardinalityType
<1>2. order \in [1 .. n -> S] /\ \A i, j \in 1 .. n : i # j => order[i] # order[j]
  BY DEF SetToSeqs
<1>3. order \in Injection(1 .. n, S)
  BY <1>2 DEF Injection, IsInjective
<1>4. Cardinality(1 .. n) = n
  BY <1>1, FS_Interval
<1>5. order \in Surjection(1 .. n, S)
  BY <1>3, <1>4, FS_Injection
<1> HIDE DEF n
<1>6. order \in Seq(S) /\ DOMAIN order = 1 .. Len(order)
  BY <1>1, <1>2
<1>7. QED BY <1>2, <1>5, <1>6 DEF Surjection

-----------------------------------------------------------------------------
(* The columns of one file                                                 *)

\* The column of a name gets one value of a line.
Appended(after, now, f, line, i) ==
  /\ f.names[i].name \in DOMAIN after
  /\ after[f.names[i].name] = Append(now[f.names[i].name], Value(line, i))

\* What the names of a file that differ get of a line.
LEMMA LineIsAppended ==
  ASSUME NEW N, NEW V, NEW f, IsList(f.names), Distinct(f), NEW line, \A x : Value(line, x) \in V,
         NEW now \in Maps(N, Seq(V)), NEW i \in DOMAIN f.names, ~f.names[i].spaced, f.names[i].name \in DOMAIN now
  PROVE  Appended(FillLine(now, f, line), now, f, line, i)
<1> DEFINE n == Len(f.names)
           c == f.names[i].name
           old == now[c]
           new == Append(old, Value(line, i))
<1>1. PICK v : Filling(v, N, V, now, f, line)
  BY FillLineSteps
<1>2. n \in Nat /\ DOMAIN f.names = 1 .. n /\ Len(Indices(f.names)) = n /\ \A k \in 1 .. n : Indices(f.names)[k] = k
  BY IndicesFacts
<1>3. /\ v \in [0 .. n -> Maps(N, Seq(V))] /\ v[0] = now
      /\ \A k \in 1 .. n : v[k] = FillName(v[k - 1], f, line, k)
      /\ FillLine(now, f, line) = v[n]
  BY <1>1, <1>2 DEF Filling
<1> DEFINE S == {k \in 0 .. n : c \in DOMAIN v[k] /\ v[k][c] = IF i <= k THEN new ELSE old}
<1>4. 0 \in S
  BY <1>2, <1>3
<1>5. ASSUME NEW k \in 1 .. n, k - 1 \in S PROVE k \in S
  <2>1. k \in 0 .. n /\ k - 1 \in 0 .. n /\ v[k] = FillName(v[k - 1], f, line, k) /\ i \in 1 .. n
    BY <1>2, <1>3
  <2>2. c \in DOMAIN v[k - 1] /\ v[k - 1][c] = IF i <= k - 1 THEN new ELSE old
    BY <1>5
  <2>3. CASE f.names[k].spaced
    <3>1. v[k] = v[k - 1] /\ k # i
      BY <2>1, <2>3 DEF FillName
    <3> HIDE DEF c, old, new, n
    <3>2. QED BY <1>2, <2>1, <2>2, <3>1
  <2>4. CASE ~f.names[k].spaced
    <3>1. v[k] = [v[k - 1] EXCEPT ![f.names[k].name] = Append(@, Value(line, k))]
      BY <2>1, <2>4 DEF FillName
    <3>2. CASE k = i
      <4>1. PICK p : p = v[k - 1]
        OBVIOUS
      <4>2. ~(i <= k - 1) /\ i <= k
        BY <1>2, <2>1, <3>2
      <4>3. c \in DOMAIN p /\ p[c] = old
        BY <2>2, <4>1, <4>2
      <4>4. v[k] = [p EXCEPT ![c] = Append(p[c], Value(line, i))]
        BY <3>1, <3>2, <4>1
      <4> HIDE DEF c, old
      <4>5. c \in DOMAIN v[k] /\ v[k][c] = new
        BY <4>3, <4>4
      <4>6. QED BY <2>1, <4>2, <4>5
    <3>3. CASE k # i
      <4>1. f.names[k].name # c
        BY <1>2, <2>1, <2>4, <3>3 DEF Distinct
      <4> DEFINE d == f.names[k].name
      <4> HIDE DEF d, c, old, new, n
      <4>2. v[k] = [v[k - 1] EXCEPT ![d] = Append(@, Value(line, k))] /\ d # c
        BY <3>1, <4>1 DEF d, c
      <4>3. c \in DOMAIN v[k] /\ v[k][c] = v[k - 1][c]
        BY <2>2, <4>2
      <4>4. QED BY <1>2, <2>1, <2>2, <3>3, <4>3
    <3>4. QED BY <3>2, <3>3
  <2>5. QED BY <2>3, <2>4
<1>6. n \in S
  <2>1. \A k \in 1 .. n : k - 1 \in S => k \in S
    BY <1>5
  <2> HIDE DEF S, n
  <2>2. \A k \in 0 .. n : k \in S
    BY <1>2, <1>4, <2>1, UpToInduction
  <2>3. QED BY <1>2, <2>2
<1>7. i <= n
  BY <1>2
<1>8. QED BY <1>3, <1>6, <1>7 DEF Appended

\* A column holds the values its lines have at a place.
HoldsValues(column, f, i) ==
  /\ IsList(column) /\ IsList(f.rows) /\ Len(column) = Len(f.rows)
  /\ \A j \in 1 .. Len(f.rows) : column[j] = Value(f.rows[j], i)

LEMMA RowsAreAppended ==
  ASSUME NEW N, NEW V, NEW f, IsList(f.names), IsList(f.rows), Distinct(f),
         \A line \in ToSet(f.rows) : \A x : Value(line, x) \in V,
         NEW now \in Maps(N, Seq(V)), NEW i \in DOMAIN f.names, ~f.names[i].spaced,
         f.names[i].name \in DOMAIN now, now[f.names[i].name] = <<>>
  PROVE  /\ f.names[i].name \in DOMAIN FillRows(now, f)
         /\ HoldsValues(FillRows(now, f)[f.names[i].name], f, i)
<1> DEFINE n == Len(f.rows)
           c == f.names[i].name
<1>1. PICK v : RowFilling(v, N, V, now, f)
  BY FillRowsSteps
<1>2. n \in Nat /\ \A k \in 1 .. n : f.rows[k] \in ToSet(f.rows)
  BY DEF IsList, ToSet
<1>3. /\ v \in [0 .. n -> Maps(N, Seq(V))] /\ v[0] = now
      /\ \A k \in 1 .. n : v[k] = FillLine(v[k - 1], f, f.rows[k])
      /\ FillRows(now, f) = v[n]
  BY <1>1 DEF RowFilling
<1> DEFINE S == {k \in 0 .. n : /\ c \in DOMAIN v[k] /\ v[k][c] \in Seq(V) /\ Len(v[k][c]) = k
                                /\ \A j \in 1 .. k : v[k][c][j] = Value(f.rows[j], i)}
<1> HIDE DEF n
<1>4. 0 \in S
  <2>1. <<>> \in Seq(V) /\ Len(<<>>) = 0 /\ 1 .. 0 = {} /\ 0 \in 0 .. n
    BY <1>2
  <2>2. c \in DOMAIN v[0] /\ v[0][c] = <<>>
    BY <1>3
  <2> HIDE DEF c
  <2>3. QED BY <2>1, <2>2
<1>5. ASSUME NEW k \in 1 .. n, k - 1 \in S PROVE k \in S
  <2>1. /\ k \in 0 .. n /\ k - 1 \in 0 .. n /\ v[k - 1] \in Maps(N, Seq(V))
        /\ v[k] = FillLine(v[k - 1], f, f.rows[k]) /\ f.rows[k] \in ToSet(f.rows)
    BY <1>2, <1>3
  <2>2. PICK p : p = v[k - 1]
    OBVIOUS
  <2>3. PICK line : line = f.rows[k]
    OBVIOUS
  <2>4. /\ c \in DOMAIN p /\ p[c] \in Seq(V) /\ Len(p[c]) = k - 1
        /\ \A j \in 1 .. k - 1 : p[c][j] = Value(f.rows[j], i)
    BY <1>5, <2>2
  <2>5. /\ p \in Maps(N, Seq(V)) /\ (\A x : Value(line, x) \in V) /\ v[k] = FillLine(p, f, line)
    BY <2>1, <2>2, <2>3
  <2>6. c \in DOMAIN v[k] /\ v[k][c] = Append(p[c], Value(line, i))
    <3>1. Appended(FillLine(p, f, line), p, f, line, i)
      BY <2>4, <2>5, LineIsAppended
    <3>2. QED BY <2>5, <3>1 DEF Appended
  <2>7. Value(line, i) \in V
    BY <2>5
  <2> HIDE DEF c
  <2>8. /\ v[k][c] \in Seq(V) /\ Len(v[k][c]) = k /\ v[k][c][k] = Value(line, i)
        /\ \A j \in 1 .. k - 1 : v[k][c][j] = p[c][j]
    <3>1. PICK s : s = p[c]
      OBVIOUS
    <3>2. /\ Append(s, Value(line, i)) \in Seq(V) /\ Len(Append(s, Value(line, i))) = Len(s) + 1
          /\ Append(s, Value(line, i))[Len(s) + 1] = Value(line, i)
          /\ \A j \in 1 .. Len(s) : Append(s, Value(line, i))[j] = s[j]
      BY <2>4, <2>7, <3>1, AppendProperties
    <3>3. QED BY <1>2, <2>4, <2>6, <3>1, <3>2
  <2>9. \A j \in 1 .. k : v[k][c][j] = Value(f.rows[j], i)
    BY <1>2, <2>3, <2>4, <2>8
  <2>10. QED BY <2>1, <2>6, <2>8, <2>9
<1>6. n \in S
  <2>1. \A k \in 1 .. n : k - 1 \in S => k \in S
    BY <1>5
  <2> HIDE DEF S
  <2>2. \A k \in 0 .. n : k \in S
    BY <1>2, <1>4, <2>1, UpToInduction
  <2>3. QED BY <1>2, <2>2
<1>7. PICK column : column = v[n][c]
  OBVIOUS
<1>8. column \in Seq(V) /\ Len(column) = n /\ \A j \in 1 .. n : column[j] = Value(f.rows[j], i)
  BY <1>6, <1>7
<1>9. IsList(column)
  <2>1. \A j \in 1 .. Len(column) : column[j] \in ToSet(column)
    BY <1>8 DEF ToSet
  <2>2. QED BY <1>8, <2>1 DEF IsList
<1>10. HoldsValues(column, f, i)
  BY <1>8, <1>9 DEF HoldsValues, n
<1>11. QED BY <1>3, <1>6, <1>7, <1>10

\* When all columns come from one file whose names differ, they hold its lines.
OneFile(files, prepositions, columns) ==
  Len(files) = 1 /\ prepositions = <<>> /\ DOMAIN columns # {} /\ Distinct(files[1]) =>
    \A i \in DOMAIN files[1].names :
      ~files[1].names[i].spaced =>
        /\ files[1].names[i].name \in DOMAIN columns
        /\ HoldsValues(columns[files[1].names[i].name], files[1], i)

LEMMA OneFileIsThere ==
  ASSUME NEW files, IsList(files), \A f \in ToSet(files) : IsFile(f),
         NEW prepositions, NEW answers,
         NEW columns, columns = AddSql(UseFile(files), SqlMap(prepositions, answers))
  PROVE  OneFile(files, prepositions, columns)
<1> SUFFICES ASSUME Len(files) = 1, prepositions = <<>>, DOMAIN columns # {}, Distinct(files[1]),
                    NEW i \in DOMAIN files[1].names, ~files[1].names[i].spaced
             PROVE  /\ files[1].names[i].name \in DOMAIN columns
                    /\ HoldsValues(columns[files[1].names[i].name], files[1], i)
  BY DEF OneFile
<1>1. PICK f : f = files[1]
  OBVIOUS
<1>2. f \in ToSet(files) /\ IsFile(f)
  <2>1. 1 \in DOMAIN files
    BY DEF IsList
  <2>2. QED BY <1>1, <2>1 DEF ToSet
<1>3. IsList(f.names) /\ IsList(f.rows)
  BY <1>2 DEF IsFile
<1>4. PICK N, V : FilesOver(files, N, V)
  BY FilesHaveValues
<1>5. /\ \A x \in ToSet(f.names) : x.name \in N
      /\ \A line \in ToSet(f.rows) : \A x : Value(line, x) \in V
  BY <1>2, <1>4 DEF FilesOver
<1>6. UseFile(files) = AddFile(<<>>, f)
  <2>1. PICK v : Using(v, N, V, files)
    BY <1>4, UseFileSteps
  <2>2. v[0] = <<>> /\ v[1] = AddFile(v[1 - 1], files[1]) /\ UseFile(files) = v[1]
    BY <2>1 DEF Using
  <2>3. QED BY <1>1, <2>2
<1>7. SqlMap(prepositions, answers) = <<>>
  <2>1. Selects({}, {}, prepositions, answers) /\ IsList(prepositions) /\ Len(prepositions) = 0
    BY DEF Selects, IsList
  <2>2. PICK v : Selecting(v, {}, {}, prepositions, answers)
    BY <2>1, SqlMapSteps
  <2>3. Len(Indices(prepositions)) = 0
    BY <2>1, IndicesFacts
  <2>4. QED BY <2>2, <2>3 DEF Selecting
<1>8. PICK now : now = UseFile(files)
  OBVIOUS
<1>9. columns = [x \in DOMAIN now |-> now[x] \o <<>>]
  <2>1. DOMAIN now \cup DOMAIN <<>> = DOMAIN now /\ \A x : x \notin DOMAIN <<>>
    OBVIOUS
  <2>2. QED BY <1>7, <1>8, <2>1 DEF AddSql
<1>10. f.checked /\ f.reached
  <2>1. DOMAIN now # {}
    BY <1>9
  <2>2. now # <<>>
    BY <2>1
  <2>3. QED BY <1>6, <1>8, <2>2 DEF AddFile
<1>11. PICK empty : empty = Columned(<<>>, f)
  OBVIOUS
<1>12. now = FillRows(empty, f)
  BY <1>6, <1>8, <1>10, <1>11 DEF AddFile
<1>13. empty \in Maps(N, Seq(V))
  BY <1>3, <1>5, <1>11, ColumnedTyped, EmptyMap
<1>14. PICK c : c = f.names[i].name
  OBVIOUS
<1>15. i \in DOMAIN f.names /\ ~f.names[i].spaced /\ Distinct(f)
  BY <1>1
<1>16. c \in DOMAIN empty /\ empty[c] = <<>>
  <2>1. f.names[i] \in ToSet(f.names)
    BY <1>15 DEF ToSet
  <2>2. c \in {x.name : x \in ToSet(f.names)}
    BY <1>14, <2>1
  <2>3. QED BY <1>11, <2>2 DEF Columned
<1>17. c \in DOMAIN now /\ HoldsValues(now[c], f, i)
  BY <1>3, <1>5, <1>12, <1>13, <1>14, <1>15, <1>16, RowsAreAppended
<1>18. now[c] \o <<>> = now[c]
  BY <1>17 DEF HoldsValues, IsList
<1>19. c \in DOMAIN columns /\ columns[c] = now[c]
  BY <1>9, <1>17, <1>18
<1>20. QED BY <1>1, <1>14, <1>17, <1>19

-----------------------------------------------------------------------------
(* What an execution starts with                                           *)

Loads(w) == Draw(w) \/ ReadList(w) \/ WriteList(w) \/ Load(w)

\* The requests of an execution leave what is drawn and appended, and until one of the
\* first round has ended they work with the variables that were loaded.
LEMMA RequestsLeave ==
  ASSUME WorkersInv, DOMAIN vars = Workers, [Next]_everything, ~Setup, \A w \in Workers : ~Loads(w)
  PROVE  /\ UNCHANGED <<plan, pc, file, index, list, kv, copy, drawn, overlapped>> /\ DOMAIN vars' = Workers
         /\ \A w \in Workers :
              /\ at'[w] = "append" => at[w] = "append"
              /\ at'[w] # "idle" => at[w] # "idle"
              /\ Fresh(w)' => Fresh(w) /\ vars'[w] = vars[w]
<1>a. at \in [Workers -> Waiting \cup {"round"}] /\ round \in [Workers -> 0 .. Len(plan.requests)]
      /\ node \in [Nodes -> {"off", "prepare", "done"} \cup Holding]
  BY DEF WorkersInv
<1>1. CASE UNCHANGED everything
  BY <1>1 DEF everything, tables, drawing, running, Fresh
<1>2. CASE \E w \in Workers : NextRound(w)
  <2>1. PICK w \in Workers : NextRound(w)
    BY <1>2
  <2>2. /\ at[w] = "round" /\ Unfinished(w) = {}
        /\ UNCHANGED <<plan, pc, file, index, list, kv, copy, drawn, overlapped, vars, prepared>>
    BY <2>1, RoundGoesOn DEF tables, drawing
  <2>3. PICK k \in 0 .. Len(plan.requests) :
          StartRound(w, k) /\ k # 1 /\ at' = [at EXCEPT ![w] = IF k = 0 THEN "idle" ELSE "round"]
    BY <2>1, RoundGoesOn
  <2>4. \A v \in Workers : (at'[v] = "append" => at[v] = "append") /\ (at'[v] # "idle" => at[v] # "idle")
    BY <1>a, <2>2, <2>3
  <2>5. ASSUME NEW v \in Workers, Fresh(v)' PROVE Fresh(v)
    <3>1. v # w /\ round'[v] = round[v]
      <4>1. round'[v] = 1 /\ round'[w] = k
        BY <2>2, <2>3, <2>5, StartKeeps DEF Fresh
      <4>2. v # w
        BY <2>3, <4>1
      <4>3. QED BY <2>2, <2>3, <4>2, StartKeeps
    <3>2. \A n \in DOMAIN plan.requests : <<v, n>> \in Nodes /\ node'[<<v, n>>] = node[<<v, n>>]
      <4>1. \A n \in DOMAIN plan.requests : <<v, n>> \in Nodes /\ <<v, n>>[1] = v
        BY DEF Nodes
      <4>2. QED BY <2>2, <2>3, <3>1, <4>1, StartKeeps
    <3>3. QED BY <2>2, <2>5, <3>1, <3>2 DEF Fresh
  <2>6. QED BY <2>2, <2>4, <2>5
<1>3. CASE \E g \in Nodes : DisposeNode(g)
  <2>1. PICK g \in Nodes : DisposeNode(g)
    BY <1>3
  <2>2. UNCHANGED <<plan, pc, file, index, list, kv, copy, drawn, overlapped, at, round>>
    BY <2>1, NodeMoves DEF tables, drawing
  <2>3. node[g] # "done"
    BY <2>1, NodeMoves DEF Holding
  <2>4. CASE UNCHANGED <<node, vars>>
    BY <2>2, <2>4 DEF Fresh
  <2>5. CASE ~UNCHANGED <<node, vars>>
    <3>1. PICK to \in Holding \cup {"done"} :
            /\ node' = [node EXCEPT ![g] = to]
            /\ to # "done" => vars' = vars
            /\ to = "done" => \E after : vars' = [vars EXCEPT ![g[1]] = after]
      BY <2>1, <2>5, NodeMoves
    <3>2. g[1] \in Workers /\ g[2] \in DOMAIN plan.requests /\ g = <<g[1], g[2]>>
      BY DEF Nodes
    <3>3. DOMAIN vars' = Workers
      BY <3>1
    <3>4. ASSUME NEW w \in Workers, Fresh(w)' PROVE Fresh(w) /\ vars'[w] = vars[w]
      <4>1. round[w] = 1 /\ \A n \in DOMAIN plan.requests : node'[<<w, n>>] # "done"
        BY <2>2, <3>4 DEF Fresh
      <4>2. \A n \in DOMAIN plan.requests : <<w, n>> \in Nodes
        BY DEF Nodes
      <4>3. \A n \in DOMAIN plan.requests : node[<<w, n>>] # "done"
        BY <1>a, <2>3, <3>1, <4>1, <4>2
      <4>4. vars'[w] = vars[w]
        <5>1. CASE to = "done"
          <6>1. node'[g] = "done"
            BY <1>a, <3>1, <5>1
          <6>2. g[1] # w
            BY <3>2, <4>1, <6>1
          <6>3. QED BY <3>1, <5>1, <6>2
        <5>2. QED BY <3>1, <5>1
      <4>5. QED BY <4>1, <4>3, <4>4 DEF Fresh
    <3>5. QED BY <2>2, <3>3, <3>4
  <2>6. QED BY <2>4, <2>5
<1>4. QED BY <1>1, <1>2, <1>3 DEF Next, DisposeScene, Loads

\* Columns of one length are at one row, and so is what an execution drew of them.
PlaceInv ==
  /\ pc = "setup" => \A w \in Workers : at[w] = "idle"
  /\ pc = "run" => OneFile(plan.files, plan.prepositions, file)
  /\ \A c, d \in Columns : Len(file[c]) = Len(file[d]) => index[c] = index[d]
  /\ DOMAIN drawn = Workers /\ DOMAIN vars = Workers
  /\ \A w \in Workers : at[w] # "idle" =>
       \A c \in Columns :
         /\ file[c] # <<>> => drawn[w][c] \in 1 .. Len(file[c])
         /\ \A d \in Columns : Len(file[c]) = Len(file[d]) => drawn[w][c] = drawn[w][d]

LEMMA PlaceStep == WorkersInv /\ RowsInv /\ DealtInv /\ PlaceInv /\ [Next]_everything => PlaceInv'
<1> SUFFICES ASSUME WorkersInv, RowsInv, DealtInv, PlaceInv, [Next]_everything PROVE PlaceInv'
  OBVIOUS
<1>1. CASE Setup
  <2>1. pc = "setup" /\ pc' = "run" /\ UNCHANGED <<plan, at, drawn, vars>> /\ index' = [c \in Columns' |-> 1]
    BY <1>1 DEF Setup, Columns, running
  <2>2. PICK answers \in {f \in [Used -> UNION {SqlAnswers(plan.prepositions[i]) : i \in Used}] :
                            \A i \in Used : f[i] \in SqlAnswers(plan.prepositions[i])} :
          file' = IF crashed' THEN <<>> ELSE AddSql(UseFile(plan.files), SqlMap(plan.prepositions, answers))
    BY <1>1 DEF Setup
  <2>3. IsList(plan.files) /\ \A f \in ToSet(plan.files) : IsFile(f)
    BY VariablesAssumption DEF WorkersInv, IsPlan
  <2>4. OneFile(plan.files, plan.prepositions, file')
    <3>1. CASE crashed'
      <4>1. DOMAIN file' = {}
        BY <2>2, <3>1
      <4>2. QED BY <4>1 DEF OneFile
    <3>2. CASE ~crashed'
      <4>1. PICK columns : columns = AddSql(UseFile(plan.files), SqlMap(plan.prepositions, answers))
        OBVIOUS
      <4>2. OneFile(plan.files, plan.prepositions, columns)
        BY <2>3, <4>1, OneFileIsThere
      <4>3. QED BY <2>2, <3>2, <4>1, <4>2
    <3>3. QED BY <3>1, <3>2
  <2>5. \A w \in Workers : at'[w] = "idle"
    BY <2>1 DEF PlaceInv
  <2>6. \A c, d \in Columns' : index'[c] = index'[d]
    BY <2>1
  <2>7. QED BY <2>1, <2>4, <2>5, <2>6 DEF PlaceInv
<1>2. ASSUME NEW w \in Workers, Draw(w) PROVE PlaceInv'
  <2> DEFINE row == [c \in Columns |-> Wrapped(c)]
  <2>1. /\ pc = "run" /\ UNCHANGED <<plan, pc, file, vars>>
        /\ index' = [c \in Columns |-> row[c] + 1]
        /\ drawn' = [drawn EXCEPT ![w] = row] /\ at' = [at EXCEPT ![w] = "append"]
    BY <1>2 DEF Draw, tables, running
  <2>2. \A c, d \in Columns : Len(file[c]) = Len(file[d]) => row[c] = row[d]
    BY DEF PlaceInv, Wrapped
  <2>3. ASSUME NEW c \in Columns, file[c] # <<>> PROVE row[c] \in 1 .. Len(file[c])
    <3>1. Len(file[c]) \in Nat /\ Len(file[c]) >= 1 /\ index[c] \in Nat \ {0} /\ index[c] <= Len(file[c]) + 1
      BY <2>3, ColumnFacts DEF RowsInv, DealtInv, ColumnInv
    <3>2. QED BY <3>1 DEF Wrapped
  <2> HIDE DEF row
  <2>4. Columns' = Columns
    BY <2>1 DEF Columns
  <2>5. \A c, d \in Columns : Len(file[c]) = Len(file[d]) => index'[c] = index'[d]
    BY <2>1, <2>2
  <2>6. ASSUME NEW v \in Workers, at'[v] # "idle", NEW c \in Columns
        PROVE  /\ file[c] # <<>> => drawn'[v][c] \in 1 .. Len(file[c])
               /\ \A d \in Columns : Len(file[c]) = Len(file[d]) => drawn'[v][c] = drawn'[v][d]
    <3>1. CASE v = w
      <4>1. drawn'[v] = row
        BY <2>1, <3>1 DEF PlaceInv
      <4>2. QED BY <2>2, <2>3, <4>1
    <3>2. CASE v # w
      <4>1. drawn'[v] = drawn[v] /\ at'[v] = at[v]
        BY <2>1, <3>2 DEF PlaceInv, WorkersInv
      <4>2. QED BY <2>6, <4>1 DEF PlaceInv
    <3>3. QED BY <3>1, <3>2
  <2>7. DOMAIN drawn' = Workers /\ DOMAIN vars' = Workers
    BY <2>1 DEF PlaceInv
  <2>8. QED BY <2>1, <2>4, <2>5, <2>6, <2>7 DEF PlaceInv
<1>3. ASSUME UNCHANGED <<plan, pc, file, index, drawn>>, DOMAIN vars' = Workers, \A w \in Workers : at'[w] # "idle" => at[w] # "idle"
      PROVE  PlaceInv'
  BY <1>3 DEF PlaceInv, Columns
<1>4. ASSUME NEW w \in Workers, ReadList(w) \/ WriteList(w) PROVE PlaceInv'
  <2>1. UNCHANGED <<plan, pc, file, index, drawn, at, vars>>
    BY <1>4 DEF ReadList, WriteList, tables, running
  <2>2. QED BY <1>3, <2>1 DEF PlaceInv
<1>5. ASSUME NEW w \in Workers, Load(w) PROVE PlaceInv'
  <2> DEFINE loaded == Loaded(list)
  <2>1. /\ UNCHANGED <<plan, pc, file, index, drawn>> /\ at[w] = "append" /\ at' = [at EXCEPT ![w] = "round"]
        /\ vars' = [vars EXCEPT ![w] = loaded]
    BY <1>5 DEF Load, tables, drawing
  <2> HIDE DEF loaded
  <2>2. DOMAIN vars' = Workers /\ \A v \in Workers : at'[v] # "idle" => at[v] # "idle"
    BY <2>1 DEF PlaceInv, WorkersInv
  <2>3. QED BY <1>3, <2>1, <2>2
<1>6. CASE ~Setup /\ \A w \in Workers : ~Loads(w)
  <2>1. DOMAIN vars = Workers
    BY DEF PlaceInv
  <2>2. QED BY <1>3, <1>6, <2>1, RequestsLeave
<1>7. QED BY <1>1, <1>2, <1>4, <1>5, <1>6 DEF Loads

LEMMA PlaceInit == Init => PlaceInv
  BY DEF Init, PlaceInv, Columns

-----------------------------------------------------------------------------
(* What an undisturbed execution appends                                   *)

\* The value of a column an execution drew, and the variable it makes of it.
DrawnOf(f, d, w, c) == IF f[c] = <<>> THEN <<>> ELSE f[c][d[w][c]]
Given(f, d, w, c) == [checked |-> TRUE, key |-> c, value |-> DrawnOf(f, d, w, c)]
AreGiven(l, f, d, w) == IsList(l) /\ \A e \in ToSet(l) : \E c \in DOMAIN f : e = Given(f, d, w, c)

\* An execution nobody disturbs is alone with the slice, and has each variable it drew
\* still to append or last in the slice.
Appends(w) ==
  ~overlapped[w] /\ at[w] = "append" =>
    /\ \A v \in Workers \ {w} : at[v] # "append"
    /\ copy[w] # <<FALSE>> => copy[w][2] = list
    /\ \A c \in Columns : Given(file, drawn, w, c) \in ToSet(kv[w]) \/ LastIs(list, c, Given(file, drawn, w, c))

\* Its first requests work with what it drew.
Starts(w) ==
  ~overlapped[w] /\ Fresh(w) =>
    \A c \in Columns : c \in DOMAIN vars[w] /\ vars[w][c] = String(Filled(DrawnOf(file, drawn, w, c), <<>>))

AppendInv ==
  /\ IsList(list) /\ DOMAIN overlapped = Workers
  /\ \A w \in Workers :
       /\ AreGiven(kv[w], file, drawn, w)
       /\ copy[w] # <<FALSE>> => IsList(copy[w][2])
       /\ Appends(w) /\ Starts(w)

\* The variables drawn, one of each column, whatever the order.
LEMMA DrawnAreGiven ==
  ASSUME IsFiniteSet(Columns), NEW row, NEW order \in SetToSeqs(Columns), NEW s, s = Drawn(row, order)
  PROVE  /\ IsList(s)
         /\ \A e \in ToSet(s) : \E c \in Columns : e = [checked |-> TRUE, key |-> c, value |-> Cell(c, row[c])]
         /\ \A c \in Columns : [checked |-> TRUE, key |-> c, value |-> Cell(c, row[c])] \in ToSet(s)
<1> DEFINE one(c) == [checked |-> TRUE, key |-> c, value |-> Cell(c, row[c])]
<1>1. /\ order \in Seq(Columns) /\ DOMAIN order = 1 .. Len(order) /\ Len(order) \in Nat
      /\ \A c \in Columns : \E i \in DOMAIN order : order[i] = c
  BY OrderNamesAll
<1>2. s = [i \in 1 .. Len(order) |-> one(order[i])]
  BY <1>1 DEF Drawn, Each
<1> HIDE DEF one
<1>3. DOMAIN s = 1 .. Len(order) /\ \A i \in 1 .. Len(order) : s[i] = one(order[i]) /\ s[i] \in ToSet(s)
  BY <1>2 DEF ToSet
<1>4. s \in [1 .. Len(order) -> ToSet(s)]
  BY <1>2, <1>3
<1>5. IsList(s)
  BY <1>1, <1>4 DEF IsList
<1>6. ASSUME NEW e \in ToSet(s) PROVE \E c \in Columns : e = one(c)
  <2>1. PICK i \in DOMAIN s : e = s[i]
    BY DEF ToSet
  <2>2. order[i] \in Columns
    BY <1>1, <1>3
  <2>3. QED BY <1>3, <2>1, <2>2
<1>7. ASSUME NEW c \in Columns PROVE one(c) \in ToSet(s)
  <2>1. PICK i \in DOMAIN order : order[i] = c
    BY <1>1
  <2>2. QED BY <1>1, <1>3, <2>1
<1>8. QED BY <1>5, <1>6, <1>7 DEF one

\* What is left to append once the first of it is.
LEMMA RestOfList ==
  ASSUME NEW s, IsList(s), s # <<>>
  PROVE  /\ IsList(Tail(s))
         /\ Head(s) \in ToSet(s)
         /\ \A e \in ToSet(Tail(s)) : e \in ToSet(s)
         /\ \A e \in ToSet(s) : e = Head(s) \/ e \in ToSet(Tail(s))
<1>1. s \in Seq(ToSet(s)) /\ Len(s) \in Nat /\ Len(s) >= 1 /\ DOMAIN s = 1 .. Len(s)
  <2>1. s \in Seq(ToSet(s))
    BY DEF IsList
  <2>2. QED BY <2>1
<1>2. PICK t : t = Tail(s)
  OBVIOUS
<1>3. Len(t) = Len(s) - 1 /\ DOMAIN t = 1 .. Len(s) - 1 /\ \A i \in 1 .. Len(s) - 1 : t[i] = s[i + 1]
  BY <1>1, <1>2
<1>4. Head(s) = s[1]
  BY <1>1
<1>5. t \in [1 .. Len(t) -> ToSet(t)]
  <2>1. t \in Seq(ToSet(s))
    BY <1>1, <1>2
  <2>2. \A i \in 1 .. Len(t) : t[i] \in ToSet(t)
    BY <1>3 DEF ToSet
  <2>3. QED BY <1>3, <2>1, <2>2
<1>6. IsList(t)
  BY <1>1, <1>3, <1>5 DEF IsList
<1>7. Head(s) \in ToSet(s)
  BY <1>1, <1>4 DEF ToSet
<1>8. \A e \in ToSet(t) : e \in ToSet(s)
  <2>1. \A i \in DOMAIN t : i + 1 \in DOMAIN s /\ t[i] = s[i + 1]
    BY <1>1, <1>3
  <2>2. QED BY <2>1 DEF ToSet
<1>9. ASSUME NEW e \in ToSet(s) PROVE e = Head(s) \/ e \in ToSet(t)
  <2>1. PICK i \in DOMAIN s : e = s[i]
    BY DEF ToSet
  <2>2. CASE i = 1
    BY <1>4, <2>1, <2>2
  <2>3. CASE i # 1
    <3>1. i - 1 \in DOMAIN t /\ t[i - 1] = s[i]
      BY <1>1, <1>3, <2>1, <2>3
    <3>2. QED BY <2>1, <3>1 DEF ToSet
  <2>4. QED BY <2>2, <2>3
<1>10. QED BY <1>2, <1>6, <1>7, <1>8, <1>9

LEMMA AppendStep == WorkersInv /\ RowsInv /\ PlaceInv /\ AppendInv /\ [Next]_everything => AppendInv'
<1> SUFFICES ASSUME WorkersInv, RowsInv, PlaceInv, AppendInv, [Next]_everything PROVE AppendInv'
  OBVIOUS
<1>a. /\ at \in [Workers -> Waiting \cup {"round"}] /\ DOMAIN round = Workers
      /\ DOMAIN drawn = Workers /\ DOMAIN vars = Workers /\ DOMAIN kv = Workers /\ DOMAIN copy = Workers
  BY DEF WorkersInv, PlaceInv
<1>b. \A w \in Workers : at[w] \in Waiting => round[w] = 0
  BY DEF WorkersInv
<1>1. CASE Setup
  <2>1. pc = "setup" /\ UNCHANGED <<at, round, kv, copy, overlapped>>
    BY <1>1 DEF Setup, running
  <2>2. PICK merged : merged = InitReplace(SupToSub(InitReplace(plan.globals), plan.scene)) /\ list' = merged.variable
    BY <1>1 DEF Setup
  <2>3. IsList(plan.globals.variable) /\ IsList(plan.scene.variable)
    BY VariablesAssumption DEF WorkersInv, IsPlan, IsGlobal
  <2>4. IsList(list')
    BY <2>2, <2>3, VariablesAreList
  <2>5. ASSUME NEW w \in Workers
        PROVE  at'[w] = "idle" /\ AreGiven(kv'[w], file', drawn', w) /\ (copy'[w] # <<FALSE>> => IsList(copy'[w][2]))
    <3>1. at[w] = "idle" /\ kv[w] = <<>>
      BY <2>1 DEF PlaceInv, WorkersInv
    <3>2. ToSet(<<>>) = {}
      BY DEF ToSet
    <3>3. IsList(<<>>)
      BY DEF IsList
    <3>4. QED BY <2>1, <3>1, <3>2, <3>3 DEF AppendInv, AreGiven
  <2>6. \A w \in Workers : Appends(w)' /\ Starts(w)'
    <3> SUFFICES ASSUME NEW w \in Workers PROVE Appends(w)' /\ Starts(w)'
      OBVIOUS
    <3>1. at[w] = "idle" /\ at'[w] = "idle"
      BY <2>1, <2>5
    <3>2. round'[w] = 0
      BY <1>b, <2>1, <3>1 DEF Waiting
    <3>3. ~Fresh(w)'
      BY <3>2 DEF Fresh
    <3>4. QED BY <3>1, <3>3 DEF Appends, Starts
  <2>7. QED BY <2>1, <2>4, <2>5, <2>6 DEF AppendInv
<1>2. ASSUME NEW w \in Workers, Draw(w) PROVE AppendInv'
  <2>0. PICK row : row = [c \in Columns |-> Wrapped(c)]
    OBVIOUS
  <2> DEFINE busy == {v \in Workers : at[v] = "append"}
  <2>1. /\ at[w] = "idle" /\ UNCHANGED <<plan, file, list, copy, vars, round, node>>
        /\ drawn' = [drawn EXCEPT ![w] = row] /\ at' = [at EXCEPT ![w] = "append"]
        /\ overlapped' = [v \in Workers |-> IF v = w THEN busy # {} ELSE overlapped[v] \/ v \in busy]
    BY <1>2, <2>0 DEF Draw, tables, running
  <2>2. PICK order \in SetToSeqs(Columns) : kv' = [kv EXCEPT ![w] = Drawn(row, order)]
    BY <1>2, <2>0 DEF Draw
  <2>3. PICK s : s = Drawn(row, order)
    OBVIOUS
  <2>4. /\ IsList(s)
        /\ \A e \in ToSet(s) : \E c \in Columns : e = [checked |-> TRUE, key |-> c, value |-> Cell(c, row[c])]
        /\ \A c \in Columns : [checked |-> TRUE, key |-> c, value |-> Cell(c, row[c])] \in ToSet(s)
    BY <2>3, DrawnAreGiven DEF RowsInv
  <2>5. kv'[w] = s /\ drawn'[w] = row /\ at'[w] = "append"
    BY <1>a, <2>1, <2>2, <2>3
  <2>6. Columns' = Columns /\ \A c \in Columns : Given(file', drawn', w, c) = [checked |-> TRUE, key |-> c, value |-> Cell(c, row[c])]
    <3>1. Columns' = Columns
      BY <2>1 DEF Columns
    <3>2. \A c \in Columns : DrawnOf(file', drawn', w, c) = Cell(c, row[c])
      BY <2>1, <2>5 DEF DrawnOf, Cell
    <3>3. \A c \in Columns : Given(file', drawn', w, c) = [checked |-> TRUE, key |-> c, value |-> Cell(c, row[c])]
      BY <3>2 DEF Given
    <3>4. QED BY <3>1, <3>3
  <2>7. copy'[w] = <<FALSE>>
    BY <2>1 DEF WorkersInv
  <2>8. Appends(w)'
    <3>1. ~overlapped'[w] => \A v \in Workers \ {w} : at'[v] # "append"
      BY <1>a, <2>1
    <3>2. QED BY <2>4, <2>5, <2>6, <2>7, <3>1 DEF Appends
  <2>9. Starts(w)'
    BY <1>b, <2>1 DEF Starts, Fresh, Waiting
  <2>10. ASSUME NEW v \in Workers \ {w}
         PROVE  /\ AreGiven(kv'[v], file', drawn', v)
                /\ copy'[v] # <<FALSE>> => IsList(copy'[v][2])
                /\ Appends(v)' /\ Starts(v)'
    <3>1. kv'[v] = kv[v] /\ at'[v] = at[v] /\ drawn'[v] = drawn[v]
      BY <1>a, <2>1, <2>2
    <3>2. AreGiven(kv'[v], file', drawn', v) /\ \A c : DrawnOf(file', drawn', v, c) = DrawnOf(file, drawn, v, c)
      <4>1. \A c : DrawnOf(file', drawn', v, c) = DrawnOf(file, drawn, v, c)
        BY <2>1, <3>1 DEF DrawnOf
      <4>2. \A c : Given(file', drawn', v, c) = Given(file, drawn, v, c)
        BY <4>1 DEF Given
      <4>3. AreGiven(kv[v], file, drawn, v)
        BY DEF AppendInv
      <4>4. QED BY <2>1, <3>1, <4>1, <4>2, <4>3 DEF AreGiven
    <3>3. ~overlapped'[v] => ~overlapped[v] /\ at[v] # "append"
      BY <2>1
    <3>4. Appends(v)'
      BY <3>1, <3>3 DEF Appends
    <3>5. Starts(v)'
      <4>1. CASE ~overlapped[v] /\ Fresh(v)
        <5>1. \A c \in Columns : c \in DOMAIN vars[v] /\ vars[v][c] = String(Filled(DrawnOf(file, drawn, v, c), <<>>))
          BY <4>1 DEF Starts, AppendInv
        <5>2. \A c \in Columns' : c \in DOMAIN vars'[v] /\ vars'[v][c] = String(Filled(DrawnOf(file', drawn', v, c), <<>>))
          BY <2>1, <2>6, <3>2, <5>1
        <5>3. QED BY <5>2 DEF Starts
      <4>2. CASE ~(~overlapped[v] /\ Fresh(v))
        BY <2>1, <3>1, <3>3, <4>2 DEF Starts, Fresh
      <4>3. QED BY <4>1, <4>2
    <3>6. QED BY <2>1, <2>6, <3>1, <3>2, <3>4, <3>5 DEF AppendInv
  <2>11. DOMAIN overlapped' = Workers
    BY <2>1
  <2>12. AreGiven(kv'[w], file', drawn', w)
    <3>1. ASSUME NEW e \in ToSet(s) PROVE \E c \in DOMAIN file' : e = Given(file', drawn', w, c)
      <4>1. PICK c \in Columns : e = [checked |-> TRUE, key |-> c, value |-> Cell(c, row[c])]
        BY <2>4
      <4>2. c \in DOMAIN file' /\ e = Given(file', drawn', w, c)
        BY <2>6, <4>1 DEF Columns
      <4>3. QED BY <4>2
    <3>2. QED BY <2>4, <2>5, <3>1 DEF AreGiven
  <2>13. QED BY <2>1, <2>7, <2>8, <2>9, <2>10, <2>11, <2>12 DEF AppendInv
<1>3. ASSUME NEW w \in Workers, ReadList(w) PROVE AppendInv'
  <2>1. /\ copy' = [copy EXCEPT ![w] = <<TRUE, list>>]
        /\ UNCHANGED <<plan, file, list, kv, drawn, overlapped, at, vars, round, node>>
    BY <1>3 DEF ReadList, tables, running
  <2>2. Columns' = Columns
    BY <2>1 DEF Columns
  <2>3. ASSUME NEW v \in Workers
        PROVE  /\ copy'[v] # <<FALSE>> => IsList(copy'[v][2])
               /\ Appends(v)' /\ Starts(v)'
    <3>1. copy'[v] = IF v = w THEN <<TRUE, list>> ELSE copy[v]
      BY <1>a, <2>1
    <3>2. copy'[v] # <<FALSE>> => IsList(copy'[v][2])
      <4>1. CASE v = w
        BY <3>1, <4>1 DEF AppendInv
      <4>2. CASE v # w
        BY <3>1, <4>2 DEF AppendInv
      <4>3. QED BY <4>1, <4>2
    <3>3. Appends(v)'
      <4>1. copy'[v][2] = IF v = w THEN list ELSE copy[v][2]
        BY <3>1
      <4>2. CASE v = w
        BY <2>1, <2>2, <4>1, <4>2 DEF AppendInv, Appends
      <4>3. CASE v # w
        BY <2>1, <2>2, <3>1, <4>3 DEF AppendInv, Appends
      <4>4. QED BY <4>2, <4>3
    <3>4. Starts(v)'
      BY <2>1, <2>2 DEF AppendInv, Starts, Fresh
    <3>5. QED BY <3>2, <3>3, <3>4
  <2>4. QED BY <2>1, <2>2, <2>3 DEF AppendInv
<1>4. ASSUME NEW w \in Workers, WriteList(w) PROVE AppendInv'
  <2>1. PICK s, l : s = kv[w] /\ l = copy[w][2]
    OBVIOUS
  <2>2. /\ copy[w] # <<FALSE>> /\ list' = Append(l, Head(s)) /\ kv' = [kv EXCEPT ![w] = Tail(s)]
        /\ copy' = [copy EXCEPT ![w] = <<FALSE>>]
        /\ UNCHANGED <<plan, file, drawn, overlapped, at, vars, round, node>>
    BY <1>4, <2>1 DEF WriteList, tables, running
  <2>3. s # <<>> /\ at[w] = "append" /\ AreGiven(s, file, drawn, w) /\ IsList(s) /\ IsList(l)
    BY <2>1, <2>2 DEF WorkersInv, AppendInv, AreGiven
  <2>4. Columns' = Columns
    BY <2>2 DEF Columns
  <2>5. PICK e, t : e = Head(s) /\ t = Tail(s)
    OBVIOUS
  <2>6. /\ IsList(t) /\ e \in ToSet(s)
        /\ \A x \in ToSet(t) : x \in ToSet(s)
        /\ \A x \in ToSet(s) : x = e \/ x \in ToSet(t)
    BY <2>3, <2>5, RestOfList
  <2>7. PICK c0 \in Columns : e = Given(file, drawn, w, c0)
    BY <2>3, <2>6 DEF AreGiven, Columns
  <2>8. IsList(list')
    BY <2>2, <2>3, AppendLast
  <2>9. kv'[w] = t /\ copy'[w] = <<FALSE>> /\ \A v \in Workers \ {w} : kv'[v] = kv[v] /\ copy'[v] = copy[v]
    BY <1>a, <2>2, <2>5
  <2>10. Appends(w)'
    <3> SUFFICES ASSUME ~overlapped[w]
                 PROVE  /\ \A v \in Workers \ {w} : at[v] # "append"
                        /\ \A c \in Columns : Given(file, drawn, w, c) \in ToSet(t) \/ LastIs(list', c, Given(file, drawn, w, c))
      BY <2>2, <2>3, <2>4, <2>9 DEF Appends
    <3>1. /\ \A v \in Workers \ {w} : at[v] # "append"
          /\ l = list
          /\ \A c \in Columns : Given(file, drawn, w, c) \in ToSet(s) \/ LastIs(list, c, Given(file, drawn, w, c))
      BY <2>1, <2>2, <2>3 DEF AppendInv, Appends
    <3>2. ASSUME NEW c \in Columns PROVE Given(file, drawn, w, c) \in ToSet(t) \/ LastIs(list', c, Given(file, drawn, w, c))
      <4>1. PICK d : d = Given(file, drawn, w, c)
        OBVIOUS
      <4>2. list' = Append(l, e)
        BY <2>2, <2>5
      <4>3. CASE c = c0
        <5>1. LastIs(Append(l, e), c, e)
          BY <2>3, AppendLast
        <5>2. QED BY <2>7, <4>2, <4>3, <5>1
      <4>4. CASE c # c0
        <5>1. e.key = c0 /\ d.key = c
          BY <2>7, <4>1 DEF Given
        <5>2. d # e
          BY <4>4, <5>1
        <5>3. LastIs(l, c, d) => LastIs(Append(l, e), c, d)
          BY <2>3, <4>4, <5>1, AppendLast
        <5>4. QED BY <2>6, <3>1, <4>1, <4>2, <5>2, <5>3
      <4>5. QED BY <4>3, <4>4
    <3>3. QED BY <3>1, <3>2
  <2>11. ASSUME NEW v \in Workers \ {w} PROVE Appends(v)'
    <3>1. ~overlapped[v] /\ at[v] = "append" => at[w] # "append"
      BY DEF AppendInv, Appends
    <3>2. QED BY <2>2, <2>3, <3>1 DEF Appends
  <2>12. \A v \in Workers : Starts(v)'
    BY <2>2, <2>4 DEF AppendInv, Starts, Fresh
  <2>13. ASSUME NEW v \in Workers
         PROVE  /\ AreGiven(kv'[v], file', drawn', v)
                /\ copy'[v] # <<FALSE>> => IsList(copy'[v][2])
    <3>1. CASE v = w
      <4>1. AreGiven(t, file, drawn, w)
        BY <2>3, <2>6 DEF AreGiven
      <4>2. QED BY <2>2, <2>9, <3>1, <4>1
    <3>2. CASE v # w
      BY <2>2, <2>4, <2>9, <3>2 DEF AppendInv
    <3>3. QED BY <3>1, <3>2
  <2>14. QED BY <2>2, <2>8, <2>10, <2>11, <2>12, <2>13 DEF AppendInv
<1>5. ASSUME NEW w \in Workers, Load(w) PROVE AppendInv'
  <2>1. PICK loaded : loaded = Loaded(list)
    OBVIOUS
  <2>2. /\ at[w] = "append" /\ kv[w] = <<>> /\ vars' = [vars EXCEPT ![w] = loaded]
        /\ at' = [at EXCEPT ![w] = "round"] /\ StartRound(w, 1)
        /\ UNCHANGED <<plan, file, list, kv, copy, drawn, overlapped, prepared>>
    BY <1>5, <2>1 DEF Load, tables, drawing
  <2>3. Columns' = Columns
    BY <2>2 DEF Columns
  <2>4. ASSUME ~overlapped[w], NEW c \in Columns
        PROVE  c \in DOMAIN loaded /\ loaded[c] = String(Filled(DrawnOf(file, drawn, w, c), <<>>))
    <3>1. ToSet(<<>>) = {}
      BY DEF ToSet
    <3>2. LastIs(list, c, Given(file, drawn, w, c)) /\ IsList(list)
      BY <2>2, <2>4, <3>1 DEF AppendInv, Appends
    <3>3. PICK d : d = Given(file, drawn, w, c)
      OBVIOUS
    <3>4. d.checked /\ d.key = c /\ d.value = DrawnOf(file, drawn, w, c)
      BY <3>3 DEF Given
    <3>5. c \in DOMAIN Loaded(list) /\ Loaded(list)[c] = String(Filled(d.value, <<>>))
      BY <3>2, <3>3, <3>4, LoadedLast
    <3>6. QED BY <2>1, <3>4, <3>5
  <2>5. vars'[w] = loaded /\ at'[w] = "round"
        /\ \A v \in Workers \ {w} : vars'[v] = vars[v] /\ at'[v] = at[v] /\ (Fresh(v)' => Fresh(v))
    <3>1. 1 \in 0 .. Len(plan.requests)
      BY PlanFacts DEF WorkersInv
    <3>2. ASSUME NEW v \in Workers \ {w}, Fresh(v)' PROVE Fresh(v)
      <4>1. \A n \in DOMAIN plan.requests : <<v, n>> \in Nodes /\ <<v, n>>[1] = v
        BY DEF Nodes
      <4>2. round'[v] = round[v] /\ \A n \in DOMAIN plan.requests : node'[<<v, n>>] = node[<<v, n>>]
        BY <2>2, <3>1, <4>1, StartKeeps
      <4>3. QED BY <2>2, <3>2, <4>2 DEF Fresh
    <3>3. QED BY <1>a, <2>2, <3>2
  <2>6. Starts(w)'
    BY <2>2, <2>3, <2>4, <2>5 DEF Starts
  <2>7. Appends(w)'
    BY <2>5 DEF Appends
  <2>8. ASSUME NEW v \in Workers \ {w} PROVE Appends(v)' /\ Starts(v)'
    <3>1. Appends(v)'
      <4>1. at'[v] = "append" => at[v] = "append"
        BY <2>5
      <4>2. \A u \in Workers : at'[u] = "append" => at[u] = "append"
        BY <2>5
      <4>3. QED BY <2>2, <2>3, <4>1, <4>2 DEF AppendInv, Appends
    <3>2. Starts(v)'
      BY <2>2, <2>3, <2>5 DEF AppendInv, Starts
    <3>3. QED BY <3>1, <3>2
  <2>9. \A v \in Workers : Appends(v)' /\ Starts(v)'
    BY <2>6, <2>7, <2>8
  <2>10. QED BY <2>2, <2>3, <2>9 DEF AppendInv
<1>6. CASE ~Setup /\ \A w \in Workers : ~Loads(w)
  <2>1. /\ UNCHANGED <<file, list, kv, copy, drawn, overlapped>>
        /\ \A w \in Workers :
             /\ at'[w] = "append" => at[w] = "append"
             /\ Fresh(w)' => Fresh(w) /\ vars'[w] = vars[w]
    BY <1>6, <1>a, RequestsLeave
  <2>2. Columns' = Columns
    BY <2>1 DEF Columns
  <2>3. ASSUME NEW w \in Workers PROVE Appends(w)' /\ Starts(w)'
    <3>1. Appends(w)'
      BY <2>1, <2>2 DEF AppendInv, Appends
    <3>2. Starts(w)'
      BY <2>1, <2>2 DEF AppendInv, Starts
    <3>3. QED BY <3>1, <3>2
  <2>4. QED BY <2>1, <2>2, <2>3 DEF AppendInv
<1>7. QED BY <1>1, <1>2, <1>3, <1>4, <1>5, <1>6 DEF Loads

LEMMA AppendInit == Init => AppendInv
<1> SUFFICES ASSUME Init PROVE AppendInv
  OBVIOUS
<1>1. IsList(<<>>) /\ ToSet(<<>>) = {}
  BY DEF IsList, ToSet
<1>2. \A w \in Workers : at[w] = "idle" /\ round[w] = 0 /\ kv[w] = <<>> /\ copy[w] = <<FALSE>>
  BY DEF Init
<1>3. list = <<>> /\ DOMAIN overlapped = Workers
  BY DEF Init
<1>4. \A w \in Workers : Appends(w) /\ Starts(w)
  <2>1. ASSUME NEW w \in Workers PROVE ~Fresh(w)
    <3>1. round[w] = 0
      BY DEF Init
    <3>2. QED BY <3>1 DEF Fresh
  <2>2. QED BY <1>2, <2>1 DEF Appends, Starts
<1>5. \A w \in Workers : AreGiven(kv[w], file, drawn, w)
  BY <1>1, <1>2 DEF AreGiven
<1>6. QED BY <1>1, <1>2, <1>3, <1>4, <1>5 DEF AppendInv

\* Whatever the plan, the scene and earlier executions left in the slice, and whichever
\* order the columns are ranged over, an execution nobody disturbed works with the row
\* it drew, one line of the file when there is one file: every column of one length is
\* at one row, and the last of the variables of a name counts (file.go:38-88, link.go:25-49).
THEOREM VariablesUndisturbedSceneHasItsRow == Spec => []UndisturbedSceneHasItsRow
<1>1. WorkersInv /\ RowsInv /\ PlaceInv /\ AppendInv => UndisturbedSceneHasItsRow
  <2> SUFFICES ASSUME WorkersInv, RowsInv, PlaceInv, AppendInv,
                      NEW w \in Workers, Fresh(w), ~overlapped[w]
               PROVE  /\ \A c \in Columns : c \in DOMAIN vars[w] /\ vars[w][c] = String(Filled(Cell(c, drawn[w][c]), <<>>))
                      /\ (Len(plan.files) = 1 /\ plan.prepositions = <<>> /\ Columns # {}) =>
                           LET f == plan.files[1]
                           IN f.rows # <<>> /\ Distinct(f) => \E line \in ToSet(f.rows) : \A i \in DOMAIN f.names :
                                ~f.names[i].spaced =>
                                  vars[w][f.names[i].name] = String(Filled(Value(line, i), <<>>))
    BY DEF UndisturbedSceneHasItsRow
  <2>1. \A c \in Columns : c \in DOMAIN vars[w] /\ vars[w][c] = String(Filled(DrawnOf(file, drawn, w, c), <<>>))
    BY DEF AppendInv, Starts
  <2>2. \A c \in Columns : DrawnOf(file, drawn, w, c) = Cell(c, drawn[w][c])
    BY DEF DrawnOf, Cell
  <2>3. ASSUME NEW f, f = plan.files[1], Len(plan.files) = 1, plan.prepositions = <<>>, Columns # {},
               f.rows # <<>>, Distinct(f)
        PROVE  \E line \in ToSet(f.rows) : \A i \in DOMAIN f.names :
                 ~f.names[i].spaced => vars[w][f.names[i].name] = String(Filled(Value(line, i), <<>>))
    <3>1. at[w] # "idle" /\ pc = "run"
      <4>1. round[w] # 0
        BY DEF Fresh
      <4>2. at[w] # "idle"
        BY <4>1 DEF WorkersInv, Waiting
      <4>3. QED BY <4>2 DEF PlaceInv, WorkersInv
    <3>2. ASSUME NEW i \in DOMAIN f.names, ~f.names[i].spaced
          PROVE  /\ f.names[i].name \in Columns
                 /\ HoldsValues(file[f.names[i].name], f, i)
      BY <2>3, <3>1, <3>2 DEF PlaceInv, OneFile, Columns
    <3>3. IsList(f.rows) /\ Len(f.rows) \in Nat /\ Len(f.rows) >= 1 /\ DOMAIN f.rows = 1 .. Len(f.rows)
      <4>1. 1 \in DOMAIN plan.files
        BY <2>3, VariablesAssumption DEF WorkersInv, IsPlan, IsList
      <4>2. IsFile(f)
        BY <2>3, <4>1, VariablesAssumption DEF WorkersInv, IsPlan, ToSet
      <4>3. IsList(f.rows)
        BY <4>2 DEF IsFile
      <4>4. f.rows \in Seq(ToSet(f.rows))
        BY <4>3 DEF IsList
      <4>5. QED BY <2>3, <4>3, <4>4
    <3>4. ASSUME NEW i \in DOMAIN f.names, ~f.names[i].spaced
          PROVE  LET c == f.names[i].name
                 IN /\ drawn[w][c] \in DOMAIN f.rows
                    /\ vars[w][c] = String(Filled(Value(f.rows[drawn[w][c]], i), <<>>))
      <4>1. PICK c : c = f.names[i].name
        OBVIOUS
      <4>2. c \in Columns /\ Len(file[c]) = Len(f.rows) /\ \A j \in 1 .. Len(f.rows) : file[c][j] = Value(f.rows[j], i)
        BY <3>2, <3>4, <4>1 DEF HoldsValues
      <4>3. file[c] # <<>>
        BY <3>3, <4>2
      <4>4. drawn[w][c] \in 1 .. Len(f.rows)
        BY <3>1, <4>2, <4>3 DEF PlaceInv
      <4>5. DrawnOf(file, drawn, w, c) = Value(f.rows[drawn[w][c]], i)
        BY <4>2, <4>3, <4>4 DEF DrawnOf
      <4>6. QED BY <2>1, <3>3, <4>1, <4>2, <4>4, <4>5
    <3>5. CASE \E i \in DOMAIN f.names : ~f.names[i].spaced
      <4>1. PICK k \in DOMAIN f.names : ~f.names[k].spaced
        BY <3>5
      <4>2. PICK row : row = drawn[w][f.names[k].name]
        OBVIOUS
      <4>3. row \in DOMAIN f.rows
        BY <3>4, <4>1, <4>2
      <4>4. ASSUME NEW i \in DOMAIN f.names, ~f.names[i].spaced
            PROVE  vars[w][f.names[i].name] = String(Filled(Value(f.rows[row], i), <<>>))
        <5>1. PICK c, d : c = f.names[i].name /\ d = f.names[k].name
          OBVIOUS
        <5>2. c \in Columns /\ d \in Columns /\ Len(file[c]) = Len(file[d])
          BY <3>2, <4>1, <4>4, <5>1 DEF HoldsValues
        <5>3. drawn[w][c] = drawn[w][d]
          BY <3>1, <5>2 DEF PlaceInv
        <5>4. vars[w][c] = String(Filled(Value(f.rows[drawn[w][c]], i), <<>>))
          BY <3>4, <4>4, <5>1
        <5>5. QED BY <4>2, <5>1, <5>3, <5>4
      <4>5. f.rows[row] \in ToSet(f.rows)
        BY <4>3 DEF ToSet
      <4>6. QED BY <4>4, <4>5
    <3>6. CASE ~\E i \in DOMAIN f.names : ~f.names[i].spaced
      <4>1. f.rows[1] \in ToSet(f.rows)
        BY <3>3 DEF ToSet
      <4>2. QED BY <3>6, <4>1
    <3>7. QED BY <3>5, <3>6
  <2>4. QED BY <2>1, <2>2, <2>3
<1>2. RowsInv => ColumnsAreRows
  BY DEF RowsInv
<1>3. QED
  BY <1>1, <1>2, WorkersInit, WorkersStep, RowsInit, RowsStep, DealtInit, DealtStep, PlaceInit, PlaceStep, AppendInit, AppendStep,
     PTL DEF Spec
=============================================================================
