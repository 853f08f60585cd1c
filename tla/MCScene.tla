------------------------------ MODULE MCScene ------------------------------
(* Scenes for the model-checking runs of SceneRun. *)
EXTENDS SceneRun, TLC

CONSTANTS a, b, c, d

\* the shapes of the graphs: a fork, a join, a chain and a diamond
Pre(f) == [n \in Node |-> IF n \in DOMAIN f THEN f[n] ELSE {}]
Fork    == Pre(b :> {a} @@ c :> {a})
Join    == Pre(c :> {a, b})
Chain   == Pre(b :> {a} @@ c :> {b})
Diamond == Pre(b :> {a} @@ c :> {a} @@ d :> {b, c})

\* the round of a node: how many predecessors in a row it has
Depth(pre) ==
  LET depth[k \in 0 .. Cardinality(Node)] ==
        [n \in Node |-> IF k = 0 \/ pre[n] = {} THEN 0
                        ELSE 1 + CHOOSE x \in {depth[k - 1][p] : p \in pre[n]} :
                                   \A p \in pre[n] : depth[k - 1][p] <= x]
  IN  depth[Cardinality(Node)]

\* d, in front of nothing, has the last round to itself
Rounds(pre) ==
  LET depth == Depth(pre)
  IN  [n \in Node |-> IF n = d THEN 1 + Highest({depth[m] : m \in Node \ {d}}) ELSE depth[n]]

Layout(shapes, types, weights, disabled) ==
  {[round |-> Rounds(p), pre |-> p, type |-> t, weight |-> w, disabled |-> x] :
     p \in shapes, t \in types, w \in weights, x \in disabled}

AtMostOne == {[n \in Node |-> n = x] : x \in {a, b, c, "nobody"}}

\* a value for each of a, b, c; the fourth node is a request of its own, behind none of them
Three(value, d0) == {[n \in Node |-> IF n = d THEN d0 ELSE f[n]] : f \in [{a, b, c} -> value]}

Small ==
  Layout({Fork, Join, Chain},
         Three({"request", "if", "wait"}, "request")
           \cup {[n \in Node |-> IF n = b THEN x ELSE "request"] : x \in {"sql", "unsupported"}},
         Three({50, 100}, 100) \cup {[n \in Node |-> IF n = a THEN 0 ELSE 100]},
         AtMostOne)

\* a diamond of a request, two conditions or pauses, and a request behind both
Branches ==
  Layout({Diamond},
         {[n \in Node |-> IF n \in {a, d} THEN "request" ELSE IF n = b THEN x ELSE y] :
            x \in {"if", "wait"}, y \in {"if", "request", "sql"}},
         [Node -> {50, 100}], AtMostOne)

Graphs == Small \cup Branches

\* a single request that seven percent of the ids should execute
Single == Layout({[n \in Node |-> {}]}, {[n \in Node |-> "request"]}, {[n \in Node |-> 7]},
                 {[n \in Node |-> FALSE]})

OneOfTwo   == {<<1, 2>>}
LastId     == {<<1, 2>>, <<2, 3>>}
\* the ids about 7 percent of 100
Edge == {<<i, 100>> : i \in 6 .. 9}

\* the products of a weight and a concurrency up to 100 that are rounded up once too often
Known == {<<28, 25>>, <<56, 25>>, <<14, 50>>, <<28, 50>>, <<56, 50>>, <<28, 75>>, <<56, 75>>,
          <<68, 75>>, <<7, 100>>, <<14, 100>>, <<28, 100>>, <<55, 100>>, <<56, 100>>}
=============================================================================
