-------------------------- MODULE MCGraphExecution --------------------------
(* Graphs of up to three nodes for TLC. *)
EXTENDS GraphExecution

Names == {"x", "w", "v1", "v2", "v3", "k", "t", "c"}

Produced == <<"v1", "v2", "v3">>

Plain(i, ins) == [inputs |-> ins, outputs |-> {Produced[i]}, branches |-> <<>>]

Read(ins, out, inner) == [inputs |-> ins, outputs |-> {out}, captured |-> inner]

\* One branch passes what it reads through a value of its own, the other one uses
\* an initializer of its own.  Every If uses the same names for them.
If(i, condition, a, b, inner) ==
  [inputs   |-> {condition},
   outputs  |-> {Produced[i]},
   branches |-> <<[initializers |-> {}, result |-> "t",
                   nodes |-> <<Read({a}, "k", {}), Read({"k"}, "t", inner)>>],
                  [initializers |-> {"c"}, result |-> "t",
                   nodes |-> <<Read({b, "c"}, "t", {})>>]>>]

Earlier(i) == {"x"} \cup {Produced[j] : j \in 1 .. i - 1}

Operators(i) == {Plain(i, ins) : ins \in (SUBSET Earlier(i)) \ {{}}}
Ifs(i)       == {If(i, n, a, Produced[1], {}) : n, a \in Earlier(i)}
NestedIfs(i) == {If(i, "x", "x", "x", {a}) : a \in Earlier(i)}

Graph(nodes, outs) ==
  [nodes |-> nodes, inputs |-> {"x"}, initializers |-> {"w"}, outputs |-> outs]

Outputs == {{"v2"}, {"v3"}, {"v1", "v3"}, {"v1", "v2", "v3"}}

Early == {If(2, "v1", a, "v1", {}) : a \in Earlier(2)}

\* The first node reads an initializer; the others are operators and Ifs.
First == {Plain(1, {"x", "w"}), If(1, "x", "x", "w", {})}

SmallGraphs ==
  {Graph(<<p, q, r>>, outs) : p \in First, q \in Operators(2) \cup Early,
                              r \in Operators(3) \cup Ifs(3), outs \in Outputs}

\* The proofs are about graphs that are well scoped and whose branches bind names
\* of their own: these are.
ASSUME SmallGraphsAreWellScoped == \A g \in SmallGraphs : WellScoped(g) /\ LocalNames(g)

PlainGraphs ==
  {Graph(<<p, q, r>>, outs) : p \in {Plain(1, {"x", "w"})}, q \in Operators(2),
                              r \in Operators(3), outs \in Outputs}

NestedGraphs ==
  {Graph(<<p, q, r>>, outs) : p \in {Plain(1, {"x"})}, q \in NestedIfs(2),
                              r \in Operators(3), outs \in Outputs}
=============================================================================
