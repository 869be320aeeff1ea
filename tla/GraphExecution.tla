--------------------------- MODULE GraphExecution ---------------------------
(***************************************************************************)
(* One run of a graph by the interpreter (interp.rs) in its execution      *)
(* environment (execution.rs).                                             *)
(*                                                                         *)
(* A run first marks the nodes that the wanted outputs need (kept_nodes, a *)
(* worklist over producers), then executes the kept nodes in order.  Each  *)
(* value is released after the node that dead_after computes to be its     *)
(* last reader.  An If executes the nodes of one of its branches, which    *)
(* read the values of the outer graph directly.  Both analyses see the     *)
(* reads of a branch, and not those of an If inside a branch.              *)
(*                                                                         *)
(* A value is where it resides and which execution produced it.  Whether a *)
(* node computes on the host or on the device, and whether a host copy is  *)
(* small enough to be memoized, is left open.                              *)
(***************************************************************************)
EXTENDS Integers, Sequences, FiniteSets

CONSTANTS
  Name,        \* the names of values
  Graphs       \* the graphs that are run

\* A graph: nodes in execution order; the names of its inputs, initializers and
\* outputs.  A node with branches is an If, and its inputs are the condition.  A
\* node of a branch that is an If itself has its own branches' reads in captured.
Step   == [inputs : SUBSET Name, outputs : SUBSET Name, captured : SUBSET Name]
Branch == [initializers : SUBSET Name, nodes : Seq(Step), result : Name]
NodeIr == [inputs : SUBSET Name, outputs : SUBSET Name, branches : Seq(Branch)]
GraphIr == [nodes : Seq(NodeIr), inputs : SUBSET Name,
            initializers : SUBSET Name, outputs : SUBSET Name]

VARIABLES
  graph,       \* the graph of this run
  wanted,      \* the outputs asked for
  phase,       \* "plan", "run", "branch", "read", "finished" or "failed"
  frontier,    \* kept_nodes: names still to be looked up
  seen,        \* kept_nodes: names ever put in the frontier
  kept,        \* kept_nodes: the marked nodes
  index,       \* the node being executed
  chosen,      \* the branch of the If being executed
  step,        \* the next node of that branch
  values,      \* ExecutionEnv.values
  memo         \* ExecutionEnv.host_cache: the execution a memoized copy is from

planVars == <<frontier, seen, kept>>
runVars  == <<index, chosen, step>>
envVars  == <<values, memo>>
vars     == <<graph, wanted, phase, planVars, runVars, envVars>>

Homes  == {"host", "owned", "borrowed"}
Never  == <<0, 0>>
Given  == <<0, 1>>
Absent == [home |-> "absent", from |-> Never]

Node(i) == graph.nodes[i]
Nodes   == 1 .. Len(graph.nodes)
IsIf(i) == Node(i).branches # <<>>

----------------------------------------------------------------------------
(* The two analyses.                                                       *)

\* Mutant: only the node's own inputs are taken for its reads.
CapturedNothing(i) == {}

\* What the branches of an If read, names of their own values included.
Captured(i) ==
  UNION {UNION {b.nodes[k].inputs : k \in 1 .. Len(b.nodes)} :
           b \in {Node(i).branches[j] : j \in 1 .. Len(Node(i).branches)}}

Reads(i) == Node(i).inputs \cup Captured(i)

\* Mutant: outputs of the graph are released like other values.
DeadWithOutputs(i) ==
  {n \in Reads(i) \ graph.initializers : \A j \in Nodes : j > i => n \notin Reads(j)}

\* Mutant: what an If captures outlives it.
DeadWithoutCaptured(i) ==
  {n \in Node(i).inputs \ (graph.outputs \cup graph.initializers) :
     \A j \in Nodes : j > i => n \notin Reads(j)}

\* dead_after: the values whose last reader is node i.
Dead(i) ==
  {n \in Reads(i) \ (graph.outputs \cup graph.initializers) :
     \A j \in Nodes : j > i => n \notin Reads(j)}

Init ==
  /\ graph \in Graphs
  /\ wanted \in (SUBSET graph.outputs) \ {{}}
  /\ phase = "plan"
  /\ frontier = wanted /\ seen = wanted /\ kept = {}
  /\ index = 1 /\ chosen = 1 /\ step = 1
  /\ \E home \in {"host", "borrowed"} :
       values = [n \in Name |-> IF n \in graph.inputs
                                  THEN [home |-> home, from |-> Given] ELSE Absent]
  /\ memo = [n \in Name |-> Never]

\* Mutant: a looked-up name keeps every node that reads it as well.
MarkReaders(n) ==
  /\ phase = "plan"
  /\ n \in frontier
  /\ kept' = kept \cup {i \in Nodes : n \in Node(i).outputs \cup Reads(i)}
  /\ frontier' = (frontier \ {n})
       \cup ((UNION {Reads(i) : i \in {j \in Nodes \ kept : n \in Node(j).outputs}}) \ seen)
  /\ seen' = seen \cup frontier'
  /\ UNCHANGED <<graph, wanted, phase, runVars, envVars>>

\* Mutant: names are put in the frontier without being recorded as seen.
MarkUnseen(n) ==
  /\ phase = "plan"
  /\ n \in frontier
  /\ \E i \in Nodes \ kept :
       /\ n \in Node(i).outputs
       /\ kept' = kept \cup {i}
       /\ frontier' = (frontier \ {n}) \cup Reads(i)
  /\ UNCHANGED <<graph, wanted, phase, seen, runVars, envVars>>

\* kept_nodes: one name of the frontier.
Mark(n) ==
  LET fresh(i) == Reads(i) \ (graph.inputs \cup graph.initializers \cup seen) IN
  /\ phase = "plan"
  /\ n \in frontier
  /\ \/ \E i \in Nodes \ kept :
          /\ n \in Node(i).outputs
          /\ kept' = kept \cup {i}
          /\ seen' = seen \cup fresh(i)
          /\ frontier' = (frontier \ {n}) \cup fresh(i)
     \/ /\ \A i \in Nodes \ kept : n \notin Node(i).outputs
        /\ frontier' = frontier \ {n}
        /\ UNCHANGED <<seen, kept>>
  /\ UNCHANGED <<graph, wanted, phase, runVars, envVars>>

Planned ==
  /\ phase = "plan"
  /\ frontier = {}
  /\ phase' = "run"
  /\ UNCHANGED <<graph, wanted, planVars, runVars, envVars>>

----------------------------------------------------------------------------
(* The environment: each operator gives values and memo after an operation *)
(* on an environment <<values, memo>>.                                     *)

Readable(n) == values[n] # Absent \/ n \in graph.initializers

\* Mutant: the memoized host copy of a rebound name is kept.
SetKeepingMemo(env, ns, value) ==
  <<[n \in Name |-> IF n \in ns THEN value ELSE env[1][n]], env[2]>>

\* set: every name of ns is rebound, its memoized copy forgotten.
Set(env, ns, value) ==
  <<[n \in Name |-> IF n \in ns THEN value ELSE env[1][n]],
    [n \in Name |-> IF n \in ns THEN Never ELSE env[2][n]]>>

\* release
Release(env, ns) == Set(env, ns, Absent)

\* move_value
MoveValue(env, from, to) == Set(Set(env, {to}, env[1][from]), {from}, Absent)

\* A value in device memory: an initializer is the session's, another one its own.
OnDevice(value) ==
  IF value = Absent THEN [home |-> "borrowed", from |-> Given]
    ELSE IF value.home = "host" THEN [home |-> "owned", from |-> value.from]
    ELSE value

\* ensure_device_dtype of all of ns.
EnsureDevice(env, ns) ==
  <<[n \in Name |-> IF n \in ns THEN OnDevice(env[1][n]) ELSE env[1][n]],
    [n \in Name |-> IF n \in ns /\ env[1][n].home \in {"absent", "host"}
                      THEN Never ELSE env[2][n]]>>

\* host of all of ns, of which those in small are memoized.
HostCopies(env, ns, small) ==
  <<env[1], [n \in Name |-> IF /\ n \in (ns \cap small) \ graph.initializers
                                /\ env[1][n].home \in {"owned", "borrowed"}
                                /\ env[2][n] = Never
                              THEN env[1][n].from ELSE env[2][n]]>>

\* exec_node of an operator: computes on the device, or on the host.
Compute(inputs, outputs, id) ==
  {Set(EnsureDevice(<<values, memo>>, inputs), outputs, [home |-> "owned", from |-> id])}
    \cup {Set(HostCopies(<<values, memo>>, inputs, small), outputs,
              [home |-> "host", from |-> id]) : small \in {{}, inputs}}

Become(env) == values' = env[1] /\ memo' = env[2]

----------------------------------------------------------------------------
(* Execution.                                                              *)

\* A node reads a value that is not there: the run ends with an error.
Fail(names) ==
  /\ \E n \in names : ~Readable(n)
  /\ phase' = "failed"
  /\ UNCHANGED <<graph, wanted, planVars, runVars, envVars>>

SkipPruned ==
  /\ phase = "run" /\ index \in Nodes \ kept
  /\ index' = index + 1
  /\ UNCHANGED <<graph, wanted, phase, planVars, chosen, step, envVars>>

ExecNode ==
  /\ phase = "run" /\ index \in kept /\ ~IsIf(index)
  /\ \/ Fail(Node(index).inputs)
     \/ /\ \A n \in Node(index).inputs : Readable(n)
        /\ \E env \in Compute(Node(index).inputs, Node(index).outputs, <<index, 0>>) :
             Become(Release(env, Dead(index)))
        /\ index' = index + 1
        /\ UNCHANGED <<graph, wanted, phase, planVars, chosen, step>>

\* if_op: reads the condition and binds the initializers of the branch taken.
EnterIf ==
  /\ phase = "run" /\ index \in kept /\ IsIf(index)
  /\ \/ Fail(Node(index).inputs)
     \/ /\ \A n \in Node(index).inputs : Readable(n)
        /\ \E j \in 1 .. Len(Node(index).branches) :
             LET names == Node(index).branches[j].initializers IN
             /\ chosen' = j
             /\ IF \E n \in names : values[n] # Absent
                  THEN phase' = "failed" /\ UNCHANGED <<step, envVars>>
                  ELSE /\ phase' = "branch"
                       /\ step' = 1
                       /\ \E small \in {{}, Node(index).inputs} :
                            Become(Set(HostCopies(<<values, memo>>, Node(index).inputs, small),
                                       names, [home |-> "host", from |-> <<index, 0>>]))
        /\ UNCHANGED <<graph, wanted, planVars, index>>

Taken == Node(index).branches[chosen]

\* exec_node of a node of the branch, an If among them.
ExecBranchNode ==
  LET node == Taken.nodes[step] IN
  /\ phase = "branch" /\ step <= Len(Taken.nodes)
  /\ \/ Fail(node.inputs \cup node.captured)
     \/ /\ \A n \in node.inputs \cup node.captured : Readable(n)
        /\ \E env \in Compute(node.inputs \cup node.captured, node.outputs, <<index, step>>) :
             Become(env)
        /\ step' = step + 1
        /\ UNCHANGED <<graph, wanted, phase, planVars, index, chosen>>

\* The end of if_op, and the releases after the node.
LeaveIf ==
  /\ phase = "branch" /\ step > Len(Taken.nodes)
  /\ \/ /\ values[Taken.result] = Absent
        /\ phase' = "failed"
        /\ UNCHANGED <<graph, wanted, planVars, runVars, envVars>>
     \/ /\ values[Taken.result] # Absent
        /\ \E to \in Node(index).outputs :
             Become(Release(Release(MoveValue(<<values, memo>>, Taken.result, to),
                                    Taken.initializers),
                            Dead(index)))
        /\ phase' = "run"
        /\ index' = index + 1
        /\ UNCHANGED <<graph, wanted, planVars, chosen, step>>

Executed ==
  /\ phase = "run" /\ index > Len(graph.nodes)
  /\ phase' = "read"
  /\ UNCHANGED <<graph, wanted, planVars, runVars, envVars>>

\* The outputs are read; then the environment is finished.
ReadOutput(n) ==
  /\ phase = "read" /\ n \in wanted
  /\ Become(HostCopies(<<values, memo>>, {n}, {n}))
  /\ UNCHANGED <<graph, wanted, phase, planVars, runVars>>

Finish ==
  /\ phase = "read"
  /\ phase' = "finished"
  /\ Become(Release(<<values, memo>>, Name))
  /\ UNCHANGED <<graph, wanted, planVars, runVars>>

Next ==
  \/ \E n \in Name : Mark(n)
  \/ Planned
  \/ SkipPruned
  \/ ExecNode
  \/ EnterIf
  \/ ExecBranchNode
  \/ LeaveIf
  \/ Executed
  \/ \E n \in Name : ReadOutput(n)
  \/ Finish

Spec == Init /\ [][Next]_vars
----------------------------------------------------------------------------
(* Type invariant.                                                         *)

Executions == {<<i, k>> : i \in 0 .. Len(graph.nodes), k \in Nat}

TypeOK ==
  /\ wanted \in SUBSET graph.outputs
  /\ phase \in {"plan", "run", "branch", "read", "finished", "failed"}
  /\ frontier \in SUBSET Name /\ seen \in SUBSET Name /\ frontier \subseteq seen
  /\ kept \in SUBSET Nodes
  /\ index \in 1 .. Len(graph.nodes) + 1 /\ chosen \in Nat /\ step \in Nat
  /\ \A n \in Name : /\ values[n] = Absent \/ values[n].home \in Homes
                     /\ memo[n][1] \in 0 .. Len(graph.nodes)

----------------------------------------------------------------------------
(* Safety.                                                                 *)

\* No kept node reads a value that was pruned away or released before it: the
\* two analyses agree with what execution reads (kept_nodes, dead_after).
NeverFails == phase # "failed"

\* Every output asked for is there to be read when the run is over (dead_after
\* releases no output, kept_nodes prunes no producer of one).
WantedPresent == phase = "read" => \A n \in wanted : Readable(n)

\* The worklist marks exactly the nodes in the smallest set that has a producer
\* of everything wanted and of everything its own nodes read (kept_nodes).
Closed(S) ==
  \A i \in Nodes :
    (\/ Node(i).outputs \cap wanted # {}
     \/ \E j \in S : Node(i).outputs \cap Reads(j) # {}) => i \in S

KeptIsNeeded ==
  phase # "plan" => kept = {i \in Nodes : \A S \in SUBSET Nodes : Closed(S) => i \in S}

\* A memoized host copy is of the value the name has now (host, set, move_value).
MemoIsCurrent ==
  \A n \in Name :
    memo[n] # Never /\ values[n].home \in {"owned", "borrowed"} => memo[n] = values[n].from

\* The live set of a full run: between nodes, a value is held only if it is an
\* output, has a reader still to come, or is read by no node at all.
LiveSetHeld ==
  phase = "run" /\ wanted = graph.outputs /\ kept = Nodes =>
    \A n \in Name : values[n].home = "owned" =>
      \/ n \in graph.outputs \cup graph.initializers
      \/ \E j \in Nodes : j >= index /\ n \in Reads(j)
      \/ \A j \in Nodes : n \notin Reads(j)
----------------------------------------------------------------------------
(* The inductive invariant of runs of well scoped graphs.                  *)

\* Names a top-level node i may read, all names of the outer graph, and those a
\* node k of the branch b of node i may read.
Outer(g, i) == g.inputs \cup g.initializers \cup UNION {g.nodes[j].outputs : j \in 1 .. i - 1}
OuterNames(g) == Outer(g, Len(g.nodes) + 1)
Inner(g, i, b, k) ==
  Outer(g, i) \cup b.initializers \cup UNION {b.nodes[l].outputs : l \in 1 .. k - 1}

BranchesOf(g) == UNION {{g.nodes[i].branches[j] : j \in 1 .. Len(g.nodes[i].branches)} :
                          i \in 1 .. Len(g.nodes)}

\* A name has one producer, nodes read what is bound before them, an If binds one
\* name, branches bind names of their own, no If stands inside a branch, and
\* outputs are produced.
WellScoped(g) ==
  /\ g \in GraphIr
  /\ \A i, j \in 1 .. Len(g.nodes) : i # j => g.nodes[i].outputs \cap g.nodes[j].outputs = {}
  /\ \A i \in 1 .. Len(g.nodes) :
       /\ g.nodes[i].inputs \subseteq Outer(g, i)
       /\ g.nodes[i].outputs \cap (g.inputs \cup g.initializers) = {}
       /\ g.nodes[i].branches # <<>> => \E n \in Name : g.nodes[i].outputs = {n}
       /\ \A j \in 1 .. Len(g.nodes[i].branches) :
            LET b == g.nodes[i].branches[j] IN
            /\ \A k \in 1 .. Len(b.nodes) : /\ b.nodes[k].inputs \subseteq Inner(g, i, b, k)
                                           /\ b.nodes[k].captured = {}
            /\ b.result \in Inner(g, i, b, Len(b.nodes) + 1) \ Outer(g, i)
  /\ \A b \in BranchesOf(g) :
       /\ b.initializers \cap OuterNames(g) = {}
       /\ b.result \notin OuterNames(g)
       /\ \A k \in 1 .. Len(b.nodes) : b.nodes[k].outputs \cap OuterNames(g) = {}
       /\ \A c \in BranchesOf(g) : \A k \in 1 .. Len(b.nodes) :
            b.nodes[k].outputs \cap c.initializers = {}
  /\ g.outputs \subseteq OuterNames(g)

\* The names of branches are their own: what a node of a branch binds, if nodes of
\* branches read it, is read in the If that binds it (and perhaps in others).
ReadInside(g, i, n) ==
  \E b \in {g.nodes[i].branches[j] : j \in 1 .. Len(g.nodes[i].branches)} :
    \E k \in 1 .. Len(b.nodes) : n \in b.nodes[k].inputs

LocalNames(g) ==
  \A i, j \in 1 .. Len(g.nodes) :
    \A b \in {g.nodes[i].branches[c] : c \in 1 .. Len(g.nodes[i].branches)} :
      \A k \in 1 .. Len(b.nodes) : \A n \in b.nodes[k].outputs :
        ReadInside(g, j, n) => ReadInside(g, i, n)

\* What has been looked up has its producer kept, what is kept has its reads
\* looked up.
WorklistInv ==
  /\ kept \subseteq Nodes /\ wanted \subseteq seen /\ frontier \subseteq seen
  /\ \A n \in seen, i \in Nodes : n \in Node(i).outputs => i \in kept \/ n \in frontier
  /\ \A i \in kept : Reads(i) \subseteq graph.inputs \cup graph.initializers \cup seen
  /\ phase # "plan" => frontier = {}

\* Read at node i or after it, or by the host at the end.
NeededFrom(i, n) == n \in graph.outputs \/ \E j \in Nodes : j >= i /\ n \in Reads(j)

\* What is bound before node i: the inputs, and the outputs of kept nodes.
BoundBefore(i, n) ==
  n \in graph.inputs \/ \E j \in kept : j < i /\ n \in Node(j).outputs

AvailableInv ==
  phase \in {"plan", "run", "branch", "read"} =>
    \A n \in Name : BoundBefore(index, n) /\ NeededFrom(index, n) => values[n] # Absent

\* Inside an If, what the branch has bound so far is there.
BranchInv ==
  phase = "branch" =>
    /\ index \in kept /\ chosen \in 1 .. Len(Node(index).branches)
    /\ step \in 1 .. Len(Taken.nodes) + 1
    /\ \A n \in Taken.initializers : values[n] # Absent
    /\ \A k \in 1 .. Len(Taken.nodes) : k < step =>
         \A n \in Taken.nodes[k].outputs : values[n] # Absent

\* The initializers of branches are bound only inside their branch.
ShadowInv ==
  phase \in {"plan", "run", "branch"} =>
    \A b \in BranchesOf(graph) : \A n \in b.initializers :
      values[n] = Absent \/ (phase = "branch" /\ n \in Taken.initializers)

\* Memory of the run's own is held only where a value is needed, inside a branch
\* by an initializer of it besides.
Warranted(i, n) ==
  \/ n \in graph.outputs \cup graph.initializers
  \/ \E j \in Nodes : j >= i /\ n \in Reads(j)
  \/ \A j \in Nodes : n \notin Reads(j)

HeldInv ==
  phase \in {"run", "branch"} /\ kept = Nodes =>
    \A n \in Name : values[n].home = "owned" =>
      Warranted(index, n) \/ (phase = "branch" /\ n \in Taken.initializers)

RunInv ==
  /\ wanted \subseteq graph.outputs
  /\ phase \in {"plan", "run", "branch", "read", "finished"}
  /\ index \in 1 .. Len(graph.nodes) + 1
  /\ phase = "plan" => index = 1
  /\ phase = "read" => index = Len(graph.nodes) + 1
  /\ WorklistInv /\ AvailableInv /\ BranchInv /\ ShadowInv
=============================================================================
