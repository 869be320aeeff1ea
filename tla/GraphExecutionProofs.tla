------------------------ MODULE GraphExecutionProofs ------------------------
(***************************************************************************)
(* Runs of well scoped graphs of any size: no node reads a value that is   *)
(* not there, every wanted output is, no more is kept than is needed, and  *)
(* no memoized host copy is stale.                                         *)
(***************************************************************************)
EXTENDS GraphExecution, TLAPS

WellScopedGraphs == \A g \in Graphs : WellScoped(g)

Scoped == graph \in Graphs /\ WellScoped(graph)

----------------------------------------------------------------------------
(* What well scoped graphs look like.                                      *)

LEMMA GraphTypes ==
  ASSUME Scoped
  PROVE  /\ Nodes = 1 .. Len(graph.nodes) /\ Len(graph.nodes) \in Nat
         /\ graph.inputs \subseteq Name /\ graph.initializers \subseteq Name
         /\ graph.outputs \subseteq Name
         /\ \A i \in Nodes : Node(i) \in NodeIr
<1>1. graph \in GraphIr
  BY DEF Scoped, WellScoped
<1>2. graph.nodes \in Seq(NodeIr)
  BY <1>1 DEF GraphIr
<1> QED BY <1>1, <1>2 DEF GraphIr, Nodes, Node

LEMMA NodeTypes ==
  ASSUME Scoped, NEW i \in Nodes
  PROVE  /\ Node(i).inputs \subseteq Name /\ Node(i).outputs \subseteq Name
         /\ Node(i).branches \in Seq(Branch)
         /\ Reads(i) \subseteq Name
         /\ Node(i).inputs \subseteq Reads(i)
<1>1. Node(i) \in NodeIr
  BY GraphTypes
<1>2. Node(i).branches \in Seq(Branch)
  BY <1>1 DEF NodeIr
<1>3. Captured(i) \subseteq Name
  <2> SUFFICES ASSUME NEW j \in 1 .. Len(Node(i).branches),
                      NEW k \in 1 .. Len(Node(i).branches[j].nodes)
               PROVE  Node(i).branches[j].nodes[k].inputs \subseteq Name
    BY DEF Captured
  <2>1. Node(i).branches[j] \in Branch
    BY <1>2
  <2>2. Node(i).branches[j].nodes \in Seq(Step)
    BY <2>1 DEF Branch
  <2>3. Node(i).branches[j].nodes[k] \in Step
    BY <2>2
  <2> QED BY <2>3 DEF Step
<1> QED BY <1>1, <1>2, <1>3 DEF NodeIr, Reads

\* The reads of the nodes of a branch count as reads of the If.
LEMMA BranchReads ==
  ASSUME Scoped, NEW i \in Nodes, NEW j \in 1 .. Len(Node(i).branches),
         NEW k \in 1 .. Len(Node(i).branches[j].nodes)
  PROVE  Node(i).branches[j].nodes[k].inputs \subseteq Reads(i)
BY DEF Captured, Reads

LEMMA OneProducer ==
  ASSUME Scoped, NEW i \in Nodes, NEW j \in Nodes, NEW n,
         n \in Node(i).outputs, n \in Node(j).outputs
  PROVE  i = j
BY DEF Scoped, WellScoped, Nodes, Node

LEMMA OutputsAreNew ==
  ASSUME Scoped, NEW i \in Nodes
  PROVE  /\ Node(i).outputs \cap (graph.inputs \cup graph.initializers) = {}
         /\ Node(i).inputs \subseteq Outer(graph, i)
         /\ IsIf(i) => \E n \in Name : Node(i).outputs = {n}
BY DEF Scoped, WellScoped, Nodes, Node, IsIf

\* The names of the outer graph.
LEMMA OuterIsOuter ==
  ASSUME Scoped
  PROVE  /\ graph.inputs \subseteq OuterNames(graph)
         /\ graph.initializers \subseteq OuterNames(graph)
         /\ graph.outputs \subseteq OuterNames(graph)
         /\ \A i \in Nodes : /\ Node(i).outputs \subseteq OuterNames(graph)
                             /\ Outer(graph, i) \subseteq OuterNames(graph)
         /\ \A n \in OuterNames(graph) :
              \/ n \in graph.inputs \cup graph.initializers
              \/ \E i \in Nodes : n \in Node(i).outputs
<1>1. graph.outputs \subseteq OuterNames(graph)
  BY DEF Scoped, WellScoped
<1>2. Len(graph.nodes) \in Nat
  BY GraphTypes
<1>3. OuterNames(graph) = graph.inputs \cup graph.initializers
                            \cup UNION {graph.nodes[j].outputs : j \in 1 .. Len(graph.nodes)}
  <2>1. (Len(graph.nodes) + 1) - 1 = Len(graph.nodes)
    BY <1>2
  <2> QED BY <2>1 DEF OuterNames, Outer
<1>4. \A i \in Nodes : Outer(graph, i) \subseteq OuterNames(graph)
  <2> SUFFICES ASSUME NEW i \in Nodes PROVE Outer(graph, i) \subseteq OuterNames(graph)
    OBVIOUS
  <2>1. 1 .. i - 1 \subseteq 1 .. Len(graph.nodes)
    BY <1>2 DEF Nodes
  <2> QED BY <2>1, <1>3 DEF Outer
<1> QED BY <1>1, <1>3, <1>4 DEF Nodes, Node

\* What an outer name available to node i is.
LEMMA OuterBefore ==
  ASSUME Scoped, NEW i \in Nodes, NEW n \in Outer(graph, i)
  PROVE  \/ n \in graph.inputs \cup graph.initializers
         \/ \E j \in Nodes : j < i /\ n \in Node(j).outputs
<1>1. \A j \in 1 .. i - 1 : j \in Nodes /\ j < i
  BY GraphTypes DEF Nodes
<1> QED BY <1>1 DEF Outer, Node

\* What well scoped branches look like.
LEMMA BranchScope ==
  ASSUME Scoped, NEW i \in Nodes, NEW j \in 1 .. Len(Node(i).branches),
         NEW b, b = Node(i).branches[j]
  PROVE  /\ b \in BranchesOf(graph)
         /\ Len(b.nodes) \in Nat
         /\ b.initializers \subseteq Name /\ b.result \in Name
         /\ \A k \in 1 .. Len(b.nodes) : /\ b.nodes[k].inputs \subseteq Inner(graph, i, b, k)
                                         /\ b.nodes[k].captured = {}
                                         /\ b.nodes[k].inputs \subseteq Name
                                         /\ b.nodes[k].outputs \subseteq Name
         /\ b.result \in Inner(graph, i, b, Len(b.nodes) + 1)
         /\ b.result \notin OuterNames(graph)
         /\ b.initializers \cap OuterNames(graph) = {}
         /\ \A k \in 1 .. Len(b.nodes) : b.nodes[k].outputs \cap OuterNames(graph) = {}
<1>1. b \in BranchesOf(graph)
  BY DEF BranchesOf, Node, Nodes
<1>2. b \in Branch
  BY NodeTypes
<1>3. b.nodes \in Seq(Step)
  BY <1>2 DEF Branch
<1>4. \A k \in 1 .. Len(b.nodes) : b.nodes[k] \in Step
  BY <1>3
<1>5. /\ \A k \in 1 .. Len(b.nodes) : /\ b.nodes[k].inputs \subseteq Inner(graph, i, b, k)
                                       /\ b.nodes[k].captured = {}
      /\ b.result \in Inner(graph, i, b, Len(b.nodes) + 1)
  BY DEF Scoped, WellScoped, Node, Nodes
<1>6. /\ b.result \notin OuterNames(graph)
      /\ b.initializers \cap OuterNames(graph) = {}
      /\ \A k \in 1 .. Len(b.nodes) : b.nodes[k].outputs \cap OuterNames(graph) = {}
  BY <1>1 DEF Scoped, WellScoped
<1> QED BY <1>1, <1>2, <1>3, <1>4, <1>5, <1>6 DEF Branch, Step

\* The initializers of branches are no names of the outer graph and no outputs of
\* nodes of a branch.
LEMMA InitializersAreInner ==
  ASSUME Scoped, NEW b \in BranchesOf(graph)
  PROVE  /\ b.initializers \subseteq Name
         /\ b.initializers \cap OuterNames(graph) = {}
         /\ \A c \in BranchesOf(graph) : \A k \in 1 .. Len(c.nodes) :
              c.nodes[k].outputs \cap b.initializers = {}
<1>1. PICK i \in Nodes : \E j \in 1 .. Len(Node(i).branches) : b = Node(i).branches[j]
  BY DEF BranchesOf, Node, Nodes
<1>2. b.initializers \subseteq Name
  BY <1>1, BranchScope
<1> QED BY <1>2 DEF Scoped, WellScoped

----------------------------------------------------------------------------
(* The environment.                                                        *)

\* An operator binds its outputs, makes nothing absent, and binds nothing else
\* but what it reads.
LEMMA ComputeBinds ==
  ASSUME NEW ins \in SUBSET Name, NEW outs \in SUBSET Name, NEW id,
         NEW env \in Compute(ins, outs, id), NEW n \in Name
  PROVE  /\ values[n] # Absent \/ n \in outs => env[1][n] # Absent
         /\ values[n] = Absent /\ n \notin ins \cup outs => env[1][n] = Absent
<1>1. \A e, v : v # Absent => /\ n \in outs => Set(e, outs, v)[1][n] = v
                              /\ n \notin outs => Set(e, outs, v)[1][n] = e[1][n]
  BY DEF Set
<1>2. CASE env = Set(EnsureDevice(<<values, memo>>, ins), outs, [home |-> "owned", from |-> id])
  <2>1. [home |-> "owned", from |-> id] # Absent
    BY DEF Absent
  <2>2. EnsureDevice(<<values, memo>>, ins)[1][n]
          = IF n \in ins THEN OnDevice(values[n]) ELSE values[n]
    BY DEF EnsureDevice
  <2>3. OnDevice(values[n]) # Absent
    BY DEF OnDevice, Absent
  <2> QED BY <1>1, <1>2, <2>1, <2>2, <2>3
<1>3. ASSUME NEW small,
             env = Set(HostCopies(<<values, memo>>, ins, small), outs,
                       [home |-> "host", from |-> id])
      PROVE  /\ values[n] # Absent \/ n \in outs => env[1][n] # Absent
             /\ values[n] = Absent /\ n \notin ins \cup outs => env[1][n] = Absent
  <2>1. [home |-> "host", from |-> id] # Absent
    BY DEF Absent
  <2>2. HostCopies(<<values, memo>>, ins, small)[1][n] = values[n]
    BY DEF HostCopies
  <2> QED BY <1>1, <1>3, <2>1, <2>2
<1> QED BY <1>2, <1>3 DEF Compute

LEMMA ReleaseDrops ==
  ASSUME NEW env, NEW ns, NEW n \in Name
  PROVE  /\ n \in ns => Release(env, ns)[1][n] = Absent
         /\ n \notin ns => Release(env, ns)[1][n] = env[1][n]
BY DEF Release, Set

----------------------------------------------------------------------------
(* The worklist.                                                           *)

\* Past the plan: what a kept node reads of the outer graph, if it is no input and
\* no initializer, is the output of a kept node.
LEMMA ProducersKept ==
  ASSUME Scoped, WorklistInv, phase # "plan", NEW i \in kept, NEW n \in Reads(i),
         NEW j \in Nodes, n \in Node(j).outputs
  PROVE  j \in kept
<1>1. n \in seen
  BY OutputsAreNew DEF WorklistInv
<1> QED BY <1>1 DEF WorklistInv

\* What the node being executed reads of the outer graph is there.
LEMMA ReadsPresent ==
  ASSUME Scoped, WorklistInv, AvailableInv, phase \in {"run", "branch"}, index \in kept,
         NEW n \in Name, n \in Reads(index), n \in Outer(graph, index)
  PROVE  Readable(n)
<1>1. index \in Nodes
  BY DEF WorklistInv
<1>2. NeededFrom(index, n)
  BY <1>1, GraphTypes DEF NeededFrom
<1>3. CASE n \in graph.initializers
  BY <1>3 DEF Readable
<1>4. CASE n \in graph.inputs
  BY <1>2, <1>4 DEF AvailableInv, BoundBefore, Readable
<1>5. CASE \E j \in Nodes : j < index /\ n \in Node(j).outputs
  <2>1. BoundBefore(index, n)
    BY <1>5, ProducersKept DEF BoundBefore
  <2> QED BY <1>2, <2>1 DEF AvailableInv, Readable
<1> QED BY <1>1, <1>3, <1>4, <1>5, OuterBefore

----------------------------------------------------------------------------
(* Every action preserves the invariant.                                   *)

\* No action changes the graph.
LEMMA SameGraph ==
  ASSUME UNCHANGED graph
  PROVE  /\ Nodes' = Nodes /\ (Scoped => Scoped')
         /\ \A i \in Nodes : Node(i)' = Node(i) /\ Reads(i)' = Reads(i)
         /\ \A i, n : NeededFrom(i, n)' <=> NeededFrom(i, n)
<1>1. Nodes' = Nodes /\ \A i : Node(i)' = Node(i)
  BY DEF Nodes, Node
<1>2. \A i : Captured(i)' = Captured(i)
  BY <1>1 DEF Captured
<1>3. \A i : Reads(i)' = Reads(i)
  BY <1>1, <1>2 DEF Reads
<1> QED BY <1>1, <1>3 DEF NeededFrom, Scoped

\* Past the plan nothing changes it.
LEMMA SamePlan ==
  ASSUME WorklistInv, UNCHANGED <<graph, wanted, planVars>>, phase' # "plan",
         frontier = {}
  PROVE  WorklistInv'
<1>1. /\ frontier' = frontier /\ seen' = seen /\ kept' = kept /\ wanted' = wanted
      /\ graph' = graph
  BY DEF planVars
<1> QED BY <1>1, SameGraph DEF WorklistInv

\* Before the end of the run, binding names makes nothing unavailable.
LEMMA MoreValues ==
  ASSUME RunInv, UNCHANGED <<graph, kept, index>>,
         phase \in {"plan", "run", "branch", "read"},
         \A n \in Name : values[n] # Absent => values'[n] # Absent
  PROVE  AvailableInv'
<1> SUFFICES ASSUME NEW n \in Name, BoundBefore(index, n)', NeededFrom(index, n)'
             PROVE  values'[n] # Absent
  BY DEF AvailableInv
<1>1. BoundBefore(index, n)
  BY SameGraph DEF BoundBefore, RunInv, WorklistInv
<1>2. NeededFrom(index, n)
  BY SameGraph DEF NeededFrom
<1> QED BY <1>1, <1>2 DEF RunInv, AvailableInv

LEMMA InitInv ==
  ASSUME Init, WellScopedGraphs
  PROVE  Scoped /\ RunInv
<1>1. Scoped
  BY DEF Init, WellScopedGraphs, Scoped
<1>2. WorklistInv
  BY DEF Init, WorklistInv
<1>3. AvailableInv
  <2> SUFFICES ASSUME NEW n \in Name, BoundBefore(1, n)
               PROVE  values[n] # Absent
    BY DEF AvailableInv, Init
  <2>1. n \in graph.inputs
    BY GraphTypes, <1>1 DEF BoundBefore, Init
  <2> QED BY <2>1 DEF Init, Absent
<1>4. ShadowInv
  <2> SUFFICES ASSUME NEW b \in BranchesOf(graph), NEW n \in b.initializers
               PROVE  values[n] = Absent
    BY DEF ShadowInv
  <2>1. n \in Name /\ n \notin graph.inputs
    BY <1>1, InitializersAreInner, OuterIsOuter
  <2> QED BY <2>1 DEF Init
<1>5. index \in 1 .. Len(graph.nodes) + 1
  BY <1>1, GraphTypes DEF Init
<1> QED BY <1>1, <1>2, <1>3, <1>4, <1>5 DEF Init, RunInv, BranchInv

LEMMA MarkInv ==
  ASSUME Scoped, RunInv, NEW m \in Name, Mark(m)
  PROVE  RunInv'
<1>1. /\ UNCHANGED <<graph, wanted, phase, index, chosen, step, values, memo>>
      /\ phase = "plan" /\ m \in frontier /\ index = 1
  BY DEF Mark, RunInv, runVars, envVars
<1>2. WorklistInv'
  <2>1. CASE /\ \A i \in Nodes \ kept : m \notin Node(i).outputs
             /\ frontier' = frontier \ {m}
             /\ UNCHANGED <<seen, kept>>
    BY <1>1, <2>1, SameGraph DEF RunInv, WorklistInv
  <2>2. ASSUME NEW i \in Nodes \ kept, NEW fresh,
               fresh = Reads(i) \ (graph.inputs \cup graph.initializers \cup seen),
               m \in Node(i).outputs,
               kept' = kept \cup {i},
               seen' = seen \cup fresh,
               frontier' = (frontier \ {m}) \cup fresh
        PROVE  WorklistInv'
    <3>1. \A n \in seen', j \in Nodes : n \in Node(j).outputs => j \in kept' \/ n \in frontier'
      BY <2>2, OneProducer DEF RunInv, WorklistInv
    <3>2. \A j \in kept' : Reads(j) \subseteq graph.inputs \cup graph.initializers \cup seen'
      BY <2>2 DEF RunInv, WorklistInv
    <3>3. kept' \subseteq Nodes /\ wanted \subseteq seen' /\ frontier' \subseteq seen'
      BY <2>2 DEF RunInv, WorklistInv
    <3> QED BY <1>1, <3>1, <3>2, <3>3, SameGraph DEF WorklistInv
  <2> QED BY <2>1, <2>2 DEF Mark
<1>3. AvailableInv'
  <2> SUFFICES ASSUME NEW n \in Name, BoundBefore(index, n)', NeededFrom(index, n)'
               PROVE  values[n] # Absent
    BY <1>1 DEF AvailableInv
  <2>1. n \in graph.inputs
    BY <1>1, <1>2, SameGraph, GraphTypes DEF BoundBefore, WorklistInv
  <2> QED BY <1>1, <2>1, SameGraph DEF RunInv, AvailableInv, BoundBefore
<1>4. ShadowInv' /\ BranchInv'
  BY <1>1 DEF RunInv, ShadowInv, BranchInv, Taken, Node
<1> QED BY <1>1, <1>2, <1>3, <1>4 DEF RunInv

LEMMA PlannedInv ==
  ASSUME Scoped, RunInv, Planned
  PROVE  RunInv'
<1>1. /\ UNCHANGED <<graph, wanted, frontier, seen, kept, index, chosen, step, values, memo>>
      /\ phase = "plan" /\ phase' = "run" /\ frontier = {}
  BY DEF Planned, planVars, runVars, envVars
<1>2. WorklistInv'
  BY <1>1, SamePlan DEF RunInv, planVars
<1>3. AvailableInv'
  BY <1>1, MoreValues
<1>4. ShadowInv' /\ BranchInv'
  BY <1>1 DEF RunInv, ShadowInv, BranchInv, Taken, Node
<1> QED BY <1>1, <1>2, <1>3, <1>4 DEF RunInv

LEMMA SkipInv ==
  ASSUME Scoped, RunInv, SkipPruned
  PROVE  RunInv'
<1>1. /\ UNCHANGED <<graph, wanted, frontier, seen, kept, chosen, step, values, memo>>
      /\ phase = "run" /\ phase' = "run" /\ frontier = {}
      /\ index \in Nodes \ kept /\ index' = index + 1
  BY DEF SkipPruned, planVars, envVars, RunInv, WorklistInv
<1>2. WorklistInv'
  BY <1>1, SamePlan DEF RunInv, planVars
<1>3. AvailableInv'
  <2> SUFFICES ASSUME NEW n \in Name, BoundBefore(index, n)', NeededFrom(index, n)'
               PROVE  values[n] # Absent
    BY <1>1 DEF AvailableInv
  <2>1. BoundBefore(index, n)
    BY <1>1, GraphTypes, SameGraph DEF BoundBefore, RunInv, WorklistInv
  <2>2. NeededFrom(index, n)
    BY <1>1, GraphTypes, SameGraph DEF NeededFrom
  <2> QED BY <1>1, <2>1, <2>2 DEF RunInv, AvailableInv
<1>4. ShadowInv' /\ BranchInv'
  BY <1>1 DEF RunInv, ShadowInv, BranchInv
<1>5. index' \in 1 .. Len(graph'.nodes) + 1
  BY <1>1, GraphTypes
<1> QED BY <1>1, <1>2, <1>3, <1>4, <1>5 DEF RunInv

LEMMA ExecInv ==
  ASSUME Scoped, RunInv, ExecNode
  PROVE  RunInv'
<1>1. /\ phase = "run" /\ index \in kept /\ frontier = {}
      /\ index \in Nodes
  BY DEF ExecNode, RunInv, WorklistInv
<1>2. ~Fail(Node(index).inputs)
  BY <1>1, NodeTypes, OutputsAreNew, ReadsPresent DEF Fail, RunInv
<1>3. PICK env \in Compute(Node(index).inputs, Node(index).outputs, <<index, 0>>) :
        Become(Release(env, Dead(index)))
  BY <1>2 DEF ExecNode
<1>4. /\ UNCHANGED <<graph, wanted, frontier, seen, kept, chosen, step>>
      /\ phase' = "run" /\ index' = index + 1
  BY <1>1, <1>2 DEF ExecNode, planVars
<1>5. \A n \in Name :
        /\ n \in Dead(index) => values'[n] = Absent
        /\ n \notin Dead(index) => values'[n] = env[1][n]
        /\ values[n] # Absent \/ n \in Node(index).outputs => env[1][n] # Absent
        /\ values[n] = Absent /\ n \notin Node(index).inputs \cup Node(index).outputs
             => env[1][n] = Absent
  BY <1>1, <1>3, NodeTypes, ComputeBinds, ReleaseDrops DEF Become
<1>6. WorklistInv'
  BY <1>1, <1>4, SamePlan DEF RunInv, planVars
<1>7. AvailableInv'
  <2> SUFFICES ASSUME NEW n \in Name, BoundBefore(index, n)', NeededFrom(index, n)'
               PROVE  values'[n] # Absent
    BY DEF AvailableInv
  <2>1. /\ n \notin Dead(index) /\ NeededFrom(index, n)
    BY <1>1, <1>4, GraphTypes, SameGraph DEF NeededFrom, Dead
  <2>2. n \in Node(index).outputs \/ BoundBefore(index, n)
    BY <1>1, <1>4, GraphTypes, SameGraph DEF BoundBefore, RunInv, WorklistInv
  <2> QED BY <1>1, <1>5, <2>1, <2>2 DEF RunInv, AvailableInv
<1>8. ShadowInv'
  <2> SUFFICES ASSUME NEW b \in BranchesOf(graph), NEW n \in b.initializers
               PROVE  values'[n] = Absent
    BY <1>4 DEF ShadowInv
  <2>1. n \in Name /\ n \notin Node(index).inputs \cup Node(index).outputs
    BY <1>1, InitializersAreInner, OutputsAreNew, OuterIsOuter
  <2>2. values[n] = Absent
    BY <1>1 DEF RunInv, ShadowInv
  <2> QED BY <1>5, <2>1, <2>2
<1>9. index' \in 1 .. Len(graph'.nodes) + 1
  BY <1>1, <1>4, GraphTypes
<1> QED BY <1>4, <1>6, <1>7, <1>8, <1>9 DEF RunInv, BranchInv

LEMMA EnterInv ==
  ASSUME Scoped, RunInv, EnterIf
  PROVE  RunInv'
<1>1. /\ phase = "run" /\ index \in kept /\ frontier = {}
      /\ index \in Nodes
  BY DEF EnterIf, RunInv, WorklistInv
<1>2. ~Fail(Node(index).inputs)
  BY <1>1, NodeTypes, OutputsAreNew, ReadsPresent DEF Fail, RunInv
<1>3. PICK j \in 1 .. Len(Node(index).branches) :
        LET names == Node(index).branches[j].initializers IN
        /\ chosen' = j
        /\ IF \E n \in names : values[n] # Absent
             THEN phase' = "failed" /\ UNCHANGED <<step, envVars>>
             ELSE /\ phase' = "branch"
                  /\ step' = 1
                  /\ \E small \in {{}, Node(index).inputs} :
                       Become(Set(HostCopies(<<values, memo>>, Node(index).inputs, small),
                                  names, [home |-> "host", from |-> <<index, 0>>]))
  BY <1>2 DEF EnterIf
<1> DEFINE b == Node(index).branches[j]
<1>4. b \in BranchesOf(graph) /\ Len(b.nodes) \in Nat
  BY <1>1, BranchScope
<1>5. \A n \in b.initializers : values[n] = Absent /\ n \in Name
  BY <1>1, <1>4, InitializersAreInner DEF RunInv, ShadowInv
<1>6. /\ UNCHANGED <<graph, wanted, frontier, seen, kept, index>>
      /\ phase' = "branch" /\ step' = 1 /\ chosen' = j
  BY <1>2, <1>3, <1>5 DEF EnterIf, planVars
<1>7. \A n \in Name : /\ n \in b.initializers => values'[n] # Absent
                      /\ n \notin b.initializers => values'[n] = values[n]
  <2>1. [home |-> "host", from |-> <<index, 0>>] # Absent
    BY DEF Absent
  <2> QED BY <1>3, <1>5, <2>1 DEF Become, Set, HostCopies
<1>8. Taken' = b
  BY <1>6 DEF Taken, Node
<1>9. WorklistInv'
  BY <1>1, <1>6, SamePlan DEF RunInv, planVars
<1>10. AvailableInv'
  BY <1>1, <1>5, <1>6, <1>7, MoreValues
<1>11. ShadowInv'
  <2> SUFFICES ASSUME NEW c \in BranchesOf(graph), NEW n \in c.initializers
               PROVE  values'[n] = Absent \/ n \in Taken'.initializers
    BY <1>6 DEF ShadowInv
  <2>1. n \in Name /\ values[n] = Absent
    BY <1>1, InitializersAreInner DEF RunInv, ShadowInv
  <2> QED BY <1>7, <1>8, <2>1
<1>12. BranchInv'
  <2>1. step' \in 1 .. Len(b.nodes) + 1 /\ \A k \in 1 .. Len(b.nodes) : ~(k < step')
    BY <1>4, <1>6
  <2>2. index' \in kept' /\ chosen' \in 1 .. Len(Node(index)'.branches)
    BY <1>1, <1>6 DEF Node
  <2>3. \A n \in b.initializers : values'[n] # Absent
    BY <1>5, <1>7
  <2> QED BY <1>8, <2>1, <2>2, <2>3 DEF BranchInv
<1> QED BY <1>1, <1>6, <1>9, <1>10, <1>11, <1>12 DEF RunInv

\* In a branch: what its nodes may read, and its result, is there.
LEMMA InBranch ==
  ASSUME Scoped, RunInv, phase = "branch"
  PROVE  /\ index \in Nodes /\ index \in kept /\ frontier = {}
         /\ chosen \in 1 .. Len(Node(index).branches)
         /\ step \in 1 .. Len(Taken.nodes) + 1
         /\ Taken \in BranchesOf(graph) /\ Len(Taken.nodes) \in Nat
         /\ \A n \in Name : n \in Inner(graph, index, Taken, step) =>
              \/ n \in Outer(graph, index)
              \/ n \in Taken.initializers /\ values[n] # Absent
              \/ /\ \E k \in 1 .. Len(Taken.nodes) : n \in Taken.nodes[k].outputs
                 /\ values[n] # Absent
<1>1. /\ index \in Nodes /\ index \in kept /\ frontier = {}
      /\ chosen \in 1 .. Len(Node(index).branches)
      /\ step \in 1 .. Len(Taken.nodes) + 1
  BY DEF RunInv, BranchInv, WorklistInv
<1>2. Taken \in BranchesOf(graph) /\ Len(Taken.nodes) \in Nat
  BY <1>1, BranchScope DEF Taken
<1>3. ASSUME NEW n \in Name, n \in Inner(graph, index, Taken, step)
      PROVE  \/ n \in Outer(graph, index)
             \/ n \in Taken.initializers /\ values[n] # Absent
             \/ /\ \E k \in 1 .. Len(Taken.nodes) : n \in Taken.nodes[k].outputs
                /\ values[n] # Absent
  <2>1. CASE n \in Taken.initializers
    BY <2>1 DEF RunInv, BranchInv
  <2>2. CASE \E k \in 1 .. step - 1 : n \in Taken.nodes[k].outputs
    <3>1. PICK k \in 1 .. step - 1 : n \in Taken.nodes[k].outputs
      BY <2>2
    <3>2. k \in 1 .. Len(Taken.nodes) /\ k < step
      BY <1>1, <1>2
    <3> QED BY <3>1, <3>2 DEF RunInv, BranchInv
  <2> QED BY <1>3, <2>1, <2>2 DEF Inner
<1> QED BY <1>1, <1>2, <1>3

LEMMA BranchNodeInv ==
  ASSUME Scoped, RunInv, ExecBranchNode
  PROVE  RunInv'
<1> DEFINE node == Taken.nodes[step]
<1>1. /\ phase = "branch" /\ step \in 1 .. Len(Taken.nodes)
      /\ index \in Nodes /\ index \in kept /\ frontier = {}
      /\ chosen \in 1 .. Len(Node(index).branches)
      /\ Taken \in BranchesOf(graph) /\ Len(Taken.nodes) \in Nat
  BY InBranch DEF ExecBranchNode
<1>2. /\ node.inputs \subseteq Inner(graph, index, Taken, step)
      /\ node.captured = {}
      /\ node.inputs \subseteq Name /\ node.outputs \subseteq Name
      /\ node.outputs \cap OuterNames(graph) = {}
  BY <1>1, BranchScope DEF Taken
<1>3. \A n \in node.inputs : Readable(n)
  <2> SUFFICES ASSUME NEW n \in node.inputs PROVE Readable(n)
    OBVIOUS
  <2>1. n \in Reads(index)
    BY <1>1, BranchReads DEF Taken
  <2>2. CASE n \in Outer(graph, index)
    BY <1>1, <1>2, <2>1, <2>2, ReadsPresent DEF RunInv
  <2> QED BY <1>1, <1>2, <2>2, InBranch DEF Readable
<1>4. ~Fail(node.inputs \cup node.captured)
  BY <1>2, <1>3 DEF Fail
<1>5. PICK env \in Compute(node.inputs, node.outputs, <<index, step>>) : Become(env)
  BY <1>2, <1>4 DEF ExecBranchNode
<1>6. /\ UNCHANGED <<graph, wanted, phase, frontier, seen, kept, index, chosen>>
      /\ step' = step + 1
  BY <1>4 DEF ExecBranchNode, planVars
<1>7. \A n \in Name :
        /\ values[n] # Absent \/ n \in node.outputs => values'[n] # Absent
        /\ values[n] = Absent /\ n \notin node.inputs \cup node.outputs => values'[n] = Absent
  <2> SUFFICES ASSUME NEW n \in Name
               PROVE  /\ values[n] # Absent \/ n \in node.outputs => values'[n] # Absent
                      /\ values[n] = Absent /\ n \notin node.inputs \cup node.outputs
                           => values'[n] = Absent
    OBVIOUS
  <2>1. values' = env[1]
    BY <1>5 DEF Become
  <2>2. node.inputs \in SUBSET Name /\ node.outputs \in SUBSET Name
    BY <1>2
  <2>3. /\ values[n] # Absent \/ n \in node.outputs => env[1][n] # Absent
        /\ values[n] = Absent /\ n \notin node.inputs \cup node.outputs => env[1][n] = Absent
    <3> DEFINE ins == node.inputs
               outs == node.outputs
               id == <<index, step>>
    <3>1. env \in Compute(ins, outs, id) /\ ins \in SUBSET Name /\ outs \in SUBSET Name
      BY <1>5, <2>2
    <3> HIDE DEF ins, outs, id
    <3>2. /\ values[n] # Absent \/ n \in outs => env[1][n] # Absent
          /\ values[n] = Absent /\ n \notin ins \cup outs => env[1][n] = Absent
      BY <3>1, ComputeBinds
    <3> QED BY <3>2 DEF ins, outs
  <2> QED BY <2>1, <2>3
<1>8. Taken' = Taken
  BY <1>6 DEF Taken, Node
<1>9. WorklistInv'
  BY <1>1, <1>6, SamePlan DEF RunInv, planVars
<1>10. AvailableInv'
  BY <1>1, <1>6, <1>7, MoreValues
<1>11. ShadowInv'
  <2> SUFFICES ASSUME NEW c \in BranchesOf(graph), NEW n \in c.initializers,
                      n \notin Taken.initializers
               PROVE  values'[n] = Absent
    BY <1>1, <1>6, <1>8 DEF ShadowInv
  <2>1. /\ n \in Name /\ values[n] = Absent
        /\ n \notin OuterNames(graph)
        /\ \A k \in 1 .. Len(Taken.nodes) : n \notin Taken.nodes[k].outputs
    BY <1>1, InitializersAreInner DEF RunInv, ShadowInv
  <2>2. n \notin node.inputs
    BY <1>1, <1>2, <2>1, InBranch, OuterIsOuter
  <2> QED BY <1>1, <1>7, <2>1, <2>2
<1>12. BranchInv'
  <2>1. step' \in 1 .. Len(Taken.nodes) + 1
    BY <1>1, <1>6
  <2>2. index' \in kept' /\ chosen' \in 1 .. Len(Node(index)'.branches)
    BY <1>1, <1>6 DEF Node
  <2>3. \A n \in Taken.initializers : values'[n] # Absent
    BY <1>1, <1>7, InitializersAreInner DEF RunInv, BranchInv
  <2>4. ASSUME NEW k \in 1 .. Len(Taken.nodes), k < step', NEW n \in Taken.nodes[k].outputs
        PROVE  values'[n] # Absent
    <3>1. n \in Name
      BY <1>1, BranchScope DEF Taken
    <3>2. CASE k = step
      BY <1>7, <3>1, <3>2
    <3>3. CASE k < step
      BY <1>1, <1>7, <3>1, <3>3 DEF RunInv, BranchInv
    <3> QED BY <1>1, <1>6, <2>4, <3>2, <3>3
  <2> QED BY <1>8, <2>1, <2>2, <2>3, <2>4 DEF BranchInv
<1> QED BY <1>1, <1>6, <1>9, <1>10, <1>11, <1>12 DEF RunInv

LEMMA LeaveInv ==
  ASSUME Scoped, RunInv, LeaveIf
  PROVE  RunInv'
<1>1. /\ phase = "branch" /\ step = Len(Taken.nodes) + 1
      /\ index \in Nodes /\ index \in kept /\ frontier = {}
      /\ chosen \in 1 .. Len(Node(index).branches)
      /\ Taken \in BranchesOf(graph) /\ Len(Taken.nodes) \in Nat
  BY InBranch DEF LeaveIf
<1>2. /\ Taken.result \in Name /\ Taken.result \notin OuterNames(graph)
      /\ Taken.result \in Inner(graph, index, Taken, step)
  BY <1>1, BranchScope DEF Taken
<1>3. values[Taken.result] # Absent
  BY <1>1, <1>2, InBranch, OuterIsOuter
<1>4. PICK to \in Node(index).outputs :
        Become(Release(Release(MoveValue(<<values, memo>>, Taken.result, to),
                               Taken.initializers),
                       Dead(index)))
  BY <1>3 DEF LeaveIf
<1>5. /\ UNCHANGED <<graph, wanted, frontier, seen, kept>>
      /\ phase' = "run" /\ index' = index + 1
  BY <1>3 DEF LeaveIf, planVars
<1>6. Node(index).outputs = {to} /\ to \in Name /\ to \in OuterNames(graph)
  BY <1>1, OutputsAreNew, OuterIsOuter, NodeTypes DEF IsIf
<1>7. \A n \in Name :
        LET gone == Dead(index) \cup Taken.initializers \cup {Taken.result} IN
        /\ n \in gone => values'[n] = Absent
        /\ n \notin gone \cup {to} => values'[n] = values[n]
        /\ n = to /\ n \notin gone => values'[n] = values[Taken.result]
  <2> SUFFICES ASSUME NEW n \in Name
               PROVE  LET gone == Dead(index) \cup Taken.initializers \cup {Taken.result} IN
                      /\ n \in gone => values'[n] = Absent
                      /\ n \notin gone \cup {to} => values'[n] = values[n]
                      /\ n = to /\ n \notin gone => values'[n] = values[Taken.result]
    OBVIOUS
  <2> DEFINE inner == Taken.initializers
             dead == Dead(index)
             from == Taken.result
  <2>1. Become(Release(Release(MoveValue(<<values, memo>>, from, to), inner), dead))
    BY <1>4
  <2>2. from \in Name
    BY <1>2
  <2> HIDE DEF inner, dead, from
  <2>3. /\ n \in dead \cup inner \cup {from} => values'[n] = Absent
        /\ n \notin dead \cup inner \cup {from, to} => values'[n] = values[n]
        /\ n = to /\ n \notin dead \cup inner \cup {from} => values'[n] = values[from]
    BY <2>1, <2>2, <1>6 DEF Become, Release, MoveValue, Set
  <2> QED BY <2>3 DEF inner, dead, from
<1>8. WorklistInv'
  BY <1>1, <1>5, SamePlan DEF RunInv, planVars
<1>9. AvailableInv'
  <2> SUFFICES ASSUME NEW n \in Name, BoundBefore(index, n)', NeededFrom(index, n)'
               PROVE  values'[n] # Absent
    BY DEF AvailableInv
  <2>1. n \notin Dead(index) /\ NeededFrom(index, n)
    BY <1>1, <1>5, GraphTypes, SameGraph DEF NeededFrom, Dead
  <2>2. n = to \/ BoundBefore(index, n)
    BY <1>1, <1>5, <1>6, GraphTypes, SameGraph DEF BoundBefore, RunInv, WorklistInv
  <2>3. n \in OuterNames(graph)
    BY <1>6, <2>2, OuterIsOuter DEF BoundBefore, RunInv, WorklistInv
  <2>4. n \notin Taken.initializers /\ n # Taken.result
    BY <1>1, <1>2, <2>3, InitializersAreInner
  <2>5. CASE n = to
    BY <1>3, <1>7, <2>1, <2>4, <2>5
  <2>6. CASE n # to
    BY <1>1, <1>7, <2>1, <2>2, <2>4, <2>6 DEF RunInv, AvailableInv
  <2> QED BY <2>5, <2>6
<1>10. ShadowInv'
  <2> SUFFICES ASSUME NEW c \in BranchesOf(graph), NEW n \in c.initializers
               PROVE  values'[n] = Absent
    BY <1>5 DEF ShadowInv
  <2>1. n \in Name /\ n # to
    BY <1>6, InitializersAreInner
  <2>2. values[n] = Absent \/ n \in Taken.initializers
    BY <1>1 DEF RunInv, ShadowInv
  <2> QED BY <1>7, <2>1, <2>2
<1>11. index' \in 1 .. Len(graph'.nodes) + 1
  BY <1>1, <1>5, GraphTypes
<1> QED BY <1>5, <1>8, <1>9, <1>10, <1>11 DEF RunInv, BranchInv

LEMMA ExecutedInv ==
  ASSUME Scoped, RunInv, Executed
  PROVE  RunInv'
<1>1. /\ UNCHANGED <<graph, wanted, frontier, seen, kept, index, chosen, step, values, memo>>
      /\ phase = "run" /\ phase' = "read" /\ frontier = {}
      /\ index = Len(graph.nodes) + 1
  BY GraphTypes DEF Executed, planVars, runVars, envVars, RunInv, WorklistInv
<1>2. WorklistInv'
  BY <1>1, SamePlan DEF RunInv, planVars
<1>3. AvailableInv'
  BY <1>1, MoreValues
<1> QED BY <1>1, <1>2, <1>3 DEF RunInv, BranchInv, ShadowInv

LEMMA ReadInv ==
  ASSUME Scoped, RunInv, NEW m \in Name, ReadOutput(m)
  PROVE  RunInv'
<1>1. /\ UNCHANGED <<graph, wanted, phase, frontier, seen, kept, index, chosen, step>>
      /\ phase = "read" /\ frontier = {}
  BY DEF ReadOutput, planVars, runVars, RunInv, WorklistInv
<1>2. values' = values
  BY DEF ReadOutput, Become, HostCopies
<1>3. WorklistInv'
  BY <1>1, SamePlan DEF RunInv, planVars
<1>4. AvailableInv'
  BY <1>1, <1>2, MoreValues
<1> QED BY <1>1, <1>3, <1>4 DEF RunInv, BranchInv, ShadowInv

LEMMA FinishInv ==
  ASSUME Scoped, RunInv, Finish
  PROVE  RunInv'
<1>1. /\ UNCHANGED <<graph, wanted, frontier, seen, kept, index>>
      /\ phase' = "finished" /\ frontier = {}
  BY DEF Finish, planVars, runVars, RunInv, WorklistInv
<1>2. WorklistInv'
  BY <1>1, SamePlan DEF RunInv, planVars
<1> QED BY <1>1, <1>2 DEF RunInv, AvailableInv, BranchInv, ShadowInv

LEMMA NextInv ==
  ASSUME Scoped, RunInv, [Next]_vars
  PROVE  Scoped' /\ RunInv'
<1>1. UNCHANGED graph
  BY DEF Next, vars, Mark, Planned, SkipPruned, ExecNode, EnterIf, ExecBranchNode, LeaveIf,
         Executed, ReadOutput, Finish, Fail
<1>0. Scoped'
  BY <1>1, SameGraph
<1> SUFFICES RunInv'
  BY <1>0
<1>2. CASE \E n \in Name : Mark(n)
  BY <1>2, MarkInv
<1>3. CASE Planned
  BY <1>3, PlannedInv
<1>4. CASE SkipPruned
  BY <1>4, SkipInv
<1>5. CASE ExecNode
  BY <1>5, ExecInv
<1>6. CASE EnterIf
  BY <1>6, EnterInv
<1>7. CASE ExecBranchNode
  BY <1>7, BranchNodeInv
<1>8. CASE LeaveIf
  BY <1>8, LeaveInv
<1>9. CASE Executed
  BY <1>9, ExecutedInv
<1>10. CASE \E n \in Name : ReadOutput(n)
  BY <1>10, ReadInv
<1>11. CASE Finish
  BY <1>11, FinishInv
<1>12. CASE UNCHANGED vars
  <2>1. UNCHANGED <<graph, wanted, phase, frontier, seen, kept, index, chosen, step, values>>
    BY <1>12 DEF vars, planVars, runVars, envVars
  <2>2. WorklistInv'
    BY <2>1, SameGraph DEF RunInv, WorklistInv
  <2>3. AvailableInv'
    BY <2>1, MoreValues DEF AvailableInv
  <2>4. ShadowInv' /\ BranchInv'
    BY <2>1 DEF RunInv, ShadowInv, BranchInv, Taken, Node
  <2> QED BY <2>1, <2>2, <2>3, <2>4 DEF RunInv
<1> QED BY <1>1, <1>2, <1>3, <1>4, <1>5, <1>6, <1>7, <1>8, <1>9, <1>10, <1>11, <1>12
        DEF Next

LEMMA ScopedRuns == WellScopedGraphs => (Spec => [](Scoped /\ RunInv))
<1> SUFFICES ASSUME WellScopedGraphs PROVE Spec => [](Scoped /\ RunInv)
  OBVIOUS
<1>1. Init => Scoped /\ RunInv
  BY InitInv
<1>2. Scoped /\ RunInv /\ [Next]_vars => (Scoped /\ RunInv)'
  BY NextInv
<1> QED BY <1>1, <1>2, PTL DEF Spec

\* RunInv is an invariant of the runs of well scoped graphs (execute_nodes).
THEOREM RunsAreInvariant == WellScopedGraphs => (Spec => []RunInv)
<1>1. Scoped /\ RunInv => RunInv
  OBVIOUS
<1> QED BY <1>1, ScopedRuns, PTL

\* No node of a well scoped graph reads a value that was pruned or released before
\* it, whichever outputs are wanted and whichever branches are taken (kept_nodes,
\* dead_after).
THEOREM RunsNeverFail == WellScopedGraphs => (Spec => []NeverFails)
<1>1. Scoped /\ RunInv => NeverFails
  BY DEF RunInv, NeverFails
<1> QED BY <1>1, ScopedRuns, PTL

\* When the run of a well scoped graph is over, every wanted output can be read.
THEOREM WantedStayPresent == WellScopedGraphs => (Spec => []WantedPresent)
<1>1. ASSUME Scoped, RunInv PROVE WantedPresent
  <2> SUFFICES ASSUME phase = "read", NEW n \in wanted PROVE Readable(n)
    BY DEF WantedPresent
  <2>1. n \in Name /\ n \in OuterNames(graph) /\ NeededFrom(index, n)
    BY <1>1, GraphTypes, OuterIsOuter DEF RunInv, NeededFrom
  <2>2. CASE n \in graph.initializers
    BY <2>2 DEF Readable
  <2>3. CASE n \in graph.inputs
    BY <1>1, <2>1, <2>3 DEF RunInv, AvailableInv, BoundBefore, Readable
  <2>4. ASSUME NEW j \in Nodes, n \in Node(j).outputs PROVE Readable(n)
    <3>1. j \in kept
      BY <1>1, <2>4 DEF RunInv, WorklistInv
    <3>2. j < index
      BY <1>1, GraphTypes DEF RunInv
    <3> QED BY <1>1, <2>1, <2>4, <3>1, <3>2 DEF RunInv, AvailableInv, BoundBefore, Readable
  <2> QED BY <1>1, <2>1, <2>2, <2>3, <2>4, OuterIsOuter
<1>2. Scoped /\ RunInv => WantedPresent
  BY <1>1
<1> QED BY <1>2, ScopedRuns, PTL

----------------------------------------------------------------------------
(* No more is kept than is needed.                                         *)

\* Whatever set of nodes is closed under needing, the worklist stays in it.
NeedInv ==
  \A S \in SUBSET Nodes : Closed(S) =>
    /\ kept \subseteq S
    /\ \A n \in seen, i \in Nodes : n \in Node(i).outputs => i \in S

LEMMA NeedStep ==
  ASSUME Scoped, RunInv, NeedInv, [Next]_vars
  PROVE  NeedInv'
<1>1. UNCHANGED <<graph, wanted>>
  BY DEF Next, vars, Mark, Planned, SkipPruned, ExecNode, EnterIf, ExecBranchNode, LeaveIf,
         Executed, ReadOutput, Finish, Fail
<1> SUFFICES ASSUME NEW S \in SUBSET Nodes, Closed(S)
             PROVE  /\ kept' \subseteq S
                    /\ \A n \in seen', i \in Nodes : n \in Node(i).outputs => i \in S
  BY <1>1, SameGraph DEF NeedInv, Closed
<1>3. CASE UNCHANGED <<seen, kept>>
  BY <1>3 DEF NeedInv
<1>4. ASSUME NEW m \in Name, Mark(m)
      PROVE  /\ kept' \subseteq S
             /\ \A n \in seen', i \in Nodes : n \in Node(i).outputs => i \in S
  <2>1. CASE UNCHANGED <<seen, kept>>
    BY <2>1 DEF NeedInv
  <2>2. ASSUME NEW i \in Nodes, m \in Node(i).outputs, kept' = kept \cup {i},
               seen' \subseteq seen \cup Reads(i)
        PROVE  /\ kept' \subseteq S
               /\ \A n \in seen', j \in Nodes : n \in Node(j).outputs => j \in S
    <3>1. m \in seen
      BY <1>4 DEF Mark, RunInv, WorklistInv
    <3>2. i \in S
      BY <2>2, <3>1 DEF NeedInv
    <3>3. \A n \in Reads(i), j \in Nodes : n \in Node(j).outputs => j \in S
      BY <3>2 DEF Closed
    <3> QED BY <2>2, <3>2, <3>3 DEF NeedInv
  <2> QED BY <1>4, <2>1, <2>2 DEF Mark
<1>5. CASE UNCHANGED planVars
  BY <1>3, <1>5 DEF planVars
<1> QED BY <1>3, <1>4, <1>5 DEF Next, vars, Planned, SkipPruned, ExecNode, EnterIf,
                               ExecBranchNode, LeaveIf, Executed, ReadOutput, Finish, Fail

\* Dead code elimination of a well scoped graph keeps exactly the nodes that the
\* wanted outputs need, through branches too (kept_nodes).
THEOREM KeptStaysNeeded == WellScopedGraphs => (Spec => []KeptIsNeeded)
<1> SUFFICES ASSUME WellScopedGraphs PROVE Spec => []KeptIsNeeded
  OBVIOUS
<1>1. Init => NeedInv
  BY DEF Init, NeedInv, Closed
<1>2. Scoped /\ RunInv /\ NeedInv /\ [Next]_vars => NeedInv'
  BY NeedStep
<1>3. ASSUME Scoped, RunInv, NeedInv PROVE KeptIsNeeded
  <2> SUFFICES ASSUME phase # "plan"
               PROVE  kept = {i \in Nodes : \A S \in SUBSET Nodes : Closed(S) => i \in S}
    BY DEF KeptIsNeeded
  <2>1. kept \in SUBSET Nodes /\ frontier = {}
    BY <1>3 DEF RunInv, WorklistInv
  <2>2. Closed(kept)
    <3> SUFFICES ASSUME NEW i \in Nodes,
                        \/ Node(i).outputs \cap wanted # {}
                        \/ \E j \in kept : Node(i).outputs \cap Reads(j) # {}
                 PROVE  i \in kept
      BY DEF Closed
    <3>1. CASE Node(i).outputs \cap wanted # {}
      BY <1>3, <2>1, <3>1 DEF RunInv, WorklistInv
    <3>2. CASE \E j \in kept : Node(i).outputs \cap Reads(j) # {}
      BY <1>3, <3>2, ProducersKept DEF RunInv
    <3> QED BY <3>1, <3>2
  <2> QED BY <1>3, <2>1, <2>2 DEF NeedInv
<1>4. Scoped /\ RunInv /\ NeedInv => KeptIsNeeded
  BY <1>3
<1> QED BY <1>1, <1>2, <1>4, ScopedRuns, PTL DEF Spec

----------------------------------------------------------------------------
(* Memoized copies.                                                        *)

\* The memo of environment env is current.
Current(env) ==
  \A n \in Name : env[2][n] # Never /\ env[1][n].home \in {"owned", "borrowed"} =>
    env[2][n] = env[1][n].from

LEMMA SetCurrent ==
  ASSUME NEW env, Current(env), NEW ns, NEW value
  PROVE  Current(Set(env, ns, value))
BY DEF Current, Set

LEMMA DeviceCurrent ==
  ASSUME NEW env, Current(env), NEW ns
  PROVE  Current(EnsureDevice(env, ns))
<1> SUFFICES ASSUME NEW n \in Name, EnsureDevice(env, ns)[2][n] # Never,
                    EnsureDevice(env, ns)[1][n].home \in {"owned", "borrowed"}
             PROVE  EnsureDevice(env, ns)[2][n] = EnsureDevice(env, ns)[1][n].from
  BY DEF Current
<1>1. /\ EnsureDevice(env, ns)[1][n] = IF n \in ns THEN OnDevice(env[1][n]) ELSE env[1][n]
      /\ EnsureDevice(env, ns)[2][n] = IF n \in ns /\ env[1][n].home \in {"absent", "host"}
                                         THEN Never ELSE env[2][n]
  BY DEF EnsureDevice
<1>2. n \notin ns \/ (env[1][n].home # "absent" /\ env[1][n].home # "host")
  BY <1>1
<1>3. EnsureDevice(env, ns)[1][n] = env[1][n]
  BY <1>1, <1>2 DEF OnDevice, Absent
<1> QED BY <1>1, <1>2, <1>3 DEF Current

LEMMA HostCurrent ==
  ASSUME NEW env, Current(env), NEW ns, NEW small
  PROVE  Current(HostCopies(env, ns, small))
BY DEF Current, HostCopies

LEMMA ComputeCurrent ==
  ASSUME MemoIsCurrent, NEW ins, NEW outs, NEW id, NEW env \in Compute(ins, outs, id)
  PROVE  Current(env)
<1>1. Current(<<values, memo>>)
  BY DEF Current, MemoIsCurrent
<1>2. Current(EnsureDevice(<<values, memo>>, ins))
  BY <1>1, DeviceCurrent
<1>3. \A small : Current(HostCopies(<<values, memo>>, ins, small))
  BY <1>1, HostCurrent
<1> QED BY <1>2, <1>3, SetCurrent DEF Compute

LEMMA ReleaseCurrent ==
  ASSUME NEW env, Current(env), NEW ns
  PROVE  Current(Release(env, ns))
BY SetCurrent DEF Release

\* A memoized host copy is never of an earlier value of its name (host, set,
\* move_value, release): of any graph, well scoped or not.
THEOREM MemoStaysCurrent == Spec => []MemoIsCurrent
<1>1. Init => MemoIsCurrent
  BY DEF Init, MemoIsCurrent
<1>2. ASSUME MemoIsCurrent, [Next]_vars PROVE MemoIsCurrent'
  <2>1. Current(<<values, memo>>)
    BY <1>2 DEF Current, MemoIsCurrent
  <2>2. CASE UNCHANGED envVars
    BY <1>2, <2>2 DEF MemoIsCurrent, envVars
  <2>3. ASSUME NEW env, Current(env), Become(env) PROVE MemoIsCurrent'
    BY <2>3 DEF Current, MemoIsCurrent, Become
  <2>4. CASE ExecNode
    BY <1>2, <2>2, <2>3, <2>4, ComputeCurrent, ReleaseCurrent DEF ExecNode, Fail
  <2>5. CASE EnterIf
    BY <2>1, <2>2, <2>3, <2>5, HostCurrent, SetCurrent DEF EnterIf, Fail
  <2>6. CASE ExecBranchNode
    BY <1>2, <2>2, <2>3, <2>6, ComputeCurrent DEF ExecBranchNode, Fail
  <2>7. CASE LeaveIf
    BY <2>1, <2>2, <2>3, <2>7, SetCurrent, ReleaseCurrent DEF LeaveIf, MoveValue
  <2>8. ASSUME NEW n \in Name, ReadOutput(n) PROVE MemoIsCurrent'
    BY <2>1, <2>3, <2>8, HostCurrent DEF ReadOutput
  <2>9. CASE Finish
    BY <2>1, <2>3, <2>9, ReleaseCurrent DEF Finish
  <2> QED BY <1>2, <2>2, <2>4, <2>5, <2>6, <2>7, <2>8, <2>9
          DEF Next, vars, Mark, Planned, SkipPruned, Executed
<1> QED BY <1>1, <1>2, PTL DEF Spec

----------------------------------------------------------------------------
(* Types.                                                                  *)

\* What env holds is somewhere and comes from a node of the graph or from outside.
Typed(env) ==
  \A n \in Name :
    /\ \/ env[1][n] = Absent
       \/ env[1][n].home \in Homes /\ env[1][n].from[1] \in 0 .. Len(graph.nodes)
    /\ env[2][n][1] \in 0 .. Len(graph.nodes)

PlaceInv == Typed(<<values, memo>>) /\ chosen \in Nat /\ step \in Nat

LEMMA SetTyped ==
  ASSUME Scoped, NEW env, Typed(env), NEW ns, NEW value,
         \/ value = Absent
         \/ value.home \in Homes /\ value.from[1] \in 0 .. Len(graph.nodes)
  PROVE  Typed(Set(env, ns, value))
<1>1. Never[1] \in 0 .. Len(graph.nodes)
  BY GraphTypes DEF Never
<1> QED BY <1>1 DEF Typed, Set

LEMMA DeviceTyped ==
  ASSUME Scoped, NEW env, Typed(env), NEW ns
  PROVE  Typed(EnsureDevice(env, ns))
<1>1. Never[1] \in 0 .. Len(graph.nodes) /\ Given[1] \in 0 .. Len(graph.nodes)
  BY GraphTypes DEF Never, Given
<1> SUFFICES ASSUME NEW n \in Name
             PROVE  LET e == EnsureDevice(env, ns) IN
                    /\ \/ e[1][n] = Absent
                       \/ e[1][n].home \in Homes /\ e[1][n].from[1] \in 0 .. Len(graph.nodes)
                    /\ e[2][n][1] \in 0 .. Len(graph.nodes)
  BY DEF Typed
<1>2. /\ EnsureDevice(env, ns)[1][n] = IF n \in ns THEN OnDevice(env[1][n]) ELSE env[1][n]
      /\ EnsureDevice(env, ns)[2][n] = IF n \in ns /\ env[1][n].home \in {"absent", "host"}
                                         THEN Never ELSE env[2][n]
  BY DEF EnsureDevice
<1>3. /\ \/ env[1][n] = Absent
         \/ env[1][n].home \in Homes /\ env[1][n].from[1] \in 0 .. Len(graph.nodes)
      /\ env[2][n][1] \in 0 .. Len(graph.nodes)
  BY DEF Typed
<1>4. EnsureDevice(env, ns)[2][n][1] \in 0 .. Len(graph.nodes)
  BY <1>1, <1>2, <1>3
<1>5. /\ OnDevice(env[1][n]).home \in Homes
      /\ OnDevice(env[1][n]).from[1] \in 0 .. Len(graph.nodes)
  BY <1>1, <1>3 DEF OnDevice, Homes
<1>6. EnsureDevice(env, ns)[1][n] = OnDevice(env[1][n]) \/ EnsureDevice(env, ns)[1][n] = env[1][n]
  BY <1>2
<1> QED BY <1>3, <1>4, <1>5, <1>6

LEMMA HostTyped ==
  ASSUME Scoped, NEW env, Typed(env), NEW ns, NEW small
  PROVE  Typed(HostCopies(env, ns, small))
<1> SUFFICES ASSUME NEW n \in Name
             PROVE  HostCopies(env, ns, small)[2][n][1] \in 0 .. Len(graph.nodes)
  BY DEF Typed, HostCopies
<1>1. \/ HostCopies(env, ns, small)[2][n] = env[2][n]
      \/ /\ HostCopies(env, ns, small)[2][n] = env[1][n].from
         /\ env[1][n].home \in {"owned", "borrowed"}
  BY DEF HostCopies
<1> QED BY <1>1 DEF Typed, Absent

LEMMA ComputeTyped ==
  ASSUME Scoped, Typed(<<values, memo>>), NEW ins, NEW outs,
         NEW i \in Nodes, NEW k \in Nat, NEW env \in Compute(ins, outs, <<i, k>>)
  PROVE  Typed(env)
<1>1. Typed(EnsureDevice(<<values, memo>>, ins))
  BY DeviceTyped
<1>2. \A small : Typed(HostCopies(<<values, memo>>, ins, small))
  BY HostTyped
<1>3. <<i, k>>[1] \in 0 .. Len(graph.nodes)
  BY GraphTypes
<1> QED BY <1>1, <1>2, <1>3, SetTyped DEF Compute, Homes

LEMMA ReleaseTyped ==
  ASSUME Scoped, NEW env, Typed(env), NEW ns
  PROVE  Typed(Release(env, ns))
BY SetTyped DEF Release

LEMMA MoveTyped ==
  ASSUME Scoped, NEW env, Typed(env), NEW from \in Name, NEW to
  PROVE  Typed(MoveValue(env, from, to))
<1>1. \/ env[1][from] = Absent
      \/ env[1][from].home \in Homes /\ env[1][from].from[1] \in 0 .. Len(graph.nodes)
  BY DEF Typed
<1> QED BY <1>1, SetTyped DEF MoveValue

LEMMA PlaceStep ==
  ASSUME Scoped, RunInv, PlaceInv, [Next]_vars
  PROVE  PlaceInv'
<1>1. UNCHANGED graph
  BY DEF Next, vars, Mark, Planned, SkipPruned, ExecNode, EnterIf, ExecBranchNode, LeaveIf,
         Executed, ReadOutput, Finish, Fail
<1>2. ASSUME NEW env, Typed(env), Become(env) PROVE Typed(<<values, memo>>)'
  BY <1>1, <1>2 DEF Typed, Become
<1>3. CASE UNCHANGED <<values, memo, chosen, step>>
  BY <1>1, <1>3 DEF PlaceInv, Typed
<1>4. CASE ExecNode
  <2>1. index \in Nodes
    BY <1>4 DEF ExecNode, RunInv, WorklistInv
  <2> QED BY <1>2, <1>3, <1>4, <2>1, ComputeTyped, ReleaseTyped
          DEF ExecNode, Fail, PlaceInv, envVars, runVars
<1>5. CASE EnterIf
  <2>1. index \in Nodes
    BY <1>5 DEF EnterIf, RunInv, WorklistInv
  <2>2. CASE UNCHANGED envVars /\ UNCHANGED <<chosen, step>>
    BY <1>3, <2>2 DEF envVars
  <2>3. CASE UNCHANGED envVars /\ chosen' \in Nat /\ UNCHANGED step
    BY <1>1, <2>3 DEF envVars, PlaceInv, Typed
  <2>4. ASSUME NEW ns, NEW small,
               Become(Set(HostCopies(<<values, memo>>, Node(index).inputs, small), ns,
                          [home |-> "host", from |-> <<index, 0>>]))
        PROVE  Typed(<<values, memo>>)'
    <3>1. [home |-> "host", from |-> <<index, 0>>].from[1] \in 0 .. Len(graph.nodes)
      BY <2>1, GraphTypes
    <3>2. [home |-> "host", from |-> <<index, 0>>].home \in Homes
      BY DEF Homes
    <3>3. Typed(HostCopies(<<values, memo>>, Node(index).inputs, small))
      BY HostTyped DEF PlaceInv
    <3> QED BY <1>2, <2>4, <3>1, <3>2, <3>3, SetTyped
  <2> QED BY <1>5, <2>2, <2>3, <2>4 DEF EnterIf, Fail, PlaceInv, envVars, runVars
<1>6. CASE ExecBranchNode
  <2>1. index \in Nodes
    BY <1>6, InBranch DEF ExecBranchNode
  <2> QED BY <1>2, <1>3, <1>6, <2>1, ComputeTyped
          DEF ExecBranchNode, Fail, PlaceInv, envVars, runVars
<1>7. CASE LeaveIf
  <2>1. Taken.result \in Name
    BY <1>7, InBranch, BranchScope DEF LeaveIf, Taken
  <2> QED BY <1>2, <1>3, <1>7, <2>1, MoveTyped, ReleaseTyped
          DEF LeaveIf, PlaceInv, envVars, runVars
<1>8. ASSUME NEW n \in Name, ReadOutput(n) PROVE PlaceInv'
  BY <1>2, <1>8, HostTyped DEF ReadOutput, PlaceInv, runVars
<1>9. CASE Finish
  BY <1>2, <1>9, ReleaseTyped DEF Finish, PlaceInv, runVars
<1> QED BY <1>3, <1>4, <1>5, <1>6, <1>7, <1>8, <1>9
        DEF Next, vars, Mark, Planned, SkipPruned, Executed, envVars, runVars

\* The state of a run of a well scoped graph is well formed, whatever the graph.
THEOREM RunTypes == WellScopedGraphs => (Spec => []TypeOK)
<1> SUFFICES ASSUME WellScopedGraphs PROVE Spec => []TypeOK
  OBVIOUS
<1>1. ASSUME Init PROVE PlaceInv
  <2>1. Scoped
    BY <1>1, InitInv
  <2>2. Never[1] \in 0 .. Len(graph.nodes) /\ Given[1] \in 0 .. Len(graph.nodes)
    BY <2>1, GraphTypes DEF Never, Given
  <2> QED BY <1>1, <2>2 DEF Init, PlaceInv, Typed, Homes
<1>2. Scoped /\ RunInv /\ PlaceInv /\ [Next]_vars => PlaceInv'
  BY PlaceStep
<1>3. Init => seen \in SUBSET Name
  BY InitInv, GraphTypes DEF Init
<1>4. ASSUME Scoped, RunInv, seen \in SUBSET Name, [Next]_vars PROVE seen' \in SUBSET Name
  <2>1. CASE UNCHANGED seen
    BY <1>4, <2>1
  <2>2. ASSUME NEW m \in Name, Mark(m) PROVE seen' \in SUBSET Name
    BY <1>4, <2>2, NodeTypes DEF Mark
  <2> QED BY <1>4, <2>1, <2>2
          DEF Next, vars, Planned, SkipPruned, ExecNode, EnterIf, ExecBranchNode, LeaveIf,
              Executed, ReadOutput, Finish, Fail, planVars
<1>5. ASSUME Scoped, RunInv, PlaceInv, seen \in SUBSET Name PROVE TypeOK
  BY <1>5 DEF TypeOK, RunInv, WorklistInv, PlaceInv, Typed
<1>6. Init => PlaceInv
  BY <1>1
<1>7. Scoped /\ RunInv /\ seen \in SUBSET Name /\ [Next]_vars => (seen \in SUBSET Name)'
  BY <1>4
<1>8. Scoped /\ RunInv /\ PlaceInv /\ seen \in SUBSET Name => TypeOK
  BY <1>5
<1> QED BY <1>2, <1>3, <1>6, <1>7, <1>8, ScopedRuns, PTL DEF Spec

----------------------------------------------------------------------------
(* The live set.                                                           *)

OwnNames == \A g \in Graphs : WellScoped(g) /\ LocalNames(g)

Owned(value) == value.home = "owned"

\* An operator makes a value the run's own only if it reads or binds it.
LEMMA ComputeOwns ==
  ASSUME NEW ins, NEW outs, NEW id, NEW env \in Compute(ins, outs, id),
         NEW n \in Name, Owned(env[1][n])
  PROVE  Owned(values[n]) \/ n \in ins \cup outs
<1> SUFFICES ASSUME n \notin outs, n \notin ins PROVE Owned(values[n])
  OBVIOUS
<1>1. \A e, v : Set(e, outs, v)[1][n] = e[1][n]
  BY DEF Set
<1>2. EnsureDevice(<<values, memo>>, ins)[1][n] = values[n]
  BY DEF EnsureDevice
<1>3. \A small : HostCopies(<<values, memo>>, ins, small)[1][n] = values[n]
  BY DEF HostCopies
<1> QED BY <1>1, <1>2, <1>3 DEF Compute

LEMMA AbsentNotOwned == ~Owned(Absent)
BY DEF Absent, Owned

\* A node that reads an output of node i comes after it.
LEMMA ReadAfterBound ==
  ASSUME Scoped, NEW i \in Nodes, NEW n \in Node(i).outputs,
         NEW j \in Nodes, n \in Reads(j)
  PROVE  i < j
<1>1. n \in Outer(graph, j)
  <2>1. CASE n \in Node(j).inputs
    BY <2>1, OutputsAreNew
  <2>2. ASSUME NEW c \in 1 .. Len(Node(j).branches),
               NEW k \in 1 .. Len(Node(j).branches[c].nodes),
               n \in Node(j).branches[c].nodes[k].inputs
        PROVE  n \in Outer(graph, j)
    <3> DEFINE b == Node(j).branches[c]
    <3>1. /\ n \in Inner(graph, j, b, k)
          /\ Len(b.nodes) \in Nat
          /\ b.initializers \cap OuterNames(graph) = {}
          /\ \A l \in 1 .. Len(b.nodes) : b.nodes[l].outputs \cap OuterNames(graph) = {}
      BY <2>2, BranchScope
    <3>2. n \in OuterNames(graph)
      BY OuterIsOuter
    <3>3. \A l \in 1 .. k - 1 : l \in 1 .. Len(b.nodes)
      BY <2>2, <3>1
    <3> QED BY <3>1, <3>2, <3>3 DEF Inner
  <2> QED BY <2>1, <2>2 DEF Reads, Captured
<1>2. PICK l \in Nodes : l < j /\ n \in Node(l).outputs
  BY <1>1, OuterBefore, OutputsAreNew
<1>3. l = i
  BY <1>2, OneProducer
<1> QED BY <1>2, <1>3

\* What a node of a branch of node i binds is read by node i, or by no node.
LEMMA LocalRead ==
  ASSUME Scoped, LocalNames(graph), NEW i \in Nodes,
         NEW c \in 1 .. Len(Node(i).branches), NEW b, b = Node(i).branches[c],
         NEW k \in 1 .. Len(b.nodes), NEW n, n \in b.nodes[k].outputs
  PROVE  n \in Reads(i) \/ \A j \in Nodes : n \notin Reads(j)
<1> SUFFICES ASSUME NEW j \in Nodes, n \in Reads(j) PROVE n \in Reads(i)
  OBVIOUS
<1>1. n \notin OuterNames(graph)
  BY BranchScope
<1>2. n \in Captured(j)
  BY <1>1, OutputsAreNew, OuterIsOuter DEF Reads
<1>3. ASSUME NEW l \in Nodes PROVE ReadInside(graph, l, n) <=> n \in Captured(l)
  <2> DEFINE within == {Node(l).branches[m] : m \in 1 .. Len(Node(l).branches)}
  <2> DEFINE read(d) == UNION {d.nodes[m].inputs : m \in 1 .. Len(d.nodes)}
  <2>1. n \in Captured(l) <=> \E d \in within : n \in read(d)
    <3>1. Captured(l) = UNION {read(d) : d \in within}
      BY Zenon DEF Captured
    <3> HIDE DEF read, within
    <3> QED BY <3>1
  <2>2. ReadInside(graph, l, n) <=> \E d \in within : \E m \in 1 .. Len(d.nodes) : n \in d.nodes[m].inputs
    BY Zenon DEF ReadInside, Node
  <2>3. \A d : n \in read(d) <=> \E m \in 1 .. Len(d.nodes) : n \in d.nodes[m].inputs
    OBVIOUS
  <2> HIDE DEF within, read
  <2> QED BY <2>1, <2>2, <2>3
<1>4. ReadInside(graph, i, n)
  BY <1>2, <1>3, SMTT(30) DEF LocalNames, Node, Nodes
<1> QED BY <1>3, <1>4 DEF Reads

\* Past node i, what it does not release is still warranted.
LEMMA WarrantedAfter ==
  ASSUME Scoped, NEW i \in Nodes, NEW n \in Name, Warranted(i, n), n \notin Dead(i)
  PROVE  Warranted(i + 1, n)
<1>1. CASE n \in Reads(i)
  <2>1. \/ n \in graph.outputs \cup graph.initializers
        \/ \E j \in Nodes : j > i /\ n \in Reads(j)
    BY <1>1 DEF Dead
  <2> QED BY <2>1, GraphTypes DEF Warranted
<1>2. CASE n \notin Reads(i)
  <2>1. \A j \in Nodes : j >= i /\ n \in Reads(j) => j >= i + 1
    BY <1>2, GraphTypes
  <2> QED BY <2>1 DEF Warranted
<1> QED BY <1>1, <1>2

LEMMA SameWarrant ==
  ASSUME UNCHANGED graph
  PROVE  \A i, n : Warranted(i, n)' <=> Warranted(i, n)
BY SameGraph DEF Warranted

LEMMA ExecHeld ==
  ASSUME Scoped, RunInv, HeldInv, ExecNode, kept = Nodes,
         NEW n \in Name, Owned(values'[n])
  PROVE  Warranted(index + 1, n)
<1>1. index \in Nodes
  BY DEF ExecNode
<1>2. ~Fail(Node(index).inputs)
  BY <1>1, NodeTypes, OutputsAreNew, ReadsPresent DEF Fail, RunInv, ExecNode
<1>3. PICK env \in Compute(Node(index).inputs, Node(index).outputs, <<index, 0>>) :
        Become(Release(env, Dead(index)))
  BY <1>2 DEF ExecNode
<1>4. /\ n \in Dead(index) => values'[n] = Absent
      /\ n \notin Dead(index) => values'[n] = env[1][n]
  BY <1>3, ReleaseDrops DEF Become
<1>5. n \notin Dead(index) /\ Owned(env[1][n])
  BY <1>4, AbsentNotOwned
<1>6. Owned(values[n]) \/ n \in Node(index).inputs \cup Node(index).outputs
  BY <1>5, ComputeOwns
<1>7. CASE n \in Node(index).outputs
  <2>1. \A j \in Nodes : n \in Reads(j) => j >= index + 1
    BY <1>1, <1>7, ReadAfterBound, GraphTypes
  <2> QED BY <2>1 DEF Warranted
<1>8. CASE n \in Node(index).inputs
  <2>1. Warranted(index, n)
    BY <1>1, <1>8, NodeTypes, GraphTypes DEF Warranted
  <2> QED BY <1>1, <1>5, <2>1, WarrantedAfter
<1>9. CASE Owned(values[n])
  <2>1. Warranted(index, n)
    BY <1>9 DEF HeldInv, ExecNode, Owned
  <2> QED BY <1>1, <1>5, <2>1, WarrantedAfter
<1> QED BY <1>6, <1>7, <1>8, <1>9

LEMMA EnterHeld ==
  ASSUME Scoped, RunInv, HeldInv, EnterIf, phase' = "branch", kept = Nodes,
         NEW n \in Name, Owned(values'[n])
  PROVE  Warranted(index, n)
<1>1. /\ phase = "run" /\ index \in Nodes
      /\ ~Fail(Node(index).inputs)
  BY DEF EnterIf, Fail, RunInv, WorklistInv
<1>2. PICK names, small :
        Become(Set(HostCopies(<<values, memo>>, Node(index).inputs, small),
                   names, [home |-> "host", from |-> <<index, 0>>]))
  BY <1>1 DEF EnterIf
<1>3. ~Owned([home |-> "host", from |-> <<index, 0>>])
  BY DEF Owned
<1>4. Owned(values[n])
  BY <1>2, <1>3 DEF Become, Set, HostCopies
<1> QED BY <1>1, <1>4 DEF HeldInv, Owned

LEMMA BranchNodeHeld ==
  ASSUME Scoped, RunInv, HeldInv, LocalNames(graph), ExecBranchNode, phase' = "branch",
         kept = Nodes, NEW n \in Name, Owned(values'[n])
  PROVE  Warranted(index, n) \/ n \in Taken.initializers
<1> DEFINE node == Taken.nodes[step]
<1>1. /\ phase = "branch" /\ step \in 1 .. Len(Taken.nodes) /\ index \in Nodes
      /\ chosen \in 1 .. Len(Node(index).branches)
  BY InBranch DEF ExecBranchNode
<1>2. node.captured = {}
  BY <1>1, BranchScope DEF Taken
<1>3. ~Fail(node.inputs \cup node.captured)
  BY DEF Fail, ExecBranchNode
<1>4. PICK env \in Compute(node.inputs, node.outputs, <<index, step>>) : Become(env)
  BY <1>2, <1>3 DEF ExecBranchNode
<1>5. Owned(values[n]) \/ n \in node.inputs \/ n \in node.outputs
  <2> DEFINE ins == node.inputs
             outs == node.outputs
             id == <<index, step>>
  <2>1. env \in Compute(ins, outs, id) /\ Owned(env[1][n])
    BY <1>4 DEF Become
  <2> HIDE DEF ins, outs, id
  <2>2. Owned(values[n]) \/ n \in ins \cup outs
    BY <2>1, ComputeOwns
  <2> QED BY <2>2 DEF ins, outs
<1>6. CASE n \in node.inputs
  <2>1. n \in Reads(index)
    BY <1>1, <1>6, BranchReads DEF Taken
  <2> QED BY <1>1, <2>1, GraphTypes DEF Warranted
<1>7. CASE n \in node.outputs
  <2>1. n \in Reads(index) \/ \A j \in Nodes : n \notin Reads(j)
    <3>1. PICK i, c, b, k : i = index /\ c = chosen /\ b = Taken /\ k = step
      OBVIOUS
    <3>2. /\ i \in Nodes /\ c \in 1 .. Len(Node(i).branches)
          /\ b = Node(i).branches[c] /\ k \in 1 .. Len(b.nodes)
      BY <1>1, <3>1 DEF Taken
    <3>3. n \in b.nodes[k].outputs
      BY <1>7, <3>1
    <3>4. n \in Reads(i) \/ \A j \in Nodes : n \notin Reads(j)
      BY <3>2, <3>3, LocalRead
    <3> QED BY <3>1, <3>4
  <2> QED BY <1>1, <2>1, GraphTypes DEF Warranted
<1>8. CASE Owned(values[n])
  BY <1>1, <1>8 DEF HeldInv, Owned
<1> QED BY <1>5, <1>6, <1>7, <1>8

LEMMA LeaveHeld ==
  ASSUME Scoped, RunInv, HeldInv, LeaveIf, phase' = "run", kept = Nodes,
         NEW n \in Name, Owned(values'[n])
  PROVE  Warranted(index + 1, n)
<1>1. /\ phase = "branch" /\ index \in Nodes
      /\ chosen \in 1 .. Len(Node(index).branches)
  BY InBranch DEF LeaveIf
<1>2. PICK to \in Node(index).outputs :
        Become(Release(Release(MoveValue(<<values, memo>>, Taken.result, to),
                               Taken.initializers),
                       Dead(index)))
  BY DEF LeaveIf
<1>3. /\ n \notin Dead(index) /\ n \notin Taken.initializers
      /\ n = to \/ Owned(values[n])
  <2> DEFINE inner == Taken.initializers
             dead == Dead(index)
             from == Taken.result
  <2>1. Become(Release(Release(MoveValue(<<values, memo>>, from, to), inner), dead))
    BY <1>2
  <2> HIDE DEF inner, dead, from
  <2>2. /\ n \in dead \cup inner \cup {from} => values'[n] = Absent
        /\ n \notin dead \cup inner \cup {from, to} => values'[n] = values[n]
    BY <2>1 DEF Become, Release, MoveValue, Set
  <2>3. /\ n \notin dead \cup inner
        /\ n = to \/ Owned(values[n])
    BY <2>2, AbsentNotOwned
  <2> QED BY <2>3 DEF inner, dead
<1>4. CASE n = to
  <2>1. \A j \in Nodes : n \in Reads(j) => j >= index + 1
    BY <1>1, <1>2, <1>4, ReadAfterBound, GraphTypes
  <2> QED BY <2>1 DEF Warranted
<1>5. CASE Owned(values[n])
  <2>1. Warranted(index, n)
    BY <1>1, <1>3, <1>5 DEF HeldInv, Owned
  <2> QED BY <1>1, <1>3, <2>1, WarrantedAfter
<1> QED BY <1>3, <1>4, <1>5

LEMMA HeldStep ==
  ASSUME Scoped, RunInv, HeldInv, LocalNames(graph), [Next]_vars
  PROVE  HeldInv'
<1>1. UNCHANGED graph
  BY DEF Next, vars, Mark, Planned, SkipPruned, ExecNode, EnterIf, ExecBranchNode, LeaveIf,
         Executed, ReadOutput, Finish, Fail
<1>2. Nodes' = Nodes /\ \A i, n : Warranted(i, n)' <=> Warranted(i, n)
  BY <1>1, SameGraph, SameWarrant
<1> SUFFICES ASSUME phase' \in {"run", "branch"}, kept' = Nodes, NEW n \in Name,
                    Owned(values'[n])
             PROVE  Warranted(index', n) \/ (phase' = "branch" /\ n \in Taken'.initializers)
  BY <1>2 DEF HeldInv, Owned
<1>3. CASE Planned
  <2>1. index' = 1
    BY <1>3 DEF Planned, runVars, RunInv
  <2>2. \A j \in Nodes : j >= 1
    BY GraphTypes
  <2> QED BY <2>1, <2>2 DEF Warranted
<1>4. CASE SkipPruned
  BY <1>4 DEF SkipPruned, planVars
<1>5. CASE ExecNode
  <2>1. index' = index + 1 /\ kept = Nodes
    BY <1>5 DEF ExecNode, Fail, planVars
  <2> QED BY <1>5, <2>1, ExecHeld
<1>6. CASE EnterIf
  <2>1. index' = index /\ kept = Nodes /\ phase' = "branch"
    BY <1>6 DEF EnterIf, Fail, planVars, runVars
  <2> QED BY <1>6, <2>1, EnterHeld
<1>7. CASE ExecBranchNode
  <2>1. /\ index' = index /\ kept = Nodes /\ phase' = "branch" /\ chosen' = chosen
    BY <1>7 DEF ExecBranchNode, Fail, planVars, runVars
  <2>2. Taken' = Taken
    BY <1>1, <2>1 DEF Taken, Node
  <2> QED BY <1>7, <2>1, <2>2, BranchNodeHeld
<1>8. CASE LeaveIf
  <2>1. index' = index + 1 /\ kept = Nodes /\ phase' = "run"
    BY <1>8 DEF LeaveIf, planVars, runVars
  <2> QED BY <1>8, <2>1, LeaveHeld
<1>9. CASE UNCHANGED vars
  <2>1. UNCHANGED <<phase, kept, index, chosen, values>>
    BY <1>9 DEF vars, planVars, runVars, envVars
  <2>2. Taken' = Taken
    BY <1>1, <2>1 DEF Taken, Node
  <2> QED BY <2>1, <2>2 DEF HeldInv, Owned
<1> QED BY <1>3, <1>4, <1>5, <1>6, <1>7, <1>8, <1>9
        DEF Next, Mark, Executed, ReadOutput, Finish

\* Runs that keep every node of a well scoped graph, whose branches bind names of
\* their own, hold between nodes only memory that is still needed, or that is read
\* by no node (dead_after, release, if_op).
THEOREM LiveSetStaysHeld == OwnNames => (Spec => []LiveSetHeld)
<1> SUFFICES ASSUME OwnNames PROVE Spec => []LiveSetHeld
  OBVIOUS
<1>1. WellScopedGraphs
  BY DEF OwnNames, WellScopedGraphs
<1>2. Init => HeldInv /\ LocalNames(graph)
  BY DEF Init, HeldInv, OwnNames
<1>3. ASSUME LocalNames(graph), [Next]_vars PROVE LocalNames(graph)'
  <2>1. UNCHANGED graph
    BY <1>3 DEF Next, vars, Mark, Planned, SkipPruned, ExecNode, EnterIf, ExecBranchNode,
                LeaveIf, Executed, ReadOutput, Finish, Fail
  <2> QED BY <1>3, <2>1
<1>4. LocalNames(graph) /\ [Next]_vars => LocalNames(graph)'
  BY <1>3
<1>5. Scoped /\ RunInv /\ HeldInv /\ LocalNames(graph) /\ [Next]_vars => HeldInv'
  BY HeldStep
<1>6. HeldInv => LiveSetHeld
  BY DEF HeldInv, LiveSetHeld, Warranted
<1> QED BY <1>1, <1>2, <1>4, <1>5, <1>6, ScopedRuns, PTL DEF Spec
=============================================================================
