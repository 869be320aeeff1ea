------------------------------ MODULE Partition ------------------------------
(***************************************************************************)
(* Which nodes of a graph the plugin asks ORT to fuse (convex_groups of    *)
(* fusion.rs): nodes it supports are merged along the wires between them,  *)
(* one wire after the other and over again until a pass merges nothing.    *)
(*                                                                         *)
(* A graph is [nodes, wires, supported]: a wire <<u, v>> says that v reads *)
(* what u makes, in the order of the readers and of their inputs.          *)
(***************************************************************************)
EXTENDS Naturals, Sequences, SequencesExt, FiniteSets

CONSTANT Graphs   \* the graphs that are partitioned

VARIABLES
  graph,     \* the graph being partitioned
  ancestors, \* of every node of it
  cluster,   \* the node that stands for the cluster of a node
  wire,      \* the wire looked at next
  changed,   \* the pass has merged something
  groups     \* the groups that are returned, {} before the end

partitionVars == <<graph, ancestors, cluster, wire, changed, groups>>

----------------------------------------------------------------------------
\* The pairs of an ancestor and a node.  The code visits the nodes once, in
\* topological order; a round for every node of the graph comes to the same.
Leads(g) ==
  LET On(pairs) == {pw \in pairs \X ToSet(g.wires) : pw[1][2] = pw[2][1]}
  IN FoldLeft(LAMBDA pairs, k : pairs \cup {<<pw[1][1], pw[2][2]>> : pw \in On(pairs)},
              ToSet(g.wires), [k \in 1 .. Cardinality(g.nodes) |-> k])

Ancestors(g) == LET pairs == Leads(g) IN [v \in g.nodes |-> {u \in g.nodes : <<u, v>> \in pairs}]

\* Wires join nodes of the graph.
ASSUME GraphsWellFormed ==
  \A g \in Graphs : g.wires \in Seq(g.nodes \X g.nodes) /\ g.supported \subseteq g.nodes

\* ORT hands over graphs without cycles.
ASSUME GraphsAcyclic ==
  \A g \in Graphs :
    LET up == Ancestors(g) IN \A u, v \in g.nodes : ~(u \in up[v] /\ v \in up[u])

Above(us) == UNION {ancestors[u] : u \in us}
Below(us) == {v \in graph.nodes : ancestors[v] \cap us # {}}

Members(c) == {u \in graph.nodes : cluster[u] = c}

\* Mutant: only a node outside, not a cluster, is kept from being above and below.
LegalForNodes(us) == (Below(us) \ us) \cap (Above(us) \ us) = {}

\* Mutant: the nodes that are merged are taken for nodes outside.
LegalStrict(us) == {cluster[v] : v \in Below(us)} \cap {cluster[v] : v \in Above(us)} = {}

\* No cluster outside of us has nodes above and nodes below us.
Legal(us) ==
  {cluster[v] : v \in Below(us) \ us} \cap {cluster[v] : v \in Above(us) \ us} = {}

----------------------------------------------------------------------------
PartitionInit ==
  /\ graph \in Graphs
  /\ ancestors = Ancestors(graph)
  /\ cluster = [u \in graph.nodes |-> u]
  /\ wire = 1
  /\ changed = FALSE
  /\ groups = {}

\* The clusters at the ends of the next wire become one, or stay.  The code lists the
\* wires between supported nodes once; here the others are passed over.
Merge ==
  /\ groups = {}
  /\ wire <= Len(graph.wires)
  /\ LET u == graph.wires[wire][1]
         v == graph.wires[wire][2]
         a == cluster[u]
         b == cluster[v]
     IN IF {u, v} \subseteq graph.supported /\ a # b /\ Legal(Members(a) \cup Members(b))
          THEN /\ cluster' = [x \in graph.nodes |-> IF cluster[x] = b THEN a ELSE cluster[x]]
               /\ changed' = TRUE
          ELSE UNCHANGED <<cluster, changed>>
  /\ wire' = wire + 1
  /\ UNCHANGED <<graph, ancestors, groups>>

\* Mutant: the next pass takes this one's changes for its own.
NextPassKeepingChanged ==
  /\ groups = {}
  /\ wire > Len(graph.wires)
  /\ changed
  /\ wire' = 1
  /\ UNCHANGED <<graph, ancestors, cluster, changed, groups>>

\* Mutant: wires are counted from 0.
NextPassFromZero ==
  /\ groups = {}
  /\ wire > Len(graph.wires)
  /\ changed
  /\ wire' = 0
  /\ changed' = FALSE
  /\ UNCHANGED <<graph, ancestors, cluster, groups>>

NextPass ==
  /\ groups = {}
  /\ wire > Len(graph.wires)
  /\ changed
  /\ wire' = 1
  /\ changed' = FALSE
  /\ UNCHANGED <<graph, ancestors, cluster, groups>>

Collect ==
  /\ groups = {}
  /\ wire > Len(graph.wires)
  /\ ~changed
  /\ groups' = {Members(cluster[u]) : u \in graph.supported}
  /\ UNCHANGED <<graph, ancestors, cluster, wire, changed>>

PartitionNext == Merge \/ NextPass \/ Collect

PartitionSpec == PartitionInit /\ [][PartitionNext]_partitionVars

----------------------------------------------------------------------------
PartitionTypeOK ==
  /\ graph \in Graphs
  /\ ancestors = Ancestors(graph)
  /\ cluster \in [graph.nodes -> graph.nodes]
  /\ wire \in Nat \ {0}
  /\ changed \in BOOLEAN

Reaches(c, d) == \E v \in Members(d) : ancestors[v] \cap Members(c) # {}

\* Values flow one way between two clusters: none has to run both before and
\* after another, not even when every step in between is of other nodes.  A node
\* outside is a cluster of its own, so that clusters are convex.
OneWay == \A c, d \in graph.nodes : c # d => ~(Reaches(c, d) /\ Reaches(d, c))

\* Groups are as large as they can be: where a wire between supported nodes leads from
\* one to another, values flow from the two to some third cluster and back to them.
Maximal ==
  groups # {} =>
    \A w \in ToSet(graph.wires) :
      LET ends == {cluster[w[1]], cluster[w[2]]} IN
      {w[1], w[2]} \subseteq graph.supported /\ cluster[w[1]] # cluster[w[2]] =>
        \E c \in graph.nodes \ ends : /\ \E a \in ends : Reaches(a, c)
                                      /\ \E a \in ends : Reaches(c, a)

\* What ORT asks of the groups together: with every group contracted to one node the
\* graph has no cycle, so the clusters can be put in an order.
QuotientAcyclic ==
  LET clusters == {cluster[u] : u \in graph.nodes}
      Direct(c, d) == \E k \in DOMAIN graph.wires :
                        cluster[graph.wires[k][1]] = c /\ cluster[graph.wires[k][2]] = d
      \* what is left when, over and over, the clusters that nothing leads to are taken away
      Rest == FoldLeft(LAMBDA left, k : {c \in left : \E d \in left \ {c} : Direct(d, c)},
                       clusters, [k \in 1 .. Cardinality(clusters) |-> k])
  IN groups # {} => Rest = {}

=============================================================================
