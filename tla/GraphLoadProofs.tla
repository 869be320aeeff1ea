---------------------------- MODULE GraphLoadProofs ----------------------------
(***************************************************************************)
(* Proofs about loading a model.  Its nodes are grouped as Partition says, *)
(* so that what is proved of groups holds of every model the plugin loads. *)
(* Every rewrite leaves a graph of nodes that the interpreter runs if it   *)
(* was given one, with what makes the outputs, and pruning goes on until   *)
(* all that is left is read.                                               *)
(***************************************************************************)
EXTENDS GraphLoad, TensorProofs

----------------------------------------------------------------------------
(* Groups of acyclic graphs of any size: values flow one way between two   *)
(* clusters at every step, and the groups are as large as they can be.     *)

\* The ends of a wire that the present pass has looked at stay apart.
Apart(k) ==
  LET u == graph.wires[k][1]
      v == graph.wires[k][2]
  IN \/ ~({u, v} \subseteq graph.supported)
     \/ cluster[u] = cluster[v]
     \/ ~Legal(Members(cluster[u]) \cup Members(cluster[v]))

\* While a pass has merged nothing, what it has looked at is still as it found it.
PassInv == ~changed => \A k \in 1 .. Len(graph.wires) : k < wire => Apart(k)

DoneInv == groups # {} => ~changed /\ wire > Len(graph.wires)

PartitionInv == PartitionTypeOK /\ OneWay /\ PassInv /\ DoneInv

----------------------------------------------------------------------------
(* Graphs and their clusters.                                              *)

LEMMA WireEnds ==
  ASSUME PartitionTypeOK, NEW k \in 1 .. Len(graph.wires)
  PROVE  graph.wires[k][1] \in graph.nodes /\ graph.wires[k][2] \in graph.nodes
<1>1. graph.wires \in Seq(graph.nodes \X graph.nodes)
  BY GraphsWellFormed DEF PartitionTypeOK
<1>2. graph.wires[k] \in graph.nodes \X graph.nodes
  BY <1>1
<1> QED BY <1>2

LEMMA AncestorsAreNodes ==
  ASSUME NEW g, NEW v \in g.nodes
  PROVE  Ancestors(g)[v] \subseteq g.nodes
BY DEF Ancestors

\* In the beginning every node is its own cluster, and no two nodes lead to each other.
LEMMA InitInv ==
  ASSUME PartitionInit
  PROVE  PartitionInv
<1>1. PartitionTypeOK
  <2>1. wire \in Nat \ {0}
    BY SMT DEF PartitionInit
  <2>2. cluster \in [graph.nodes -> graph.nodes]
    BY DEF PartitionInit
  <2>3. graph \in Graphs /\ ancestors = Ancestors(graph) /\ changed \in BOOLEAN
    BY Zenon DEF PartitionInit
  <2> QED BY <2>1, <2>2, <2>3, Zenon DEF PartitionTypeOK
<1>2. OneWay
  <2> SUFFICES ASSUME NEW c \in graph.nodes, NEW d \in graph.nodes, c # d,
                      Reaches(c, d), Reaches(d, c)
               PROVE  FALSE
    BY DEF OneWay
  <2>1. Members(c) = {c} /\ Members(d) = {d}
    BY DEF Members, PartitionInit
  <2>2. c \in Ancestors(graph)[d] /\ d \in Ancestors(graph)[c]
    BY <2>1 DEF Reaches, PartitionInit
  <2>3. graph \in Graphs
    BY DEF PartitionInit
  <2> QED BY <2>2, <2>3, GraphsAcyclic
<1>3. PassInv
  BY DEF PassInv, PartitionInit
<1>4. DoneInv
  BY DEF DoneInv, PartitionInit
<1> QED BY <1>1, <1>2, <1>3, <1>4 DEF PartitionInv

----------------------------------------------------------------------------
(* Merging.                                                                *)

\* Two clusters become one when no third stands above and below them: nothing else
\* can have changed which clusters lead to which.
LEMMA MergeKeepsOneWay ==
  ASSUME PartitionTypeOK, OneWay,
         NEW a \in graph.nodes, NEW b \in graph.nodes, a # b,
         Legal(Members(a) \cup Members(b)),
         cluster' = [x \in graph.nodes |-> IF cluster[x] = b THEN a ELSE cluster[x]],
         UNCHANGED <<graph, ancestors>>
  PROVE  OneWay'
<1> DEFINE us == Members(a) \cup Members(b)
<1>1. Members(a)' = us
  BY DEF Members, PartitionTypeOK
<1>2. Members(b)' = {}
  BY DEF Members, PartitionTypeOK
<1>3. \A c \in graph.nodes \ {a, b} : Members(c)' = Members(c)
  BY DEF Members, PartitionTypeOK
<1>4. ASSUME NEW d \in graph.nodes \ {a, b}, Reaches(a, d)', Reaches(d, a)'
      PROVE  FALSE
  <2>1. PICK v \in Members(d) : ancestors[v] \cap us # {}
    BY <1>1, <1>3, <1>4 DEF Reaches
  <2>2. v \in graph.nodes /\ cluster[v] = d /\ v \notin us
    BY <2>1, <1>4 DEF Members
  <2>3. d \in {cluster[x] : x \in Below(us) \ us}
    BY <2>1, <2>2 DEF Below
  <2>4. PICK u \in us : ancestors[u] \cap Members(d) # {}
    BY <1>1, <1>3, <1>4 DEF Reaches
  <2>5. PICK w : w \in ancestors[u] /\ w \in Members(d)
    BY <2>4
  <2>6. w \in graph.nodes /\ cluster[w] = d /\ w \notin us
    BY <2>5, <1>4 DEF Members
  <2>7. w \in Above(us)
    BY <2>4, <2>5 DEF Above
  <2>8. d \in {cluster[x] : x \in Above(us) \ us}
    BY <2>6, <2>7
  <2> QED BY <2>3, <2>8 DEF Legal
<1>5. SUFFICES ASSUME NEW c \in graph.nodes, NEW d \in graph.nodes, c # d,
                      Reaches(c, d)', Reaches(d, c)'
               PROVE  FALSE
  BY DEF OneWay
<1>6. c # b /\ d # b
  BY <1>2, <1>5 DEF Reaches
<1>7. CASE c = a
  BY <1>4, <1>5, <1>6, <1>7
<1>8. CASE d = a
  BY <1>4, <1>5, <1>6, <1>8
<1>9. CASE c # a /\ d # a
  <2>1. Reaches(c, d) /\ Reaches(d, c)
    BY <1>3, <1>5, <1>6, <1>9 DEF Reaches
  <2> QED BY <2>1, <1>5 DEF OneWay
<1> QED BY <1>7, <1>8, <1>9

\* What a pass finds apart stays apart while clusters are what they are.
LEMMA ApartStays ==
  ASSUME UNCHANGED <<graph, ancestors, cluster>>, NEW k
  PROVE  Apart(k)' <=> Apart(k)
BY DEF Apart, Legal, Members, Above, Below

LEMMA OneWayStays ==
  ASSUME OneWay, UNCHANGED <<graph, ancestors, cluster>>
  PROVE  OneWay'
BY DEF OneWay, Reaches, Members

LEMMA MergeInv ==
  ASSUME PartitionInv, Merge
  PROVE  PartitionInv'
<1> DEFINE u == graph.wires[wire][1]
           v == graph.wires[wire][2]
           a == cluster[u]
           b == cluster[v]
<1>1. PartitionTypeOK /\ OneWay /\ PassInv /\ wire \in 1 .. Len(graph.wires)
  <2>1. wire \in Nat \ {0} /\ wire <= Len(graph.wires)
    BY DEF PartitionInv, PartitionTypeOK, Merge
  <2>2. Len(graph.wires) \in Nat
    BY GraphsWellFormed DEF PartitionInv, PartitionTypeOK
  <2> QED BY <2>1, <2>2 DEF PartitionInv
<1>2. u \in graph.nodes /\ v \in graph.nodes
  BY <1>1, WireEnds
<1>3. a \in graph.nodes /\ b \in graph.nodes
  BY <1>1, <1>2 DEF PartitionTypeOK
<1>4. groups' = groups /\ groups = {} /\ wire' = wire + 1 /\ UNCHANGED <<graph, ancestors>>
  BY DEF Merge
<1>5. DoneInv'
  BY <1>4 DEF DoneInv
<1>6. CASE {u, v} \subseteq graph.supported /\ a # b /\ Legal(Members(a) \cup Members(b))
  <2>1. /\ cluster' = [x \in graph.nodes |-> IF cluster[x] = b THEN a ELSE cluster[x]]
        /\ changed' = TRUE
    BY <1>6 DEF Merge
  <2>2. PartitionTypeOK'
    BY <1>1, <1>3, <1>4, <2>1 DEF PartitionTypeOK
  <2>3. OneWay'
    BY <1>1, <1>3, <1>4, <1>6, <2>1, MergeKeepsOneWay
  <2>4. PassInv'
    BY <2>1 DEF PassInv
  <2> QED BY <1>5, <2>2, <2>3, <2>4 DEF PartitionInv
<1>7. CASE ~({u, v} \subseteq graph.supported /\ a # b /\ Legal(Members(a) \cup Members(b)))
  <2>1. UNCHANGED <<cluster, changed>>
    BY <1>7 DEF Merge
  <2>2. PartitionTypeOK'
    BY <1>1, <1>4, <2>1 DEF PartitionTypeOK
  <2>3. OneWay'
    BY <1>1, <1>4, <2>1, OneWayStays
  <2>4. Apart(wire)
    BY <1>7 DEF Apart
  <2>5. PassInv'
    <3> SUFFICES ASSUME ~changed', NEW k \in 1 .. Len(graph.wires), k < wire + 1
                 PROVE  Apart(k)'
      BY <1>4 DEF PassInv
    <3>1. k = wire \/ k < wire
      BY <1>1
    <3>2. Apart(k)
      BY <1>1, <2>1, <2>4, <3>1 DEF PassInv
    <3> QED BY <1>4, <2>1, <3>2, ApartStays
  <2> QED BY <1>5, <2>2, <2>3, <2>5 DEF PartitionInv
<1> QED BY <1>6, <1>7

LEMMA NextPassInv ==
  ASSUME PartitionInv, NextPass
  PROVE  PartitionInv'
<1>1. /\ wire' = 1 /\ changed' = FALSE /\ groups = {}
      /\ UNCHANGED <<graph, ancestors, cluster, groups>>
  BY DEF NextPass
<1>2. wire' \in Nat \ {0}
  BY <1>1
<1>3. PartitionTypeOK'
  BY <1>1, <1>2, Zenon DEF PartitionInv, PartitionTypeOK
<1>4. OneWay'
  BY <1>1, OneWayStays DEF PartitionInv
<1>5. PassInv'
  BY <1>1 DEF PassInv
<1>6. DoneInv'
  BY <1>1 DEF DoneInv
<1> QED BY <1>3, <1>4, <1>5, <1>6 DEF PartitionInv

LEMMA CollectInv ==
  ASSUME PartitionInv, Collect
  PROVE  PartitionInv'
<1>1. /\ wire > Len(graph.wires) /\ ~changed
      /\ UNCHANGED <<graph, ancestors, cluster, wire, changed>>
  BY DEF Collect
<1>2. PartitionTypeOK' /\ OneWay'
  BY <1>1, OneWayStays DEF PartitionInv, PartitionTypeOK
<1>3. PassInv'
  BY <1>1, ApartStays DEF PassInv, PartitionInv
<1>4. DoneInv'
  BY <1>1 DEF DoneInv
<1> QED BY <1>2, <1>3, <1>4 DEF PartitionInv

LEMMA StutterInv ==
  ASSUME PartitionInv, UNCHANGED partitionVars
  PROVE  PartitionInv'
<1>1. PartitionTypeOK' /\ OneWay' /\ DoneInv'
  BY OneWayStays DEF PartitionInv, PartitionTypeOK, DoneInv, partitionVars
<1>2. PassInv'
  BY ApartStays DEF PassInv, PartitionInv, partitionVars
<1> QED BY <1>1, <1>2 DEF PartitionInv

----------------------------------------------------------------------------
(* The theorems.                                                           *)

\* The passes of convex_groups keep clusters named and one way.
THEOREM PartitionInductive == PartitionSpec => []PartitionInv
<1>1. PartitionInit => PartitionInv
  BY InitInv
<1>2. PartitionInv /\ [PartitionNext]_partitionVars => PartitionInv'
  BY MergeInv, NextPassInv, CollectInv, StutterInv DEF PartitionNext
<1> QED BY <1>1, <1>2, PTL DEF PartitionSpec

\* The partition of a graph keeps its type: clusters stand for nodes of the graph
\* (the union-find of convex_groups).
THEOREM PartitionTyped == PartitionSpec => []PartitionTypeOK
<1>1. PartitionInv => PartitionTypeOK
  BY DEF PartitionInv
<1> QED BY <1>1, PartitionInductive, PTL

\* Clusters of supported nodes have no others in them, and they alone become groups.
ClustersApart ==
  \A u, v \in graph.nodes : cluster[u] = cluster[v] /\ u \in graph.supported => v \in graph.supported

OnlySupported == \A group \in groups : group \subseteq graph.supported

LEMMA MergeKeepsApart ==
  ASSUME PartitionTypeOK, ClustersApart, NEW u \in graph.supported, NEW v \in graph.supported,
         UNCHANGED graph,
         cluster' = [x \in graph.nodes |-> IF cluster[x] = cluster[v] THEN cluster[u] ELSE cluster[x]]
  PROVE  ClustersApart'
<1>1. u \in graph.nodes /\ v \in graph.nodes
  BY GraphsWellFormed DEF PartitionTypeOK
<1>2. SUFFICES ASSUME NEW x \in graph.nodes, NEW y \in graph.nodes,
                      cluster'[x] = cluster'[y], x \in graph.supported
               PROVE  y \in graph.supported
  BY DEF ClustersApart
<1>3. \A z \in graph.nodes :
        cluster'[z] = IF cluster[z] = cluster[v] THEN cluster[u] ELSE cluster[z]
  OBVIOUS
<1>4. CASE cluster[y] = cluster[v] \/ cluster[y] = cluster[u]
  BY <1>1, <1>4 DEF ClustersApart
<1>5. CASE cluster[y] # cluster[v] /\ cluster[y] # cluster[u]
  <2>1. cluster[x] = cluster[y]
    BY <1>2, <1>3, <1>5
  <2> QED BY <1>2, <2>1 DEF ClustersApart
<1> QED BY <1>4, <1>5

\* The groups that the plugin asks for are of nodes it supports (convex_groups drops the
\* sets of the others).
THEOREM GroupsAreSupported == PartitionSpec => []OnlySupported
<1> DEFINE Inv == ClustersApart /\ OnlySupported
<1>1. PartitionInit => Inv
  BY DEF PartitionInit, ClustersApart, OnlySupported
<1>2. Inv /\ PartitionTypeOK /\ [PartitionNext]_partitionVars => Inv'
  <2> SUFFICES ASSUME Inv, PartitionTypeOK, [PartitionNext]_partitionVars
               PROVE  Inv'
    OBVIOUS
  <2>1. CASE Merge
    <3>1. UNCHANGED <<graph, groups>>
      BY <2>1 DEF Merge
    <3>2. CASE UNCHANGED cluster
      BY <3>1, <3>2 DEF ClustersApart, OnlySupported
    <3>3. CASE ~UNCHANGED cluster
      <4> DEFINE u == graph.wires[wire][1]
                 v == graph.wires[wire][2]
      <4>1. /\ u \in graph.supported /\ v \in graph.supported
            /\ cluster' = [x \in graph.nodes |-> IF cluster[x] = cluster[v] THEN cluster[u] ELSE cluster[x]]
        BY <2>1, <3>3 DEF Merge
      <4> HIDE DEF u, v
      <4>2. ClustersApart'
        BY <3>1, <4>1, MergeKeepsApart
      <4> QED BY <3>1, <4>2 DEF OnlySupported
    <3> QED BY <3>2, <3>3
  <2>2. CASE NextPass
    BY <2>2 DEF NextPass, ClustersApart, OnlySupported
  <2>3. CASE Collect
    <3>1. UNCHANGED <<graph, cluster>> /\ groups' = {Members(cluster[u]) : u \in graph.supported}
      BY <2>3 DEF Collect
    <3>2. ClustersApart'
      BY <3>1 DEF ClustersApart
    <3>3. ASSUME NEW u \in graph.supported
          PROVE  Members(cluster[u]) \subseteq graph.supported
      <4>1. u \in graph.nodes
        BY GraphsWellFormed DEF PartitionTypeOK
      <4> QED BY <4>1 DEF Members, ClustersApart
    <3> QED BY <3>1, <3>2, <3>3 DEF OnlySupported
  <2>4. CASE UNCHANGED partitionVars
    BY <2>4 DEF partitionVars, ClustersApart, OnlySupported
  <2> QED BY <2>1, <2>2, <2>3, <2>4 DEF PartitionNext
<1>3. Inv => OnlySupported
  OBVIOUS
<1> QED BY <1>1, <1>2, <1>3, PartitionTyped, PTL DEF PartitionSpec

\* No two clusters lead to each other, however the wires are ordered: what the
\* test of a merge in convex_groups is for.
THEOREM ValuesFlowOneWay == PartitionSpec => []OneWay
<1>1. PartitionInv => OneWay
  BY DEF PartitionInv
<1> QED BY <1>1, PartitionInductive, PTL

\* A pass of convex_groups that merges nothing has seen that nothing can be merged:
\* groups that a wire joins are kept apart by a third cluster between them.
THEOREM GroupsAreMaximal == PartitionSpec => []Maximal
<1>1. PartitionInv => Maximal
  <2> SUFFICES ASSUME PartitionInv, groups # {},
                      NEW w \in ToSet(graph.wires),
                      {w[1], w[2]} \subseteq graph.supported, cluster[w[1]] # cluster[w[2]]
               PROVE  \E c \in graph.nodes \ {cluster[w[1]], cluster[w[2]]} :
                        /\ \E a \in {cluster[w[1]], cluster[w[2]]} : Reaches(a, c)
                        /\ \E a \in {cluster[w[1]], cluster[w[2]]} : Reaches(c, a)
    BY DEF Maximal
  <2> DEFINE a == cluster[w[1]]
             b == cluster[w[2]]
             us == Members(a) \cup Members(b)
  <2>1. PICK k \in 1 .. Len(graph.wires) : w = graph.wires[k]
    <3>1. graph.wires \in Seq(graph.nodes \X graph.nodes)
      BY GraphsWellFormed DEF PartitionInv, PartitionTypeOK
    <3> QED BY <3>1 DEF ToSet
  <2>2. k < wire /\ ~changed
    <3>1. wire \in Nat /\ wire > Len(graph.wires) /\ ~changed
      BY DEF PartitionInv, PartitionTypeOK, DoneInv
    <3>2. Len(graph.wires) \in Nat
      BY GraphsWellFormed DEF PartitionInv, PartitionTypeOK
    <3> QED BY <2>1, <3>1, <3>2
  <2>3. Apart(k)
    BY <2>2 DEF PartitionInv, PassInv
  <2>4. ~Legal(us)
    BY <2>1, <2>3 DEF Apart
  <2>5. PICK x \in Below(us) \ us, y \in Above(us) \ us : cluster[x] = cluster[y]
    BY <2>4 DEF Legal
  <2>6. ancestors = Ancestors(graph) /\ cluster \in [graph.nodes -> graph.nodes]
    BY DEF PartitionInv, PartitionTypeOK
  <2>7. x \in graph.nodes /\ ancestors[x] \cap us # {}
    BY <2>5 DEF Below
  <2>8. PICK z \in us : y \in ancestors[z]
    BY <2>5 DEF Above
  <2>9. z \in graph.nodes
    BY <2>8 DEF Members
  <2>10. y \in graph.nodes
    BY <2>6, <2>8, <2>9, AncestorsAreNodes
  <2>11. cluster[x] \in graph.nodes /\ cluster[x] # a /\ cluster[x] # b
    BY <2>5, <2>6, <2>7 DEF Members
  <2>12. x \in Members(cluster[x]) /\ y \in Members(cluster[x])
    BY <2>5, <2>7, <2>10 DEF Members
  <2>13. Reaches(a, cluster[x]) \/ Reaches(b, cluster[x])
    BY <2>7, <2>12 DEF Reaches
  <2>14. Reaches(cluster[x], a) \/ Reaches(cluster[x], b)
    BY <2>8, <2>12 DEF Reaches
  <2> QED BY <2>11, <2>13, <2>14
<1> QED BY <1>1, PartitionInductive, PTL

----------------------------------------------------------------------------
(* Places in a list some of whose entries are left out.                    *)

UpTo(S, i) == {j \in S : j <= i}
Within(S, n) == \A x \in S : x \in Int /\ x >= 1 /\ x <= n

\* Positions in a list are finitely many, no more than its length.
LEMMA UpToIs ==
  ASSUME NEW n \in Nat, NEW S, Within(S, n)
  PROVE  /\ IsFiniteSet(S) /\ Cardinality(S) \in Nat /\ Cardinality(S) <= n
         /\ \A i \in Int : IsFiniteSet(UpTo(S, i)) /\ Cardinality(UpTo(S, i)) \in Nat
<1>1. IsFiniteSet(1 .. n) /\ Cardinality(1 .. n) = n
  BY FS_Interval
<1>0. S \in SUBSET (1 .. n)
  BY DEF Within
<1>2. IsFiniteSet(S) /\ Cardinality(S) <= n
  BY <1>0, <1>1, FS_Subset
<1>3. \A i \in Int : IsFiniteSet(UpTo(S, i))
  <2> TAKE i \in Int
  <2>1. UpTo(S, i) \in SUBSET S
    BY DEF UpTo
  <2> QED BY <1>2, <2>1, FS_Subset
<1> QED BY <1>2, <1>3, FS_CardinalityType

\* One more is at or below a member than below it.
LEMMA OneMore ==
  ASSUME NEW n \in Nat, NEW S, Within(S, n), NEW m \in Int
  PROVE  Cardinality(UpTo(S, m))
           = IF m \in S THEN Cardinality(UpTo(S, m - 1)) + 1 ELSE Cardinality(UpTo(S, m - 1))
<1>1. CASE m \in S
  <2>0. \A j : j \in UpTo(S, m) <=> j \in UpTo(S, m - 1) \/ j = m
    <3> TAKE j
    <3>1. j \in S => (j <= m <=> j <= m - 1 \/ j = m)
      BY DEF Within
    <3>2. m <= m
      OBVIOUS
    <3> QED BY <1>1, <3>1, <3>2, Zenon DEF UpTo
  <2>3. m \notin UpTo(S, m - 1)
    BY DEF UpTo
  <2>1. UpTo(S, m) = UpTo(S, m - 1) \cup {m} /\ m \notin UpTo(S, m - 1)
    BY <2>0, <2>3
  <2>2. IsFiniteSet(UpTo(S, m - 1))
    BY UpToIs
  <2> QED BY <1>1, <2>1, <2>2, FS_AddElement
<1>2. CASE m \notin S
  <2>1. UpTo(S, m) = UpTo(S, m - 1)
    <3>1. \A j \in S : j <= m <=> j <= m - 1
      BY <1>2 DEF Within
    <3> QED BY <3>1, Zenon DEF UpTo
  <2> QED BY <1>2, <2>1
<1> QED BY <1>1, <1>2

\* Every count up to that of the set is the rank of a member.
LEMMA RankIsMet ==
  ASSUME NEW n \in Nat, NEW S, Within(S, n), NEW k \in 1 .. Cardinality(S)
  PROVE  \E i \in S : Cardinality(UpTo(S, i)) = k
<1> DEFINE C(i) == Cardinality(UpTo(S, i))
           T == {i \in 0 .. n : C(i) >= k}
<1>1. C(n) = Cardinality(S) /\ C(0) = 0
  <2>1. UpTo(S, n) = S /\ UpTo(S, 0) = {}
    BY DEF UpTo, Within
  <2> QED BY <2>1, FS_EmptySet
<1>2. \A i \in Int : C(i) \in Nat
  BY UpToIs
<1>3. \A i \in Int : C(i) = IF i \in S THEN C(i - 1) + 1 ELSE C(i - 1)
  BY OneMore
<1>4. Cardinality(S) \in Nat
  BY UpToIs
<1> HIDE DEF C
<1>5. n \in T /\ T \in SUBSET Nat
  BY <1>1, <1>4
<1>6. PICK m \in T : \A i \in T : m <= i
  BY <1>5, LeastNatural
<1>7. m \in 1 .. n /\ m - 1 \notin T /\ m - 1 \in 0 .. n
  BY <1>1, <1>6
<1>8. C(m - 1) < k /\ C(m) >= k /\ C(m - 1) \in Nat /\ C(m) \in Nat
  BY <1>2, <1>7, <1>6
<1>9. m \in S /\ C(m) = k
  BY <1>3, <1>7, <1>8
<1> QED BY <1>9 DEF C

\* Members that follow each other have different ranks.
LEMMA RankTells ==
  ASSUME NEW n \in Nat, NEW S, Within(S, n), NEW a \in S, NEW b \in S, a < b
  PROVE  Cardinality(UpTo(S, a)) # Cardinality(UpTo(S, b))
<1>1. UpTo(S, a) \in SUBSET UpTo(S, b) /\ b \in UpTo(S, b) /\ b \notin UpTo(S, a)
  BY DEF UpTo, Within
<1>2. IsFiniteSet(UpTo(S, b))
  BY UpToIs DEF Within
<1> QED BY <1>1, <1>2, FS_Subset

----------------------------------------------------------------------------
Plain(s) == s = [i \in DOMAIN s |-> s[i]]

Left(g, removed, replaced) == {i \in NodesOf(g) : i \in DOMAIN replaced \/ i \notin removed}

\* What takes the place of a node that is left.
InPlace(g, replaced, i) == IF i \in DOMAIN replaced THEN replaced[i] ELSE g.nodes[i]

\* Every place of a rebuilt list holds what was left or a replacement, in the old order.
LEMMA RebuiltIs ==
  ASSUME NEW g, Listed(g.nodes), NEW removed, NEW replaced
  PROVE  /\ Listed(Rebuilt(g, removed, replaced)) /\ Plain(Rebuilt(g, removed, replaced))
         /\ Len(Rebuilt(g, removed, replaced)) = Cardinality(Left(g, removed, replaced))
         /\ \A k \in DOMAIN Rebuilt(g, removed, replaced) : \E i \in Left(g, removed, replaced) :
              /\ Cardinality(UpTo(Left(g, removed, replaced), i)) = k
              /\ Rebuilt(g, removed, replaced)[k] = InPlace(g, replaced, i)
<1> DEFINE S == Left(g, removed, replaced)
           rank == [i \in S |-> Cardinality({j \in S : j <= i})]
           at(k) == CHOOSE i \in S : rank[i] = k
           new == [k \in 1 .. Cardinality(S) |-> InPlace(g, replaced, at(k))]
<1>1. Rebuilt(g, removed, replaced) = new
  BY DEF Rebuilt, InPlace, Left
<1>2. Len(g.nodes) \in Nat /\ Within(S, Len(g.nodes))
  BY DEF Listed, Within, Left, NodesOf
<1>3. Cardinality(S) \in Nat
  BY <1>2, UpToIs
<1>4. \A i \in S : rank[i] = Cardinality(UpTo(S, i))
  BY DEF UpTo
<1> HIDE DEF S
<1>5. Listed(new) /\ Plain(new) /\ Len(new) = Cardinality(S) /\ DOMAIN new = 1 .. Cardinality(S)
  BY <1>3 DEF Listed, Plain
<1>6. ASSUME NEW k \in DOMAIN new
      PROVE  \E i \in S : Cardinality(UpTo(S, i)) = k /\ new[k] = InPlace(g, replaced, i)
  <2>1. k \in 1 .. Cardinality(S)
    BY <1>5
  <2>2. \E i \in S : rank[i] = k
    BY <1>2, <1>4, <2>1, RankIsMet
  <2>3. at(k) \in S /\ rank[at(k)] = k
    BY <2>2
  <2> QED BY <1>4, <2>1, <2>3
<1> HIDE DEF new
<1> QED BY <1>1, <1>5, <1>6 DEF S

\* Nothing is lost: what is left has its place.
LEMMA RebuiltKeeps ==
  ASSUME NEW g, Listed(g.nodes), NEW removed, NEW replaced, NEW i \in Left(g, removed, replaced)
  PROVE  \E k \in DOMAIN Rebuilt(g, removed, replaced) :
            Rebuilt(g, removed, replaced)[k] = InPlace(g, replaced, i)
<1> DEFINE S == Left(g, removed, replaced)
           new == Rebuilt(g, removed, replaced)
           k == Cardinality(UpTo(S, i))
<1>1. Len(g.nodes) \in Nat /\ Within(S, Len(g.nodes))
  BY DEF Listed, Within, Left, NodesOf
<1> HIDE DEF S
<1>2. /\ Listed(new) /\ Len(new) = Cardinality(S)
      /\ \A q \in DOMAIN new : \E j \in S :
           Cardinality(UpTo(S, j)) = q /\ new[q] = InPlace(g, replaced, j)
  BY RebuiltIs DEF S
<1> HIDE DEF new
<1>3. i \in S /\ i \in Int
  BY <1>1 DEF S, Within
<1>4. /\ IsFiniteSet(S) /\ IsFiniteSet(UpTo(S, i)) /\ k \in Nat /\ Cardinality(S) \in Nat
  BY <1>1, <1>3, UpToIs
<1>5. UpTo(S, i) \in SUBSET S /\ i \in UpTo(S, i)
  BY <1>3 DEF UpTo
<1>6. k <= Cardinality(S) /\ k # 0
  BY <1>4, <1>5, FS_Subset, FS_EmptySet
<1>7. k \in DOMAIN new
  BY <1>2, <1>4, <1>6 DEF Listed
<1>8. PICK j \in S : Cardinality(UpTo(S, j)) = k /\ new[k] = InPlace(g, replaced, j)
  BY <1>2, <1>7
<1>9. i = j
  <2>1. ~(i < j) /\ ~(j < i)
    BY <1>1, <1>3, <1>8, RankTells
  <2> QED BY <1>1, <1>3, <2>1 DEF Within
<1> QED BY <1>7, <1>8, <1>9 DEF new

\* What is removed and not replaced makes the list shorter.
LEMMA RebuiltShorter ==
  ASSUME NEW g, Listed(g.nodes), NEW removed, NEW replaced,
         NEW i \in NodesOf(g), i \notin Left(g, removed, replaced)
  PROVE  Len(Rebuilt(g, removed, replaced)) < Len(g.nodes)
<1> DEFINE S == Left(g, removed, replaced)
           n == Len(g.nodes)
<1>1. Len(Rebuilt(g, removed, replaced)) = Cardinality(S)
  BY RebuiltIs
<1>2. n \in Nat /\ S \in SUBSET (1 .. n) /\ i \in 1 .. n /\ i \notin S
  BY DEF Listed, Left, NodesOf
<1> HIDE DEF S, n
<1>3. IsFiniteSet(1 .. n) /\ Cardinality(1 .. n) = n
  BY <1>2, FS_Interval
<1>4. IsFiniteSet(S) /\ Cardinality(S) <= n /\ Cardinality(S) # n
  BY <1>2, <1>3, FS_Subset
<1>5. Cardinality(S) \in Nat
  BY <1>4, FS_CardinalityType
<1> QED BY <1>1, <1>2, <1>4, <1>5 DEF S, n

\* Where nothing is removed the list stays.
LEMMA RebuiltWhole ==
  ASSUME NEW g, Listed(g.nodes), Plain(g.nodes), NEW removed, Left(g, removed, <<>>) = NodesOf(g)
  PROVE  Rebuilt(g, removed, <<>>) = g.nodes
<1> DEFINE new == Rebuilt(g, removed, <<>>)
           n == Len(g.nodes)
<1>1. n \in Nat /\ NodesOf(g) = 1 .. n
  BY DEF Listed, NodesOf
<1>2. /\ Listed(new) /\ Plain(new) /\ Len(new) = Cardinality(1 .. n)
      /\ \A q \in DOMAIN new : \E j \in 1 .. n :
           Cardinality(UpTo(1 .. n, j)) = q /\ new[q] = InPlace(g, <<>>, j)
  BY <1>1, RebuiltIs
<1> HIDE DEF new
<1>3. DOMAIN new = DOMAIN g.nodes
  <2>1. Cardinality(1 .. n) = n
    <3> HIDE DEF n
    <3> QED BY <1>1, FS_Interval
  <2> QED BY <1>1, <1>2, <2>1 DEF Listed, NodesOf
<1>4. ASSUME NEW q \in DOMAIN new
      PROVE  new[q] = g.nodes[q]
  <2>1. PICK j \in 1 .. n : Cardinality(UpTo(1 .. n, j)) = q /\ new[q] = InPlace(g, <<>>, j)
    BY <1>2
  <2>2. UpTo(1 .. n, j) = 1 .. j
    BY <1>1 DEF UpTo
  <2>3. Cardinality(1 .. j) = j
    BY <1>1, FS_Interval
  <2> QED BY <2>1, <2>2, <2>3 DEF InPlace
<1>5. new = [q \in DOMAIN new |-> new[q]] /\ g.nodes = [q \in DOMAIN g.nodes |-> g.nodes[q]]
  BY <1>2 DEF Plain
<1>6. [q \in DOMAIN new |-> new[q]] = [q \in DOMAIN g.nodes |-> g.nodes[q]]
  BY <1>3, <1>4
<1> QED BY <1>5, <1>6 DEF new

----------------------------------------------------------------------------
WellFormed(g) ==
  /\ DOMAIN g = {"nodes", "initializers", "inputs", "outputs"}
  /\ Listed(g.nodes) /\ Plain(g.nodes)

\* A node makes a value.
Makes(g, n) == n # "" /\ \E i \in NodesOf(g) : n \in ToSet(g.nodes[i].outputs)

\* h makes what g makes of the outputs, and its outputs are those of g.
HandsOut(g, h) == \A n \in h.outputs : Makes(g, n) => Makes(h, n)
Shows(g, h) == h.outputs = g.outputs /\ \A n \in g.outputs : Makes(g, n) => Makes(h, n)

\* The nodes that make a value somebody reads.
WithReaders(g) ==
  {i \in NodesOf(g) : (ToSet(g.nodes[i].outputs) \ {""}) \cap Read(g) # {}}

\* Nothing is in g that is not in h, and it is asked for the same.
Part(g, h) ==
  /\ g.outputs = h.outputs /\ g.inputs = h.inputs /\ g.initializers = h.initializers
  /\ \A i \in NodesOf(g) : \E j \in NodesOf(h) : g.nodes[i] = h.nodes[j]

\* What is read is told by nodes and outputs.
LEMMA SameRead ==
  ASSUME NEW g, NEW h, g.nodes = h.nodes, g.outputs = h.outputs
  PROVE  Read(g) = Read(h) /\ WithReaders(g) = WithReaders(h) /\ NodesOf(g) = NodesOf(h)
BY DEF Read, CapturedNames, WithReaders, NodesOf

\* Without replacements a node that is left stays as it is.
LEMMA StaysInPlace ==
  ASSUME NEW g, NEW i
  PROVE  InPlace(g, <<>>, i) = g.nodes[i]
<1>1. DOMAIN <<>> = {}
  OBVIOUS
<1> QED BY <1>1, Zenon DEF InPlace

\* A round of dropping leaves the nodes with readers; it drops one or all have readers.
LEMMA DroppedIs ==
  ASSUME NEW g, WellFormed(g)
  PROVE  /\ WellFormed(Dropped(g)) /\ Part(Dropped(g), g) /\ Shows(g, Dropped(g))
         /\ WithReaders(g) = NodesOf(g) => WithReaders(Dropped(g)) = NodesOf(Dropped(g))
         /\ WithReaders(g) # NodesOf(g) => Len(Dropped(g).nodes) < Len(g.nodes)
<1> DEFINE removed == NodesOf(g) \ WithReaders(g)
           new == Rebuilt(g, removed, <<>>)
<1>1. Dropped(g) = [g EXCEPT !.nodes = new]
  BY DEF Dropped, WithReaders
<1>2. Left(g, removed, <<>>) = WithReaders(g) /\ WithReaders(g) \subseteq NodesOf(g)
  <2>1. WithReaders(g) \subseteq NodesOf(g)
    BY DEF WithReaders
  <2>2. DOMAIN <<>> = {}
    OBVIOUS
  <2> QED BY <2>1, <2>2, Zenon DEF Left
<1> HIDE DEF removed
<1>3. Listed(g.nodes) /\ Plain(g.nodes)
  BY DEF WellFormed
<1>4. /\ Listed(new) /\ Plain(new)
      /\ \A k \in DOMAIN new : \E i \in Left(g, removed, <<>>) :
           Cardinality(UpTo(Left(g, removed, <<>>), i)) = k /\ new[k] = InPlace(g, <<>>, i)
  BY <1>3, RebuiltIs
<1>5. WithReaders(g) = NodesOf(g) => new = g.nodes
  BY <1>2, <1>3, RebuiltWhole
<1>6. WithReaders(g) # NodesOf(g) => Len(new) < Len(g.nodes)
  BY <1>2, <1>3, RebuiltShorter
<1> HIDE DEF new
<1>7. /\ Dropped(g).nodes = new /\ Dropped(g).outputs = g.outputs
      /\ Dropped(g).inputs = g.inputs /\ Dropped(g).initializers = g.initializers
      /\ WellFormed(Dropped(g))
  BY <1>1, <1>4 DEF WellFormed
<1>8. Part(Dropped(g), g)
  <2> SUFFICES ASSUME NEW k \in DOMAIN new
               PROVE  \E j \in NodesOf(g) : new[k] = g.nodes[j]
    BY <1>7, Zenon DEF Part, NodesOf
  <2>1. PICK i \in NodesOf(g) : new[k] = InPlace(g, <<>>, i)
    BY <1>2, <1>4
  <2> QED BY <2>1 DEF InPlace
<1>9. Shows(g, Dropped(g))
  <2> SUFFICES ASSUME NEW n \in g.outputs, n # "", NEW i \in NodesOf(g), n \in ToSet(g.nodes[i].outputs)
               PROVE  \E k \in DOMAIN new : n \in ToSet(new[k].outputs)
    BY <1>7, Zenon DEF Shows, Makes, NodesOf
  <2>1. i \in Left(g, removed, <<>>)
    BY <1>2 DEF WithReaders, Read
  <2>2. PICK k \in DOMAIN new : new[k] = InPlace(g, <<>>, i)
    BY <1>3, <2>1, RebuiltKeeps DEF new
  <2>3. InPlace(g, <<>>, i) = g.nodes[i]
    BY StaysInPlace
  <2>4. new[k].outputs = g.nodes[i].outputs
    BY <2>2, <2>3
  <2>5. n \in ToSet(new[k].outputs)
    BY <2>4
  <2> QED BY <2>5
<1> QED BY <1>5, <1>6, <1>7, <1>8, <1>9, SameRead

\* A part of a part is a part.
LEMMA PartOfPart ==
  ASSUME NEW f, NEW g, NEW h, Part(f, g), Part(g, h)
  PROVE  Part(f, h)
BY DEF Part

\* Two rewrites in turn make what the second makes of the outputs of the first.
LEMMA ShowsOn ==
  ASSUME NEW f, NEW g, NEW h, Shows(f, g), Shows(g, h)
  PROVE  Shows(f, h)
BY DEF Shows

\* The steps of the loops over a graph: nodes that nobody reads are dropped, a stand-in
\* takes the place of a masked value, a match is kept that shares no node with others.
Stand(node, m) == IF m = NoMatch THEN node ELSE RepointedTo(node, m.masked, m.instead)

Attached(ms, m) ==
  IF m.members = {} \/ \E n \in ms : n.members \cap m.members # {} THEN ms ELSE ms \cup {m}

Step(loop, x, k, over) ==
  CASE loop = "drop"  -> Dropped(x)
    [] loop = "stand" -> Stand(x, over[k])
    [] loop = "find"  -> Attached(x, LayerNormAt(over, k))
    [] loop = "fold"  -> FoldStep(over, x, k)

Rounds(r, loop, first, over, n) ==
  r = [k \in 0 .. n |-> IF k = 0 THEN first ELSE Step(loop, r[k - 1], k, over)]

\* A loop of n steps defines what every step leaves.
LEMMA RoundsExist ==
  ASSUME NEW loop, NEW first, NEW over, NEW n \in Nat
  PROVE  \E r : Rounds(r, loop, first, over, n)
<1> DEFINE T == {m \in Nat : ~ \E r : Rounds(r, loop, first, over, m)}
<1>1. SUFFICES ASSUME n \in T
               PROVE  FALSE
  OBVIOUS
<1>2. PICK m \in T : \A k \in T : m <= k
  BY <1>1, LeastNatural
<1>3. m \in Nat /\ ~ \E r : Rounds(r, loop, first, over, m)
  BY <1>2
<1>4. CASE m = 0
  <2>1. Rounds([k \in 0 .. 0 |-> first], loop, first, over, 0)
    BY DEF Rounds
  <2> QED BY <1>3, <1>4, <2>1
<1>5. CASE m # 0
  <2>1. m - 1 \in Nat /\ m - 1 \notin T
    <3> HIDE DEF T
    <3> QED BY <1>2, <1>3, <1>5
  <2>2. PICK r : Rounds(r, loop, first, over, m - 1)
    BY <2>1, Zenon
  <2> DEFINE s == [k \in 0 .. m |-> IF k = m THEN Step(loop, r[m - 1], m, over) ELSE r[k]]
  <2>3. ASSUME NEW k \in 0 .. m
        PROVE  s[k] = IF k = 0 THEN first ELSE Step(loop, s[k - 1], k, over)
    <3>1. CASE k = m
      <4>1. s[k] = Step(loop, r[m - 1], m, over) /\ s[k - 1] = r[k - 1]
        BY <1>3, <1>5, <3>1
      <4> QED BY <1>5, <3>1, <4>1
    <3>2. CASE k = 0
      BY <1>5, <2>1, <2>2, <3>2 DEF Rounds
    <3>3. CASE k \in 1 .. m - 1
      <4>1. k \in 0 .. m - 1 /\ k - 1 \in 0 .. m /\ k # m /\ k - 1 # m
        BY <1>3, <3>3
      <4>2. s[k] = r[k] /\ s[k - 1] = r[k - 1]
        BY <4>1
      <4>3. r[k] = Step(loop, r[k - 1], k, over)
        BY <2>2, <3>3, <4>1 DEF Rounds
      <4> QED BY <3>3, <4>2, <4>3
    <3> QED BY <1>3, <3>1, <3>2, <3>3
  <2>4. Rounds(s, loop, first, over, m)
    BY <2>3 DEF Rounds
  <2> QED BY <1>3, <2>4
<1> QED BY <1>4, <1>5

\* Dropping ends with a graph of which every node is read (prune_dead_nodes).
LEMMA PrunedIs ==
  ASSUME NEW g, WellFormed(g)
  PROVE  /\ WellFormed(PruneNodes(g)) /\ Part(PruneNodes(g), g) /\ Shows(g, PruneNodes(g))
         /\ WithReaders(PruneNodes(g)) = NodesOf(PruneNodes(g))
<1> DEFINE n == Len(g.nodes)
           after[k \in 0 .. n] == IF k = 0 THEN g ELSE Dropped(after[k - 1])
           Good(k) == /\ WellFormed(after[k]) /\ Part(after[k], g) /\ Shows(g, after[k])
                      /\ \/ WithReaders(after[k]) = NodesOf(after[k])
                         \/ Len(after[k].nodes) <= n - k
           T == {m \in 0 .. n : ~Good(m)}
<1>1. PruneNodes(g) = after[n]
  BY DEF PruneNodes
<1>2. n \in Nat
  BY DEF WellFormed, Listed
<1>3. after = [k \in 0 .. n |-> IF k = 0 THEN g ELSE Dropped(after[k - 1])]
  <2>1. PICK r : Rounds(r, "drop", g, g, n)
    <3> HIDE DEF n
    <3> QED BY <1>2, RoundsExist
  <2>2. r = [k \in 0 .. n |-> IF k = 0 THEN g ELSE Dropped(r[k - 1])]
    BY <2>1 DEF Rounds, Step
  <2> QED BY <2>2, Zenon
<1> HIDE DEF after
<1>4. Good(0)
  BY <1>2, <1>3 DEF Part, Shows
<1>5. ASSUME NEW m \in 1 .. n, Good(m - 1)
      PROVE  Good(m)
  <2> DEFINE h == after[m - 1]
  <2>1. after[m] = Dropped(h)
    BY <1>2, <1>3
  <2>2. WellFormed(h) /\ Part(h, g) /\ Shows(g, h)
    BY <1>5
  <2>3. /\ WellFormed(Dropped(h)) /\ Part(Dropped(h), h) /\ Shows(h, Dropped(h))
        /\ WithReaders(h) = NodesOf(h) => WithReaders(Dropped(h)) = NodesOf(Dropped(h))
        /\ WithReaders(h) # NodesOf(h) => Len(Dropped(h).nodes) < Len(h.nodes)
    BY <2>2, DroppedIs
  <2>4. Len(h.nodes) \in Nat /\ Len(Dropped(h).nodes) \in Nat
    BY <2>2, <2>3 DEF WellFormed, Listed
  <2>5. Part(Dropped(h), g) /\ Shows(g, Dropped(h))
    BY <2>2, <2>3, PartOfPart, ShowsOn
  <2>6. CASE WithReaders(h) = NodesOf(h)
    BY <2>1, <2>3, <2>5, <2>6
  <2>7. CASE WithReaders(h) # NodesOf(h)
    <3>1. Len(h.nodes) <= n - (m - 1)
      BY <1>5, <2>7
    <3>2. Len(Dropped(h).nodes) <= n - m
      BY <1>2, <2>3, <2>4, <2>7, <3>1
    <3> QED BY <2>1, <2>3, <2>5, <3>2
  <2> QED BY <2>6, <2>7
<1> HIDE DEF Good
<1>6. Good(n)
  <2> SUFFICES ASSUME n \in T
               PROVE  FALSE
    BY <1>2
  <2>0. T \in SUBSET Nat
    BY <1>2
  <2>1. PICK m \in T : \A k \in T : m <= k
    <3> HIDE DEF T
    <3> QED BY <2>0, LeastNatural
  <2>2. m \in 1 .. n /\ m - 1 \in 0 .. n /\ m - 1 \notin T
    BY <1>2, <1>4, <2>1
  <2> QED BY <1>5, <2>1, <2>2
<1>7. CASE Len(after[n].nodes) <= n - n
  <2>1. NodesOf(after[n]) = {}
    BY <1>2, <1>6, <1>7 DEF Good, WellFormed, Listed, NodesOf
  <2>2. WithReaders(after[n]) = {}
    BY <2>1 DEF WithReaders
  <2> QED BY <1>1, <1>6, <2>1, <2>2 DEF Good
<1> QED BY <1>1, <1>6, <1>7 DEF Good

----------------------------------------------------------------------------
(* Tensors that are held as constants: what is computed of those that are  *)
(* as long as their shapes say is as long as its shape says.               *)

\* A product of whole numbers is one.
LEMMA ProductInt ==
  ASSUME NEW s \in Seq(Int)
  PROVE  Product(s) \in Int
<1> DEFINE n == Len(s)
<1>1. n \in Nat /\ n \in 0 .. n /\ DOMAIN s = 1 .. n /\ \A d \in 1 .. n : s[d] \in Int
  OBVIOUS
<1> HIDE DEF n
<1>2. PICK p : Partials(p, "times", 1, s, n) /\ Product(s) = p[n]
  BY <1>1, ProductIs
<1> QED BY <1>1, <1>2, PartialsAre DEF n

\* The elements of a scalar, of a list and of a row.
LEMMA FewDimensions ==
  ASSUME NEW a \in Nat
  PROVE  Product(<<>>) = 1 /\ Product(<<a>>) = a /\ Product(<<1, a>>) = a
<1>1. Product(<<>>) = 1
  <2>1. PICK p : Partials(p, "times", 1, <<>>, 0) /\ Product(<<>>) = p[0]
    BY ProductIs
  <2> QED BY <2>1 DEF Partials
<1>2. Product(<<a>>) = a
  <2>0. DOMAIN <<a>> = 1 .. 1
    OBVIOUS
  <2>1. PICK p : Partials(p, "times", 1, <<a>>, 1) /\ Product(<<a>>) = p[1]
    BY <2>0, ProductIs
  <2>2. p[0] = 1 /\ p[1] = p[0] * <<a>>[1]
    BY <2>1 DEF Partials, Took
  <2> QED BY <2>1, <2>2
<1>3. Product(<<1, a>>) = a
  <2>0. DOMAIN <<1, a>> = 1 .. 2
    OBVIOUS
  <2>1. PICK p : Partials(p, "times", 1, <<1, a>>, 2) /\ Product(<<1, a>>) = p[2]
    BY <2>0, ProductIs
  <2>2. p[0] = 1 /\ p[1] = p[0] * <<1, a>>[1] /\ p[2] = p[1] * <<1, a>>[2]
    BY <2>1 DEF Partials, Took
  <2> QED BY <2>1, <2>2
<1> QED BY <1>1, <1>2, <1>3

LEMMA StoredNew ==
  ASSUME NEW dtype, ElemSize(dtype) > 0, NEW shape \in Seq(Nat),
         NEW data \in [0 .. Product(shape) - 1 -> Int]
  PROVE  Stored(New(dtype, shape, data))
BY DEF Stored, New, Count

\* What is stored passes validate.
LEMMA StoredIs ==
  ASSUME NEW x, Stored(x)
  PROVE  /\ Valid(x) /\ TensorOf(Int, x) /\ Size(x) = Count(x) /\ Count(x) \in Nat
         /\ DOMAIN x.data = 0 .. Count(x) - 1
<1>1. TensorOf(Int, x)
  BY DEF Stored, TensorOf
<1>2. Size(x) = Count(x) /\ Count(x) \in Nat /\ DOMAIN x.data = 0 .. Count(x) - 1
  BY <1>1, SizeIs
<1>3. Concrete(x.shape)
  BY DEF Stored, Concrete
<1> QED BY <1>1, <1>2, <1>3 DEF Valid, Stored

LEMMA HalfIs ==
  ASSUME NEW m \in Int
  PROVE  Truncated(m, 2) \in Int
BY DEF Truncated, Magnitude

\* Elements are read as whole numbers or as halves.
LEMMA ReadAsNumbers ==
  ASSUME NEW x, Stored(x)
  PROVE  /\ ToInt(x) \in [0 .. Count(x) - 1 -> Int]
         /\ ToFloat(x) \in [0 .. Count(x) - 1 -> Int]
<1>1. x.data \in [0 .. Count(x) - 1 -> Int] /\ DOMAIN x.data = 0 .. Count(x) - 1
  BY DEF Stored
<1>2. ASSUME NEW i \in DOMAIN x.data
      PROVE  /\ ToInt(x)[i] \in Int
             /\ ToFloat(x)[i] = IF x.dtype = "FLOAT" THEN x.data[i] ELSE 2 * ToInt(x)[i]
  <2>1. ToFloat(x)[i] = IF x.dtype = "FLOAT" THEN x.data[i] ELSE 2 * ToInt(x)[i]
    BY DEF ToFloat
  <2>2. ToInt(x)[i] = CASE x.dtype = "FLOAT" -> Truncated(x.data[i], 2)
                        [] x.dtype = "BOOL"  -> IF x.data[i] # 0 THEN 1 ELSE 0
                        [] OTHER -> x.data[i]
    BY DEF ToInt
  <2>3. x.data[i] \in Int /\ Truncated(x.data[i], 2) \in Int
    BY <1>1, HalfIs
  <2> QED BY <2>1, <2>2, <2>3
<1>3. ToInt(x) = [i \in DOMAIN x.data |-> ToInt(x)[i]] /\ ToFloat(x) = [i \in DOMAIN x.data |-> ToFloat(x)[i]]
  BY DEF ToInt, ToFloat
<1>4. ASSUME NEW i \in DOMAIN x.data
      PROVE  ToFloat(x)[i] \in Int
  <2>1. x.data[i] \in Int /\ ToInt(x)[i] \in Int
    BY <1>1, <1>2
  <2>2. 2 * ToInt(x)[i] \in Int
    BY <2>1
  <2> QED BY <1>2, <2>1, <2>2
<1> QED BY <1>1, <1>2, <1>3, <1>4

LEMMA CastStored ==
  ASSUME NEW x, Stored(x), NEW to, Cast(x, to) # Refused
  PROVE  Stored(Cast(x, to))
<1>1. \/ Cast(x, to) = x
      \/ to = "FLOAT" /\ Cast(x, to) = New(to, x.shape, ToFloat(x))
      \/ to \in {"INT64", "INT32"} /\ Cast(x, to) = New(to, x.shape, ToInt(x))
      \/ /\ to = "BOOL"
         /\ Cast(x, to) = New(to, x.shape, [i \in DOMAIN x.data |-> IF ToInt(x)[i] # 0 THEN 1 ELSE 0])
  BY DEF Cast
<1>2. /\ x.shape \in Seq(Nat) /\ DOMAIN x.data = 0 .. Product(x.shape) - 1
      /\ ToInt(x) \in [0 .. Product(x.shape) - 1 -> Int]
      /\ ToFloat(x) \in [0 .. Product(x.shape) - 1 -> Int]
  BY ReadAsNumbers, StoredIs DEF Stored, Count
<1>3. [i \in DOMAIN x.data |-> IF ToInt(x)[i] # 0 THEN 1 ELSE 0] \in [0 .. Product(x.shape) - 1 -> Int]
  BY <1>2
<1>4. \A dtype \in {"FLOAT", "INT64", "INT32", "BOOL"} : ElemSize(dtype) > 0
  BY DEF ElemSize
<1> QED BY <1>1, <1>2, <1>3, <1>4, StoredNew

LEMMA DequantizeStored ==
  ASSUME NEW x, Stored(x), NEW scale, Stored(scale), NEW zero, Stored(zero),
         DequantizeLinear(x, scale, zero) # Refused
  PROVE  Stored(DequantizeLinear(x, scale, zero))
<1> DEFINE v(i) == (ToInt(x)[i] - ToInt(zero)[0]) * ToFloat(scale)[0]
           data == [i \in DOMAIN x.data |-> v(i)]
<1>1. Size(scale) = 1 /\ Size(zero) = 1 /\ DequantizeLinear(x, scale, zero) = New("FLOAT", x.shape, data)
  BY Zenon DEF DequantizeLinear
<1>2. /\ x.shape \in Seq(Nat) /\ DOMAIN x.data = 0 .. Product(x.shape) - 1
      /\ ToInt(x) \in [0 .. Product(x.shape) - 1 -> Int]
  BY ReadAsNumbers, StoredIs DEF Stored, Count
<1>3. ToInt(zero)[0] \in Int
  <2>1. ToInt(zero) \in [0 .. Count(zero) - 1 -> Int] /\ Count(zero) = 1
    BY <1>1, ReadAsNumbers, StoredIs
  <2> QED BY <2>1
<1>4. ToFloat(scale)[0] \in Int
  <2>1. ToFloat(scale) \in [0 .. Count(scale) - 1 -> Int] /\ Count(scale) = 1
    BY <1>1, ReadAsNumbers, StoredIs
  <2> QED BY <2>1
<1>5. ASSUME NEW i \in DOMAIN x.data
      PROVE  v(i) \in Int
  <2>1. ToInt(x)[i] \in Int
    BY <1>2
  <2>2. ToInt(x)[i] - ToInt(zero)[0] \in Int
    BY <1>3, <2>1
  <2> QED BY <1>4, <2>2, MulInt
<1> HIDE DEF v
<1>6. data \in [0 .. Product(x.shape) - 1 -> Int]
  BY <1>2, <1>5
<1>7. ElemSize("FLOAT") > 0
  BY DEF ElemSize
<1> HIDE DEF data
<1> QED BY <1>1, <1>2, <1>6, <1>7, StoredNew

LEMMA ConcatStored ==
  ASSUME NEW n \in Nat, NEW inputs, inputs = [k \in 1 .. n |-> inputs[k]],
         \A k \in 1 .. n : Stored(inputs[k]), NEW axis \in Int, Concat(inputs, axis) # Refused
  PROVE  Stored(Concat(inputs, axis))
<1> DEFINE S == {inputs[k] : k \in 1 .. n}
<1>1. inputs \in Seq(S) /\ DOMAIN inputs = 1 .. n
  OBVIOUS
<1>2. \A k \in DOMAIN inputs : TensorOf(Int, inputs[k])
  BY <1>1, StoredIs
<1>3. TensorOf(Int, Concat(inputs, axis))
  <2> HIDE DEF S
  <2> QED BY <1>1, <1>2, ConcatWithin
<1>4. inputs # <<>> /\ Concat(inputs, axis).dtype = inputs[1].dtype
  <2>1. inputs # <<>> /\ \E shape, data : Concat(inputs, axis) = New(inputs[1].dtype, shape, data)
    BY Zenon DEF Concat
  <2> QED BY <2>1 DEF New
<1>5. Stored(inputs[1])
  <2>1. n # 0
    <3>1. SUFFICES ASSUME n = 0 PROVE FALSE
      OBVIOUS
    <3>2. inputs \in Seq(S) /\ Len(inputs) = 0
      BY <1>1, <3>1
    <3> HIDE DEF S
    <3> QED BY <1>4, <3>2
  <2>2. 1 \in 1 .. n
    BY <2>1
  <2> QED BY <2>2, Zenon
<1> QED BY <1>3, <1>4, <1>5 DEF Stored, TensorOf

\* A new shape has as many elements, of whatever is asked for (resolve_reshape).
LEMMA ReshapeResolved ==
  ASSUME NEW shape \in Seq(Nat), NEW requested \in Seq(Int),
         ResolveReshape(shape, requested) # Refused
  PROVE  LET to == ResolveReshape(shape, requested).shape IN
         to \in Seq(Nat) /\ Product(to) = Product(shape)
<1> DEFINE copied == [d \in DOMAIN requested |->
                        IF requested[d] # 0 THEN requested[d]
                        ELSE IF d <= Len(shape) THEN shape[d] ELSE 0]
           open == {d \in DOMAIN copied : copied[d] = -1}
           plain == [d \in DOMAIN copied |-> IF copied[d] = -1 THEN 1 ELSE copied[d]]
           known == Product(plain)
           left == Product(shape) \div known
           found == IF open = {} THEN copied ELSE [copied EXCEPT ![Min(open)] = left]
<1>1. /\ ResolveReshape(shape, requested) = [shape |-> found]
      /\ ~(open # {} /\ known < 1) /\ Concrete(found) /\ Product(found) = Product(shape)
  BY Zenon DEF ResolveReshape
<1>2. Len(requested) \in Nat /\ DOMAIN requested = 1 .. Len(requested)
  OBVIOUS
<1>3. /\ copied \in Seq(Int) /\ DOMAIN copied = 1 .. Len(requested)
      /\ copied = [d \in 1 .. Len(requested) |-> copied[d]]
  <2>1. \A d \in 1 .. Len(requested) : copied[d] \in Int
    OBVIOUS
  <2> HIDE DEF copied
  <2>2. copied = [d \in 1 .. Len(requested) |-> copied[d]]
    BY DEF copied
  <2> QED BY <1>2, <2>1, <2>2
<1> HIDE DEF copied
<1>4. plain \in Seq(Int)
  BY <1>2, <1>3
<1> HIDE DEF plain
<1>5. known \in Int /\ Product(shape) \in Nat
  BY <1>4, ProductInt, ProductNat
<1> HIDE DEF known
<1>6. open # {} => left \in Int
  <2> SUFFICES ASSUME open # {}
               PROVE  left \in Int
    OBVIOUS
  <2>1. known >= 1
    BY <1>1, <1>5
  <2> DEFINE whole == Product(shape)
  <2>2. whole \in Int
    BY <1>5
  <2> HIDE DEF whole
  <2>3. whole \div known \in Int
    BY <1>5, <2>1, <2>2
  <2> QED BY <2>3 DEF whole
<1> HIDE DEF left, open
<1>7. DOMAIN found = 1 .. Len(requested) /\ \A d \in 1 .. Len(requested) : found[d] \in Int
  BY <1>2, <1>3, <1>6
<1>8. found = [d \in 1 .. Len(requested) |-> found[d]]
  BY <1>3
<1> HIDE DEF found
<1>9. \A d \in 1 .. Len(requested) : found[d] \in Nat
  BY <1>1, <1>7 DEF Concrete
<1>10. found \in Seq(Nat)
  BY <1>2, <1>8, <1>9
<1>11. ResolveReshape(shape, requested).shape = found
  BY <1>1
<1> QED BY <1>1, <1>10, <1>11

\* What a node gives of stored constants is stored (fold_constants).
LEMMA EvaluateStored ==
  ASSUME NEW node, Sayable(node), NEW n \in Nat \ {0}, NEW xs, xs = [k \in 1 .. n |-> xs[k]],
         \A k \in 1 .. n : Stored(xs[k]), Evaluate(node, xs) # Refused
  PROVE  Stored(Evaluate(node, xs))
<1> DEFINE value == Evaluate(node, xs)
           zero == New(xs[1].dtype, <<>>, [i \in {0} |-> 0])
           to == ResolveReshape(xs[1].shape, Ints(xs[2]))
<1>1. node.domain = "" /\ value = Evaluated(node, xs)
  BY DEF Evaluate
<1>2. Len(xs) = n /\ 1 \in 1 .. n /\ Stored(xs[1])
  <2>1. Len(xs) = n /\ 1 \in 1 .. n
    OBVIOUS
  <2> QED BY <2>1
<1>3. \/ node.op = "DequantizeLinear" /\ n = 2 /\ value = DequantizeLinear(xs[1], xs[2], zero)
      \/ node.op = "DequantizeLinear" /\ n = 3 /\ value = DequantizeLinear(xs[1], xs[2], xs[3])
      \/ node.op = "Cast" /\ value = Cast(xs[1], node.attrs.to)
      \/ node.op = "Concat" /\ Has(node, "axis") /\ value = Concat(xs, node.attrs.axis)
      \/ /\ node.op = "Reshape" /\ n = 2 /\ to # Refused
         /\ value = New(xs[1].dtype, to.shape, xs[1].data)
  BY <1>1, <1>2 DEF Evaluated
<1> HIDE DEF value
<1>4. CASE n = 2 /\ value = DequantizeLinear(xs[1], xs[2], zero)
  <2>1. Stored(zero)
    <3>1. Product(<<>>) = 1 /\ <<>> \in Seq(Nat)
      <4>1. 0 \in Nat /\ <<>> \in Seq(Nat)
        OBVIOUS
      <4> QED BY <4>1, FewDimensions
    <3>2. [i \in {0} |-> 0] \in [0 .. Product(<<>>) - 1 -> Int]
      BY <3>1
    <3>3. ElemSize(xs[1].dtype) > 0
      BY <1>2 DEF Stored
    <3> QED BY <3>1, <3>2, <3>3, StoredNew
  <2>2. Stored(xs[2])
    BY <1>4
  <2> HIDE DEF zero
  <2> QED BY <1>2, <1>4, <2>1, <2>2, DequantizeStored DEF value
<1>5. CASE n = 3 /\ value = DequantizeLinear(xs[1], xs[2], xs[3])
  <2>1. Stored(xs[2]) /\ Stored(xs[3])
    BY <1>5
  <2> QED BY <1>2, <1>5, <2>1, DequantizeStored DEF value
<1>6. CASE value = Cast(xs[1], node.attrs.to)
  BY <1>2, <1>6, CastStored DEF value
<1>7. CASE node.op = "Concat" /\ Has(node, "axis") /\ value = Concat(xs, node.attrs.axis)
  <2>1. node.attrs.axis \in Int
    BY <1>7 DEF Sayable
  <2> QED BY <1>7, <2>1, ConcatStored DEF value
<1>8. CASE n = 2 /\ to # Refused /\ value = New(xs[1].dtype, to.shape, xs[1].data)
  <2>1. Ints(xs[2]) \in Seq(Int)
    <3>1. /\ Stored(xs[2]) /\ Size(xs[2]) = Count(xs[2]) /\ Count(xs[2]) \in Nat
          /\ ToInt(xs[2]) \in [0 .. Count(xs[2]) - 1 -> Int]
      BY <1>8, StoredIs, ReadAsNumbers
    <3> DEFINE m == Count(xs[2])
               v == ToInt(xs[2])
    <3>2. Ints(xs[2]) = [k \in 1 .. m |-> v[k - 1]] /\ m \in Nat /\ v \in [0 .. m - 1 -> Int]
      BY <3>1 DEF Ints
    <3> HIDE DEF m, v
    <3>3. \A k \in 1 .. m : v[k - 1] \in Int
      BY <3>2
    <3> QED BY <3>2, <3>3
  <2>2. xs[1].shape \in Seq(Nat) /\ ElemSize(xs[1].dtype) > 0
        /\ xs[1].data \in [0 .. Product(xs[1].shape) - 1 -> Int]
    BY <1>2 DEF Stored, Count
  <2>3. to.shape \in Seq(Nat) /\ Product(to.shape) = Product(xs[1].shape)
    BY <1>8, <2>1, <2>2, ReshapeResolved
  <2> HIDE DEF to
  <2>4. Stored(New(xs[1].dtype, to.shape, xs[1].data))
    BY <2>2, <2>3, StoredNew
  <2> HIDE DEF zero
  <2> QED BY <1>8, <2>4, Zenon DEF value
<1> HIDE DEF zero, to
<1> QED BY <1>3, <1>4, <1>5, <1>6, <1>7, <1>8

\* Tables of stored tensors, one over the other and several together.
LEMMA AtopStored ==
  ASSUME NEW f, NEW g, AllStored(f), AllStored(g)
  PROVE  AllStored(Atop(f, g))
BY DEF AllStored, Atop

LEMMA TogetherStored ==
  ASSUME NEW tables, \A t \in tables : AllStored(t)
  PROVE  AllStored(Together(tables))
<1> SUFFICES ASSUME NEW name \in DOMAIN Together(tables)
             PROVE  Stored(Together(tables)[name])
  BY DEF AllStored
<1> DEFINE chosen == CHOOSE t \in tables : name \in DOMAIN t
<1>1. name \in UNION {DOMAIN t : t \in tables} /\ Together(tables)[name] = chosen[name]
  BY DEF Together
<1>2. chosen \in tables /\ name \in DOMAIN chosen
  BY <1>1
<1> HIDE DEF chosen
<1> QED BY <1>1, <1>2 DEF AllStored

\* What Constant nodes hold and initializers are stored.
LEMMA ConstantsStored ==
  ASSUME NEW g, DataOK(g)
  PROVE  AllStored(Constants(g))
<1> DEFINE given == {i \in DOMAIN g.nodes :
                       g.nodes[i].op = "Constant" /\ g.nodes[i].domain = "" /\ Has(g.nodes[i], "value")}
           at(m) == CHOOSE i \in given : g.nodes[i].outputs[1] = m
           held == ConstantOutputs(g.nodes)
<1>1. held = [m \in {g.nodes[i].outputs[1] : i \in given} |-> g.nodes[at(m)].attrs.value]
  BY Zenon DEF ConstantOutputs
<1>2. ASSUME NEW m \in DOMAIN held
      PROVE  Stored(held[m])
  <2>1. PICK i \in given : m = g.nodes[i].outputs[1]
    BY <1>1
  <2>2. at(m) \in given
    BY <2>1
  <2>3. held[m] = g.nodes[at(m)].attrs.value
    BY <1>1
  <2> HIDE DEF at, held
  <2>4. Sayable(g.nodes[at(m)])
    BY <2>2 DEF DataOK, NodesOf
  <2> QED BY <2>2, <2>3, <2>4 DEF Sayable
<1> HIDE DEF held
<1>3. AllStored(g.initializers) /\ AllStored(held)
  BY <1>2 DEF DataOK, AllStored
<1> QED BY <1>3, AtopStored DEF Constants, held

\* A number as a constant, and a row of zeros.
LEMMA InitStored ==
  ASSUME NEW n \in Int
  PROVE  Stored(Int64Init(n))
<1>1. Product(<<1>>) = 1 /\ <<1>> \in Seq(Nat)
  <2>1. 1 \in Nat /\ <<1>> \in Seq(Nat)
    OBVIOUS
  <2> QED BY <2>1, FewDimensions
<1>2. [i \in {0} |-> n] \in [0 .. Product(<<1>>) - 1 -> Int]
  BY <1>1
<1>3. ElemSize("INT64") > 0
  BY DEF ElemSize
<1> QED BY <1>1, <1>2, <1>3, StoredNew DEF Int64Init

LEMMA RowStored ==
  ASSUME NEW width \in Nat
  PROVE  Stored(ZeroRow(width))
<1>1. Product(<<1, width>>) = width /\ <<1, width>> \in Seq(Nat)
  <2>1. <<1, width>> \in Seq(Nat)
    OBVIOUS
  <2> QED BY <2>1, FewDimensions
<1>2. [i \in 0 .. width - 1 |-> 0] \in [0 .. Product(<<1, width>>) - 1 -> Int]
  BY <1>1
<1>3. ElemSize("FLOAT") > 0
  BY DEF ElemSize
<1> QED BY <1>1, <1>2, <1>3, StoredNew DEF ZeroRow

\* A step that is picked is a number (unsqueezed_scalar).
LEMMA StepIsNumber ==
  ASSUME NEW g, NEW constants, AllStored(constants), NEW i, StepAt(g, constants, i) # <<>>
  PROVE  StepAt(g, constants, i)[1] \in Int
<1>1. \E name : StepAt(g, constants, i) = <<>> \/ StepAt(g, constants, i) = UnsqueezedScalar(g, constants, name)
  BY Zenon DEF StepAt
<1>2. PICK name : StepAt(g, constants, i) = UnsqueezedScalar(g, constants, name)
  BY <1>1
<1>3. \E source : \/ UnsqueezedScalar(g, constants, name) = <<>>
                  \/ /\ UnsqueezedScalar(g, constants, name) = Int64(source, constants)
                     /\ Len(Int64(source, constants)) = 1
  BY Zenon DEF UnsqueezedScalar
<1>4. PICK source : /\ StepAt(g, constants, i) = Int64(source, constants)
                    /\ Len(Int64(source, constants)) = 1
  BY <1>2, <1>3
<1> DEFINE c == constants[source]
<1>5. source \in DOMAIN constants /\ Int64(source, constants) = [k \in 1 .. Size(c) |-> c.data[k - 1]]
  BY <1>4 DEF Int64
<1>6. Stored(c) /\ Size(c) = Count(c) /\ Count(c) \in Nat /\ c.data \in [0 .. Count(c) - 1 -> Int]
  BY <1>5, StoredIs DEF AllStored, Stored
<1> HIDE DEF c
<1>7. Size(c) = 1
  BY <1>4, <1>5, <1>6
<1>8. c.data[0] \in Int
  BY <1>6, <1>7
<1>9. Int64(source, constants)[1] = c.data[0]
  BY <1>5, <1>7
<1> QED BY <1>4, <1>8, <1>9

LEMMA ParametersStored ==
  ASSUME NEW out, NEW step \in Int
  PROVE  AllStored(SliceParameters(out, step))
<1> SUFFICES ASSUME NEW name \in DOMAIN SliceParameters(out, step)
             PROVE  Stored(SliceParameters(out, step)[name])
  BY DEF AllStored
<1>1. \E n \in Int : SliceParameters(out, step)[name] = Int64Init(n)
  <2>1. step + 1 \in Int /\ 1 \in Int
    OBVIOUS
  <2>2. SliceParameters(out, step)[name] \in {Int64Init(step), Int64Init(step + 1), Int64Init(1)}
    BY DEF SliceParameters
  <2> QED BY <2>1, <2>2
<1> QED BY <1>1, InitStored

\* The width of a table is a dimension (const_embed_width).
LEMMA WidthIsNumber ==
  ASSUME NEW g, NEW constants, AllStored(constants), NEW name
  PROVE  TableWidth(g, constants, name) \in Nat
<1>1. ASSUME NEW table, NEW rank \in {1, 2}, FloatTable(table, constants, rank)
      PROVE  Last(constants[table].shape) \in Nat
  <2> DEFINE s == constants[table].shape
  <2>1. Len(s) >= 1 /\ s \in Seq(Nat)
    BY <1>1 DEF FloatTable, Rank, AllStored, Stored
  <2> HIDE DEF s
  <2>2. s[Len(s)] \in Nat
    BY <2>1
  <2> QED BY <2>2 DEF Last, s
<1>2. \/ TableWidth(g, constants, name) = 0
      \/ \E table : \E rank \in {1, 2} :
           FloatTable(table, constants, rank) /\ TableWidth(g, constants, name) = Last(constants[table].shape)
  BY Zenon DEF TableWidth
<1> QED BY <1>1, <1>2

\* What stands for a mask of zeros.
LEMMA MaskStored ==
  ASSUME NEW g, NEW constants, AllStored(constants), NEW i, MaskAt(g, constants, i) # NoMatch
  PROVE  Stored(ZeroRow(MaskAt(g, constants, i).width))
<1>1. \E lookup : \/ MaskAt(g, constants, i) = NoMatch
                  \/ MaskAt(g, constants, i).width = TableWidth(g, constants, lookup)
  BY ZenonT(60) DEF MaskAt
<1>2. PICK lookup : MaskAt(g, constants, i).width = TableWidth(g, constants, lookup)
  BY <1>1
<1> QED BY <1>2, WidthIsNumber, RowStored

----------------------------------------------------------------------------
(* What every rewrite leaves: a graph, of nodes that the interpreter runs. *)

NodeOK(node) ==
  /\ DOMAIN node = {"domain", "op", "inputs", "outputs", "attrs"}
  /\ Listed(node.inputs)
  /\ node.domain = "" /\ node.op \in OfOneOutput => Len(node.outputs) = 1
  /\ Listed(node.outputs)

GraphOK(g) == WellFormed(g) /\ \A i \in NodesOf(g) : NodeOK(g.nodes[i])

Runs(g) == \A i \in NodesOf(g) : Implemented(g.nodes[i])

\* A rewrite of g into h.
Sound(g, h) == GraphOK(h) /\ (Runs(g) => Runs(h)) /\ Shows(g, h)

\* What a node gives out is given out by a node that is left, or by what takes its place.
Handed(g, removed, replaced) ==
  \A i \in NodesOf(g) : \A n \in g.outputs \cap ToSet(g.nodes[i].outputs) :
    \E j \in Left(g, removed, replaced) : n \in ToSet(InPlace(g, replaced, j).outputs)

\* A graph with nodes removed and replaced by such that run is a graph that runs.
LEMMA RebuiltSound ==
  ASSUME NEW g, GraphOK(g), NEW removed, NEW replaced, NEW h,
         \A i \in NodesOf(g) : i \in DOMAIN replaced =>
            NodeOK(replaced[i]) /\ (Runs(g) => Implemented(replaced[i])),
         Handed(g, removed, replaced), h.outputs = g.outputs,
         DOMAIN h = DOMAIN g, h.nodes = Rebuilt(g, removed, replaced)
  PROVE  Sound(g, h)
<1> DEFINE new == Rebuilt(g, removed, replaced)
<1>1. /\ Listed(new) /\ Plain(new)
      /\ \A k \in DOMAIN new : \E i \in Left(g, removed, replaced) :
           Cardinality(UpTo(Left(g, removed, replaced), i)) = k /\ new[k] = InPlace(g, replaced, i)
  BY RebuiltIs DEF GraphOK, WellFormed
<1>2. ASSUME NEW k \in DOMAIN new
      PROVE  NodeOK(new[k]) /\ (Runs(g) => Implemented(new[k]))
  <2>1. PICK i \in NodesOf(g) : new[k] = InPlace(g, replaced, i)
    BY <1>1 DEF Left
  <2>2. CASE i \in DOMAIN replaced
    BY <2>1, <2>2 DEF InPlace
  <2>3. CASE i \notin DOMAIN replaced
    BY <2>1, <2>3 DEF InPlace, GraphOK, Runs
  <2> QED BY <2>2, <2>3
<1> HIDE DEF new
<1>3. NodesOf(h) = DOMAIN new /\ \A k \in DOMAIN new : h.nodes[k] = new[k]
  BY DEF NodesOf, new
<1>4. GraphOK(h)
  BY <1>1, <1>2, <1>3 DEF GraphOK, WellFormed, new
<1>5. Runs(g) => Runs(h)
  BY <1>2, <1>3, Zenon DEF Runs
<1>6. Shows(g, h)
  <2> SUFFICES ASSUME NEW n \in g.outputs, n # "", NEW i \in NodesOf(g), n \in ToSet(g.nodes[i].outputs)
               PROVE  \E k \in DOMAIN new : n \in ToSet(new[k].outputs)
    BY <1>3, Zenon DEF Shows, Makes, NodesOf
  <2>1. PICK j \in Left(g, removed, replaced) : n \in ToSet(InPlace(g, replaced, j).outputs)
    BY DEF Handed
  <2>2. PICK k \in DOMAIN new : new[k] = InPlace(g, replaced, j)
    BY <2>1, RebuiltKeeps DEF new, GraphOK, WellFormed
  <2> QED BY <2>1, <2>2
<1> QED BY <1>4, <1>5, <1>6 DEF Sound

\* A round of the visit: at most the node itself is folded, which makes one value, no output.
LEMMA FoldStepIs ==
  ASSUME NEW g, NEW past, NEW i
  PROVE  \A j \in FoldStep(g, past, i).gone \ past.gone :
            j = i /\ Len(g.nodes[i].outputs) = 1 /\ g.nodes[i].outputs[1] \notin g.outputs
<1>1. CASE Foldable(g, i, past.known)
  <2>1. Len(g.nodes[i].outputs) = 1 /\ g.nodes[i].outputs[1] \notin g.outputs
    BY <1>1 DEF Foldable
  <2>2. FoldStep(g, past, i) = past \/ FoldStep(g, past, i).gone = past.gone \cup {i}
    BY DEF FoldStep
  <2> QED BY <2>1, <2>2
<1>2. CASE ~Foldable(g, i, past.known)
  <2>1. FoldStep(g, past, i) = past
    BY <1>2 DEF FoldStep, Result
  <2> QED BY <2>1
<1> QED BY <1>1, <1>2

\* What is folded are nodes that make one value, which is not an output.
LEMMA GoneAre ==
  ASSUME NEW g, Listed(g.nodes), NEW first, first.gone = {}, NEW upTo,
         Rounds(upTo, "fold", first, g, Len(g.nodes)), NEW i \in upTo[Len(g.nodes)].gone
  PROVE  Len(g.nodes[i].outputs) = 1 /\ g.nodes[i].outputs[1] \notin g.outputs
<1> DEFINE n == Len(g.nodes)
           Good(k) == \A j \in upTo[k].gone :
                         Len(g.nodes[j].outputs) = 1 /\ g.nodes[j].outputs[1] \notin g.outputs
           T == {k \in 0 .. n : ~Good(k)}
<1>1. n \in Nat
  BY DEF Listed
<1>2. upTo = [k \in 0 .. n |-> IF k = 0 THEN first ELSE FoldStep(g, upTo[k - 1], k)]
  BY DEF Rounds, Step
<1>3. Good(0)
  <2>1. upTo[0] = first
    BY <1>1, <1>2
  <2> QED BY <2>1
<1>4. ASSUME NEW k \in 1 .. n, Good(k - 1)
      PROVE  Good(k)
  <2>0. k \in 0 .. n /\ k # 0
    BY <1>1
  <2>1. upTo[k] = FoldStep(g, upTo[k - 1], k)
    <3> HIDE DEF n
    <3> QED BY <1>2, <2>0
  <2> QED BY <1>4, <2>1, FoldStepIs
<1>5. n \notin T
  <2> SUFFICES ASSUME n \in T
               PROVE  FALSE
    OBVIOUS
  <2>1. T \in SUBSET Nat
    BY <1>1
  <2>2. PICK k \in T : \A j \in T : k <= j
    <3> HIDE DEF T
    <3> QED BY <2>1, LeastNatural
  <2> HIDE DEF Good
  <2>3. k \in 1 .. n /\ k - 1 \in 0 .. n /\ k - 1 \notin T
    BY <1>1, <1>3, <2>2
  <2> QED BY <1>4, <2>2, <2>3
<1>6. Good(n)
  BY <1>1, <1>5
<1> QED BY <1>6

\* What a list with one member has.
LEMMA OnlyMember ==
  ASSUME NEW s, Listed(s), Len(s) = 1
  PROVE  ToSet(s) = {s[1]}
BY DEF Listed, ToSet

\* Nodes may go that make no output.
LEMMA HandedLeft ==
  ASSUME NEW g, NEW removed,
         \A i \in NodesOf(g) : i \in removed => g.outputs \cap ToSet(g.nodes[i].outputs) = {}
  PROVE  Handed(g, removed, <<>>)
<1> SUFFICES ASSUME NEW i \in NodesOf(g), NEW n \in g.outputs \cap ToSet(g.nodes[i].outputs)
             PROVE  \E j \in Left(g, removed, <<>>) : n \in ToSet(InPlace(g, <<>>, j).outputs)
  BY DEF Handed
<1>1. i \in Left(g, removed, <<>>)
  BY DEF Left
<1>2. InPlace(g, <<>>, i) = g.nodes[i]
  BY StaysInPlace
<1> QED BY <1>1, <1>2

\* fold_constants.
LEMMA FoldConstantsSound ==
  ASSUME NEW g, GraphOK(g)
  PROVE  Sound(g, FoldConstants(g))
<1> DEFINE h == FoldConstants(g)
           n == Len(g.nodes)
           first == [known |-> Constants(g), gone |-> {}]
           upTo[i \in 0 .. n] == IF i = 0 THEN first ELSE FoldStep(g, upTo[i - 1], i)
           gone == upTo[n].gone
<1>1. \E added : h = [g EXCEPT !.nodes = Rebuilt(g, gone, <<>>), !.initializers = Atop(added, @)]
  BY Zenon DEF FoldConstants
<1>2. PICK added : h = [g EXCEPT !.nodes = Rebuilt(g, gone, <<>>), !.initializers = Atop(added, @)]
  BY <1>1
<1>3. Listed(g.nodes) /\ n \in Nat
  BY DEF GraphOK, WellFormed, Listed
<1>4. Rounds(upTo, "fold", first, g, n)
  <2>1. PICK r : Rounds(r, "fold", first, g, n)
    <3> HIDE DEF n, first
    <3> QED BY <1>3, RoundsExist
  <2>2. r = [k \in 0 .. n |-> IF k = 0 THEN first ELSE FoldStep(g, r[k - 1], k)]
    BY <2>1 DEF Rounds, Step
  <2>3. upTo = [k \in 0 .. n |-> IF k = 0 THEN first ELSE FoldStep(g, upTo[k - 1], k)]
    BY <2>2, Zenon
  <2> HIDE DEF upTo
  <2> QED BY <2>3 DEF Rounds, Step
<1>5. first.gone = {}
  OBVIOUS
<1> HIDE DEF upTo, h, first
<1>6. \A i \in gone : Len(g.nodes[i].outputs) = 1 /\ g.nodes[i].outputs[1] \notin g.outputs
  BY <1>3, <1>4, <1>5, GoneAre
<1> HIDE DEF gone
<1>7. \A i \in NodesOf(g) : i \in gone => g.outputs \cap ToSet(g.nodes[i].outputs) = {}
  BY <1>6, OnlyMember DEF GraphOK, NodeOK
<1>8. DOMAIN h = DOMAIN g /\ h.nodes = Rebuilt(g, gone, <<>>) /\ h.outputs = g.outputs
  BY <1>2 DEF GraphOK, WellFormed
<1>9. DOMAIN <<>> = {}
  OBVIOUS
<1>10. Handed(g, gone, <<>>)
  BY <1>7, HandedLeft
<1> QED BY <1>8, <1>9, <1>10, RebuiltSound DEF h

\* A value with an only reader is no output (only_consumer).
LEMMA NotShown ==
  ASSUME NEW g, NEW name, OnlyConsumer(g, name) # NoNode
  PROVE  name \notin g.outputs
BY DEF OnlyConsumer

\* A list of one name holds it.
LEMMA OneShown ==
  ASSUME NEW s, NEW n
  PROVE  n \in ToSet(<<n>>)
BY DEF ToSet

\* What is picked by a known step is one value, of an Expand that nobody else reads.
LEMMA StepIs ==
  ASSUME NEW g, NEW constants, NEW i, StepAt(g, constants, i) # <<>>
  PROVE  LET e == Producer(g, g.nodes[i].inputs[2]) IN
         /\ i # NoNode /\ Len(g.nodes[i].outputs) = 1
         /\ g.nodes[e].op = "Expand" /\ g.nodes[e].domain = ""
         /\ OnlyConsumer(g, g.nodes[e].outputs[1]) = i
<1> DEFINE e == Producer(g, Input(g.nodes[i], 2))
<1>1. /\ IsOp(g, i, "GatherElements") /\ Len(g.nodes[i].outputs) = 1
      /\ IsOp(g, e, "Expand") /\ OnlyConsumer(g, g.nodes[e].outputs[1]) = i
  BY Zenon DEF StepAt
<1>2. Input(g.nodes[i], 2) # ""
  <2>1. e # NoNode
    BY <1>1 DEF IsOp
  <2>2. Makers(g, "") = {}
    BY DEF Makers
  <2>3. Producer(g, "") = NoNode
    BY <2>2, Zenon DEF Producer
  <2> QED BY <2>1, <2>3
<1>3. e = Producer(g, g.nodes[i].inputs[2])
  BY <1>2 DEF Input
<1> HIDE DEF e
<1> QED BY <1>1, <1>3 DEF IsOp

\* fold_const_get_slice.
LEMMA FoldGetSliceSound ==
  ASSUME NEW g, GraphOK(g)
  PROVE  Sound(g, FoldGetSlice(g))
<1> DEFINE h == FoldGetSlice(g)
           steps == [i \in NodesOf(g) |-> StepAt(g, Constants(g), i)]
           found == {i \in DOMAIN steps : steps[i] # <<>>}
           removed == {Producer(g, g.nodes[i].inputs[2]) : i \in found}
           replaced == [i \in found |-> SliceNode(g.nodes[i])]
<1>1. \E added : h = [g EXCEPT !.nodes = Rebuilt(g, removed, replaced), !.initializers = added]
  BY Zenon DEF FoldGetSlice, FoldGetSliceAt
<1>2. PICK added : h = [g EXCEPT !.nodes = Rebuilt(g, removed, replaced), !.initializers = added]
  BY <1>1
<1> HIDE DEF h
<1>3. DOMAIN h = DOMAIN g /\ h.nodes = Rebuilt(g, removed, replaced) /\ h.outputs = g.outputs
  BY <1>2 DEF GraphOK, WellFormed
<1>4. ASSUME NEW node
      PROVE  NodeOK(SliceNode(node)) /\ Implemented(SliceNode(node))
  BY DEF NodeOK, Listed, SliceNode, Implemented, ImplementedOps, ImplementedForm, OfOneOutput
<1>5. \A i \in NodesOf(g) : i \in DOMAIN replaced =>
         NodeOK(replaced[i]) /\ (Runs(g) => Implemented(replaced[i]))
  BY <1>4
<1>6. ASSUME NEW i \in found
      PROVE  LET e == Producer(g, g.nodes[i].inputs[2]) IN
             /\ i # NoNode /\ Len(g.nodes[i].outputs) = 1
             /\ g.nodes[e].op = "Expand" /\ g.nodes[e].domain = ""
             /\ OnlyConsumer(g, g.nodes[e].outputs[1]) = i
  <2>1. StepAt(g, Constants(g), i) # <<>>
    OBVIOUS
  <2> HIDE DEF found
  <2> QED BY <2>1, StepIs, ZenonT(60)
<1>7. DOMAIN replaced = found /\ \A i \in found : replaced[i] = SliceNode(g.nodes[i])
  OBVIOUS
<1> HIDE DEF replaced, found, steps
<1>8. Handed(g, removed, replaced)
  <2> SUFFICES ASSUME NEW i \in NodesOf(g), NEW n \in g.outputs \cap ToSet(g.nodes[i].outputs)
               PROVE  i \in Left(g, removed, replaced) /\ n \in ToSet(InPlace(g, replaced, i).outputs)
    BY DEF Handed
  <2>1. Len(g.nodes[i].outputs) = 1 => n = g.nodes[i].outputs[1]
    BY OnlyMember DEF GraphOK, NodeOK
  <2>2. CASE i \in found
    <3>1. InPlace(g, replaced, i) = SliceNode(g.nodes[i])
      BY <1>7, <2>2 DEF InPlace
    <3>2. SliceNode(g.nodes[i]).outputs = <<n>>
      BY <1>6, <2>1, <2>2 DEF SliceNode
    <3> QED BY <1>7, <2>2, <3>1, <3>2, OneShown DEF Left
  <2>3. CASE i \notin found
    <3>1. i \notin removed
      <4> SUFFICES ASSUME NEW j \in found, i = Producer(g, g.nodes[j].inputs[2])
                   PROVE  FALSE
        OBVIOUS
      <4>1. /\ j # NoNode /\ g.nodes[i].op = "Expand" /\ g.nodes[i].domain = ""
            /\ OnlyConsumer(g, g.nodes[i].outputs[1]) = j
        BY <1>6
      <4>2. Len(g.nodes[i].outputs) = 1
        BY <4>1 DEF GraphOK, NodeOK, OfOneOutput
      <4> QED BY <2>1, <4>1, <4>2, NotShown
    <3> QED BY <1>7, <2>3, <3>1 DEF Left, InPlace
  <2> QED BY <2>2, <2>3
<1> QED BY <1>3, <1>5, <1>8, RebuiltSound DEF h

\* A list with an entry replaced is a list of the same length.
LEMMA EntryReplaced ==
  ASSUME NEW s, Listed(s), NEW k, NEW x
  PROVE  Listed([s EXCEPT ![k] = x]) /\ Len([s EXCEPT ![k] = x]) = Len(s)
BY DEF Listed

\* A node that reads a stand-in is the node it was but for what it reads.
LEMMA RepointedRuns ==
  ASSUME NEW node, NodeOK(node), NEW masked, NEW instead
  PROVE  LET new == RepointedTo(node, masked, instead) IN
         /\ NodeOK(new)
         /\ new.op = node.op /\ new.domain = node.domain /\ new.attrs = node.attrs
         /\ new.outputs = node.outputs /\ Len(new.inputs) = Len(node.inputs)
<1> DEFINE new == RepointedTo(node, masked, instead)
<1>1. /\ new.op = node.op /\ new.domain = node.domain /\ new.attrs = node.attrs
      /\ new.outputs = node.outputs /\ DOMAIN new = DOMAIN node
  BY DEF RepointedTo, NodeOK
<1>2. Listed(new.inputs) /\ Len(new.inputs) = Len(node.inputs)
  <2>1. new.inputs = node.inputs \/ \E k : new.inputs = [node.inputs EXCEPT ![k] = instead]
    BY DEF RepointedTo, NodeOK
  <2>2. ASSUME NEW k
        PROVE  /\ Listed([node.inputs EXCEPT ![k] = instead])
               /\ Len([node.inputs EXCEPT ![k] = instead]) = Len(node.inputs)
    <3>1. Listed(node.inputs)
      BY DEF NodeOK
    <3> QED BY <3>1, EntryReplaced
  <2> HIDE DEF new
  <2> QED BY <2>1, <2>2 DEF NodeOK
<1> HIDE DEF new
<1>3. NodeOK(new)
  BY <1>1, <1>2 DEF NodeOK
<1> QED BY <1>1, <1>2, <1>3 DEF new

\* Whether the interpreter runs a node does not depend on the names it reads.
LEMMA SameRuns ==
  ASSUME NEW node, NEW new,
         new.op = node.op, new.domain = node.domain, new.attrs = node.attrs,
         new.outputs = node.outputs, Len(new.inputs) = Len(node.inputs)
  PROVE  Implemented(new) <=> Implemented(node)
BY DEF Implemented, ImplementedContrib, ImplementedForm, Setting, Has, Attr

\* The form in which a node stays what the interpreter runs.
Alike(new, node) ==
  NodeOK(new) /\ (Implemented(node) => Implemented(new)) /\ new.outputs = node.outputs

\* A consumer that reads something else is the same operator (fold_prev_embed_const_mask).
LEMMA RepointedIs ==
  ASSUME NEW node, NodeOK(node), NEW ms, Len(ms) \in Nat
  PROVE  Alike(Repointed(node, ms), node)
<1> DEFINE n == Len(ms)
           after[k \in 0 .. n] ==
             IF k = 0 THEN node
             ELSE IF ms[k] = NoMatch THEN after[k - 1]
             ELSE RepointedTo(after[k - 1], ms[k].masked, ms[k].instead)
           T == {m \in 0 .. n : ~Alike(after[m], node)}
<1>0. n \in Nat
  OBVIOUS
<1>1. Repointed(node, ms) = after[n]
  BY Zenon DEF Repointed
<1>2. after = [k \in 0 .. n |-> IF k = 0 THEN node ELSE Stand(after[k - 1], ms[k])]
  <2>0. PICK r : Rounds(r, "stand", node, ms, n)
    <3> HIDE DEF n
    <3> QED BY <1>0, RoundsExist
  <2>1. r = [k \in 0 .. n |-> IF k = 0 THEN node ELSE Stand(r[k - 1], ms[k])]
    BY <2>0 DEF Rounds, Step
  <2>2. r = [k \in 0 .. n |-> IF k = 0 THEN node
                              ELSE IF ms[k] = NoMatch THEN r[k - 1]
                              ELSE RepointedTo(r[k - 1], ms[k].masked, ms[k].instead)]
    BY <2>1, Zenon DEF Stand
  <2>3. after = [k \in 0 .. n |-> IF k = 0 THEN node
                              ELSE IF ms[k] = NoMatch THEN after[k - 1]
                              ELSE RepointedTo(after[k - 1], ms[k].masked, ms[k].instead)]
    BY <2>2, Zenon
  <2> HIDE DEF after
  <2> QED BY <2>3, Zenon DEF Stand
<1> HIDE DEF after
<1>3. Alike(after[0], node)
  <2>1. after[0] = node
    BY <1>2
  <2> QED BY <2>1 DEF Alike
<1>4. ASSUME NEW m \in 1 .. n, Alike(after[m - 1], node)
      PROVE  Alike(after[m], node)
  <2>1. after[m] = Stand(after[m - 1], ms[m])
    BY <1>2
  <2>2. NodeOK(after[m - 1])
    BY <1>4 DEF Alike
  <2> DEFINE new == RepointedTo(after[m - 1], ms[m].masked, ms[m].instead)
  <2>3. /\ NodeOK(new) /\ (Implemented(new) <=> Implemented(after[m - 1]))
        /\ new.outputs = after[m - 1].outputs
    <3>1. /\ NodeOK(new)
          /\ new.op = after[m - 1].op /\ new.domain = after[m - 1].domain
          /\ new.attrs = after[m - 1].attrs /\ new.outputs = after[m - 1].outputs
          /\ Len(new.inputs) = Len(after[m - 1].inputs)
      BY <2>2, RepointedRuns
    <3> HIDE DEF new
    <3> QED BY <3>1, SameRuns
  <2> QED BY <1>4, <2>1, <2>3 DEF Alike, Stand
<1>5. n \notin T
  <2> SUFFICES ASSUME n \in T
               PROVE  FALSE
    OBVIOUS
  <2>0. T \in SUBSET Nat
    OBVIOUS
  <2>1. PICK m \in T : \A k \in T : m <= k
    <3> HIDE DEF T
    <3> QED BY <2>0, LeastNatural
  <2>2. m \in 1 .. n /\ m - 1 \in 0 .. n /\ m - 1 \notin T
    BY <1>3, <2>1
  <2> QED BY <1>4, <2>1, <2>2
<1> QED BY <1>1, <1>5

\* What goes with a mask is a chain of single values, each read by the next alone.
LEMMA MaskIs ==
  ASSUME NEW g, NEW constants, NEW i, MaskAt(g, constants, i) # NoMatch
  PROVE  \A j \in MaskAt(g, constants, i).members :
            Len(g.nodes[j].outputs) = 1 /\ g.nodes[j].outputs[1] \notin g.outputs
<1> DEFINE out(j) == g.nodes[j].outputs[1]
           Sole(j, k) == OnlyConsumer(g, out(j)) = k
           one(j) == Len(g.nodes[j].outputs) = 1
<1>1. MaskAt(g, constants, i) = NoMatch \/ \E unsqueeze, add, neg, cast, equal :
        /\ MaskAt(g, constants, i).members =
              {i, unsqueeze, add, neg, cast} \cup (IF Sole(equal, cast) THEN {equal} ELSE {})
        /\ IsOp(g, i, "Mul") /\ one(i) /\ IsOp(g, unsqueeze, "Unsqueeze") /\ one(unsqueeze)
        /\ IsOp(g, add, "Add") /\ one(add) /\ IsOp(g, neg, "Neg") /\ one(neg)
        /\ IsOp(g, cast, "Cast") /\ one(cast) /\ Compares(g, constants, equal)
        /\ Sole(cast, neg) /\ Sole(neg, add) /\ Sole(add, unsqueeze) /\ Sole(unsqueeze, i)
        /\ out(i) \notin g.outputs
  BY ZenonT(60) DEF MaskAt
<1>2. PICK unsqueeze, add, neg, cast, equal :
        /\ MaskAt(g, constants, i).members =
              {i, unsqueeze, add, neg, cast} \cup (IF Sole(equal, cast) THEN {equal} ELSE {})
        /\ IsOp(g, i, "Mul") /\ one(i) /\ IsOp(g, unsqueeze, "Unsqueeze") /\ one(unsqueeze)
        /\ IsOp(g, add, "Add") /\ one(add) /\ IsOp(g, neg, "Neg") /\ one(neg)
        /\ IsOp(g, cast, "Cast") /\ one(cast) /\ Compares(g, constants, equal)
        /\ Sole(cast, neg) /\ Sole(neg, add) /\ Sole(add, unsqueeze) /\ Sole(unsqueeze, i)
        /\ out(i) \notin g.outputs
  BY <1>1, Zenon
<1>3. \A j, k : Sole(j, k) /\ k # NoNode => out(j) \notin g.outputs
  BY NotShown
<1>4. one(equal)
  BY <1>2 DEF Compares
<1>5. /\ i # NoNode /\ unsqueeze # NoNode /\ add # NoNode /\ neg # NoNode
      /\ cast # NoNode
  BY <1>2, Zenon DEF IsOp
<1>6. /\ out(unsqueeze) \notin g.outputs /\ out(add) \notin g.outputs /\ out(neg) \notin g.outputs
      /\ out(cast) \notin g.outputs /\ (Sole(equal, cast) => out(equal) \notin g.outputs)
  <2> HIDE DEF out, Sole, one
  <2> QED BY <1>2, <1>3, <1>5
<1>7. ASSUME NEW j \in MaskAt(g, constants, i).members
      PROVE  one(j) /\ out(j) \notin g.outputs
  <2> HIDE DEF Sole
  <2>1. j \in {i, unsqueeze, add, neg, cast} \/ (j = equal /\ Sole(equal, cast))
    BY <1>2
  <2>2. /\ one(i) /\ one(unsqueeze) /\ one(add) /\ one(neg) /\ one(cast)
        /\ out(i) \notin g.outputs
    BY <1>2, Zenon
  <2>3. CASE j = equal /\ Sole(equal, cast)
    BY <1>4, <1>6, <2>3
  <2>4. CASE j \in {i, unsqueeze, add, neg, cast}
    BY <1>6, <2>2, <2>4
  <2> QED BY <2>1, <2>3, <2>4
<1> QED BY <1>7

\* fold_prev_embed_const_mask.
LEMMA FoldMasksSound ==
  ASSUME NEW g, GraphOK(g)
  PROVE  Sound(g, FoldMasks(g))
<1> DEFINE h == FoldMasks(g)
           ms == [i \in NodesOf(g) |-> MaskAt(g, Constants(g), i)]
           r == [g EXCEPT !.nodes = [i \in NodesOf(g) |-> Repointed(g.nodes[i], ms)]]
           members == UNION {ms[k].members : k \in DOMAIN ms}
<1>1. \E added : h = [r EXCEPT !.nodes = Rebuilt(r, members, <<>>), !.initializers = added]
  BY Zenon DEF FoldMasks, FoldMasksAt
<1>2. PICK added : h = [r EXCEPT !.nodes = Rebuilt(r, members, <<>>), !.initializers = added]
  BY <1>1
<1> HIDE DEF h
<1>3. Len(ms) \in Nat /\ Len(g.nodes) \in Nat /\ NodesOf(g) = 1 .. Len(g.nodes)
  BY DEF GraphOK, WellFormed, Listed, NodesOf
<1>4. ASSUME NEW j \in members
      PROVE  Len(g.nodes[j].outputs) = 1 /\ g.nodes[j].outputs[1] \notin g.outputs
  <2>1. PICK i \in NodesOf(g) : j \in MaskAt(g, Constants(g), i).members
    OBVIOUS
  <2>2. MaskAt(g, Constants(g), i) # NoMatch
    BY <2>1 DEF NoMatch
  <2> HIDE DEF members, ms
  <2> QED BY <2>1, <2>2, MaskIs
<1> HIDE DEF ms, members
<1>5. \A i \in NodesOf(g) : Alike(Repointed(g.nodes[i], ms), g.nodes[i])
  BY <1>3, RepointedIs DEF GraphOK
<1>6. /\ DOMAIN r = DOMAIN g /\ NodesOf(r) = NodesOf(g) /\ r.outputs = g.outputs
      /\ r.nodes = [i \in NodesOf(g) |-> Repointed(g.nodes[i], ms)]
  BY DEF GraphOK, WellFormed, NodesOf
<1> HIDE DEF r
<1>7. Listed(r.nodes) /\ Plain(r.nodes)
  BY <1>3, <1>6 DEF Listed, Plain
<1>8. \A i \in NodesOf(g) : r.nodes[i].outputs = g.nodes[i].outputs
  BY <1>5, <1>6 DEF Alike
<1>9. GraphOK(r) /\ (Runs(g) => Runs(r))
  BY <1>5, <1>6, <1>7 DEF GraphOK, WellFormed, Runs, Alike
<1>10. Shows(g, r)
  BY <1>6, <1>8 DEF Shows, Makes
<1>11. DOMAIN h = DOMAIN r /\ h.nodes = Rebuilt(r, members, <<>>) /\ h.outputs = r.outputs
  BY <1>2, <1>9 DEF GraphOK, WellFormed
<1>12. DOMAIN <<>> = {}
  OBVIOUS
<1>13. \A i \in NodesOf(r) : i \in members => r.outputs \cap ToSet(r.nodes[i].outputs) = {}
  <2> TAKE i \in NodesOf(r)
  <2> HAVE i \in members
  <2>1. Listed(g.nodes[i].outputs) /\ r.nodes[i].outputs = g.nodes[i].outputs
    BY <1>6, <1>8 DEF GraphOK, NodeOK
  <2>2. ToSet(g.nodes[i].outputs) = {g.nodes[i].outputs[1]}
    BY <1>4, <2>1, OnlyMember
  <2> QED BY <1>4, <1>6, <2>1, <2>2
<1>14. Handed(r, members, <<>>)
  BY <1>13, HandedLeft
<1>15. Sound(r, h)
  BY <1>9, <1>11, <1>12, <1>14, RebuiltSound
<1> QED BY <1>9, <1>10, <1>15, ShowsOn DEF Sound, h

\* What the flag is for: a reshape after the transposition, and the attention.
LEMMA DeinterleaveIs ==
  ASSUME NEW g, NEW constants, NEW i, DeinterleaveAt(g, constants, i) # NoMatch
  PROVE  LET m == DeinterleaveAt(g, constants, i) IN
         /\ g.nodes[m.first].op = "Reshape" /\ g.nodes[m.first].domain = ""
         /\ g.nodes[m.gqa].op = "GroupQueryAttention" /\ g.nodes[m.gqa].domain = "com.microsoft"
         /\ m.members = {i} /\ Len(g.nodes[i].outputs) = 1 /\ g.nodes[i].outputs[1] \notin g.outputs
<1> DEFINE m == DeinterleaveAt(g, constants, i)
<1>1. m = NoMatch \/ \E first, gqa, source :
        /\ m = [members |-> {i}, first |-> first, gqa |-> gqa, source |-> source]
        /\ Len(g.nodes[i].outputs) = 1 /\ first = OnlyConsumer(g, g.nodes[i].outputs[1])
        /\ IsOp(g, first, "Reshape") /\ g.nodes[gqa].op = "GroupQueryAttention"
        /\ g.nodes[gqa].domain = "com.microsoft"
  BY Zenon DEF DeinterleaveAt
<1>2. m # NoMatch
  OBVIOUS
<1> HIDE DEF m
<1>3. PICK first, gqa, source :
        /\ m = [members |-> {i}, first |-> first, gqa |-> gqa, source |-> source]
        /\ Len(g.nodes[i].outputs) = 1 /\ first = OnlyConsumer(g, g.nodes[i].outputs[1])
        /\ IsOp(g, first, "Reshape") /\ g.nodes[gqa].op = "GroupQueryAttention"
        /\ g.nodes[gqa].domain = "com.microsoft"
  BY <1>1, <1>2
<1>4. m.first = first /\ m.gqa = gqa /\ m.members = {i}
  BY <1>3
<1>5. g.nodes[i].outputs[1] \notin g.outputs
  BY <1>3, NotShown DEF IsOp
<1> QED BY <1>3, <1>4, <1>5 DEF IsOp, m

\* fuse_gqa_qk_deint.
LEMMA FuseGqaSound ==
  ASSUME NEW g, GraphOK(g)
  PROVE  Sound(g, FuseGqa(g))
<1> DEFINE h == FuseGqa(g)
           ms == {DeinterleaveAt(g, Constants(g), i) : i \in NodesOf(g)} \ {NoMatch}
           firsts == {m.first : m \in ms}
           Flagged(node) ==
             [node EXCEPT !.attrs = [name \in DOMAIN @ \cup {"qk_reorder"} |->
                                       IF name = "qk_reorder" THEN 1 ELSE @[name]]]
           Read1(i) == [g.nodes[i] EXCEPT !.inputs[1] = (CHOOSE m \in ms : m.first = i).source]
           replaced == [i \in firsts \cup {m.gqa : m \in ms} |->
                          IF i \in firsts THEN Read1(i) ELSE Flagged(g.nodes[i])]
           removed == UNION {m.members : m \in ms}
<1>1. h = [g EXCEPT !.nodes = Rebuilt(g, removed, replaced)]
  BY Zenon DEF FuseGqa, FuseGqaAt
<1>2. ASSUME NEW m \in ms
      PROVE  /\ g.nodes[m.first].op = "Reshape" /\ g.nodes[m.first].domain = ""
             /\ g.nodes[m.gqa].op = "GroupQueryAttention" /\ g.nodes[m.gqa].domain = "com.microsoft"
             /\ \A i \in m.members : Len(g.nodes[i].outputs) = 1 /\ g.nodes[i].outputs[1] \notin g.outputs
  <2>1. PICK i \in NodesOf(g) : m = DeinterleaveAt(g, Constants(g), i)
    OBVIOUS
  <2>2. m # NoMatch
    OBVIOUS
  <2> HIDE DEF ms
  <2>3. DeinterleaveAt(g, Constants(g), i) # NoMatch
    BY <2>1, <2>2
  <2>4. /\ g.nodes[m.first].op = "Reshape" /\ g.nodes[m.first].domain = ""
        /\ g.nodes[m.gqa].op = "GroupQueryAttention" /\ g.nodes[m.gqa].domain = "com.microsoft"
        /\ m.members = {i} /\ Len(g.nodes[i].outputs) = 1 /\ g.nodes[i].outputs[1] \notin g.outputs
    <3> DEFINE q == DeinterleaveAt(g, Constants(g), i)
    <3>1. /\ g.nodes[q.first].op = "Reshape" /\ g.nodes[q.first].domain = ""
          /\ g.nodes[q.gqa].op = "GroupQueryAttention" /\ g.nodes[q.gqa].domain = "com.microsoft"
          /\ q.members = {i} /\ Len(g.nodes[i].outputs) = 1 /\ g.nodes[i].outputs[1] \notin g.outputs
      BY <2>3, DeinterleaveIs
    <3> HIDE DEF q
    <3>2. m = q
      BY <2>1 DEF q
    <3> QED BY <3>1, <3>2
  <2> QED BY <2>4
<1> HIDE DEF ms
<1>3. ASSUME NEW node, NodeOK(node), NEW source
      PROVE  LET new == [node EXCEPT !.inputs[1] = source] IN
             NodeOK(new) /\ new.outputs = node.outputs
  <2> DEFINE new == [node EXCEPT !.inputs[1] = source]
  <2>1. /\ new.op = node.op /\ new.domain = node.domain /\ new.outputs = node.outputs
        /\ DOMAIN new = DOMAIN node /\ new.inputs = [node.inputs EXCEPT ![1] = source]
    BY <1>3 DEF NodeOK
  <2>2. Listed(new.inputs)
    BY <1>3, <2>1, EntryReplaced DEF NodeOK
  <2> HIDE DEF new
  <2>3. NodeOK(new)
    BY <1>3, <2>1, <2>2 DEF NodeOK
  <2> QED BY <2>1, <2>3 DEF new
<1>4. ASSUME NEW node, NodeOK(node), node.op = "Reshape", node.domain = ""
      PROVE  Implemented(node)
  BY <1>4, ZenonT(60) DEF Implemented, ImplementedOps, ImplementedForm
<1>5. ASSUME NEW node, NodeOK(node)
      PROVE  NodeOK(Flagged(node)) /\ Flagged(node).outputs = node.outputs
  BY <1>5 DEF NodeOK, Listed
<1>6. ASSUME NEW node, NodeOK(node), node.op = "GroupQueryAttention", node.domain = "com.microsoft",
             Implemented(node)
      PROVE  Implemented(Flagged(node))
  <2> DEFINE new == Flagged(node)
  <2>1. /\ new.op = node.op /\ new.domain = node.domain /\ new.inputs = node.inputs
        /\ new.outputs = node.outputs
    BY <1>6 DEF NodeOK
  <2>2. DOMAIN node.attrs \subseteq DOMAIN new.attrs
    BY <1>6 DEF NodeOK
  <2> HIDE DEF new
  <2>3. ImplementedContrib(node)
    BY <1>6 DEF Implemented
  <2>4. ImplementedContrib(new)
    BY <1>6, <2>1, <2>2, <2>3 DEF ImplementedContrib, Has
  <2>5. Implemented(new)
    BY <1>6, <2>1, <2>4 DEF Implemented
  <2> QED BY <2>5 DEF new
<1>7. ASSUME NEW i \in NodesOf(g), i \in DOMAIN replaced
      PROVE  /\ NodeOK(replaced[i]) /\ (Runs(g) => Implemented(replaced[i]))
             /\ replaced[i].outputs = g.nodes[i].outputs
  <2>1. NodeOK(g.nodes[i])
    BY DEF GraphOK
  <2>2. CASE i \in firsts
    <3>1. PICK m \in ms : i = m.first
      BY <2>2
    <3>2. g.nodes[i].op = "Reshape" /\ g.nodes[i].domain = ""
      BY <1>2, <3>1
    <3>3. replaced[i] = Read1(i)
      BY <1>7, <2>2
    <3>4. NodeOK(Read1(i)) /\ Read1(i).outputs = g.nodes[i].outputs
      BY <1>3, <2>1
    <3>5. Read1(i).op = "Reshape" /\ Read1(i).domain = ""
      BY <2>1, <3>2 DEF NodeOK
    <3> HIDE DEF Read1
    <3> QED BY <1>4, <3>3, <3>4, <3>5
  <2>3. CASE i \notin firsts
    <3>1. PICK m \in ms : i = m.gqa
      BY <1>7, <2>3
    <3>2. g.nodes[i].op = "GroupQueryAttention" /\ g.nodes[i].domain = "com.microsoft"
      BY <1>2, <3>1
    <3>3. replaced[i] = Flagged(g.nodes[i])
      BY <1>7, <2>3
    <3> HIDE DEF Flagged
    <3> QED BY <1>5, <1>6, <2>1, <3>2, <3>3 DEF Runs
  <2> QED BY <2>2, <2>3
<1>8. ASSUME NEW i \in NodesOf(g), i \in removed
      PROVE  g.outputs \cap ToSet(g.nodes[i].outputs) = {}
  <2>1. PICK m \in ms : i \in m.members
    BY <1>8
  <2>2. Len(g.nodes[i].outputs) = 1 /\ g.nodes[i].outputs[1] \notin g.outputs
    BY <1>2, <2>1
  <2>3. ToSet(g.nodes[i].outputs) = {g.nodes[i].outputs[1]}
    BY <2>2, OnlyMember DEF GraphOK, NodeOK
  <2> QED BY <2>2, <2>3
<1> HIDE DEF replaced, removed, h
<1>9. Handed(g, removed, replaced)
  <2> SUFFICES ASSUME NEW i \in NodesOf(g), NEW n \in g.outputs \cap ToSet(g.nodes[i].outputs)
               PROVE  i \in Left(g, removed, replaced) /\ n \in ToSet(InPlace(g, replaced, i).outputs)
    BY DEF Handed
  <2> QED BY <1>7, <1>8 DEF Left, InPlace
<1>10. DOMAIN h = DOMAIN g /\ h.nodes = Rebuilt(g, removed, replaced) /\ h.outputs = g.outputs
  BY <1>1 DEF GraphOK, WellFormed
<1> QED BY <1>7, <1>9, <1>10, RebuiltSound DEF h

\* A match stands for the normalization of one input by two or three.
LEMMA LayerNormIs ==
  ASSUME NEW g, NEW i, LayerNormAt(g, i).members # {}
  PROVE  LET node == LayerNormAt(g, i).fused IN
         NodeOK(node) /\ node.domain = "" /\ node.op = "LayerNormalization"
<1>1. LayerNormAt(g, i) = NoMatch \/ \E members, x, scale, bias, out, epsilon :
        LayerNormAt(g, i) = [members |-> members, fused |-> Normalization(x, scale, bias, out, epsilon)]
  BY ZenonT(60) DEF LayerNormAt, LayerNormOf
<1>2. LayerNormAt(g, i) # NoMatch
  BY DEF NoMatch
<1>3. PICK members, x, scale, bias, out, epsilon :
        LayerNormAt(g, i) = [members |-> members, fused |-> Normalization(x, scale, bias, out, epsilon)]
  BY <1>1, <1>2
<1>4. Listed(<<x, scale>>) /\ Listed(<<x, scale, bias>>) /\ Listed(<<out>>)
  BY DEF Listed
<1>5. NodeOK(Normalization(x, scale, bias, out, epsilon))
  BY <1>4 DEF NodeOK, Normalization, OfOneOutput
<1>6. LayerNormAt(g, i).fused = Normalization(x, scale, bias, out, epsilon)
  BY <1>3
<1>7. /\ Normalization(x, scale, bias, out, epsilon).domain = ""
      /\ Normalization(x, scale, bias, out, epsilon).op = "LayerNormalization"
  BY DEF Normalization
<1> QED BY <1>5, <1>6, <1>7

\* A node that alone reads what another makes (only_consumer).
LEMMA FollowerIs ==
  ASSUME NEW g, Listed(g.nodes), NEW j, Follower(g, j) # NoNode
  PROVE  Follower(g, j) \in NodesOf(g) /\ j # NoNode /\ g.nodes[j].outputs[1] \notin g.outputs
<1> DEFINE name == g.nodes[j].outputs[1]
           readers == Consumers(g, name)
<1>1. j # NoNode /\ OnlyConsumer(g, name) # NoNode /\ Follower(g, j) = OnlyConsumer(g, name)
  BY DEF Follower
<1>2. name \notin g.outputs
  BY <1>1, NotShown
<1>3. Cardinality(readers) = 1 /\ OnlyConsumer(g, name) = CHOOSE i \in readers : TRUE
  BY <1>1 DEF OnlyConsumer
<1>4. readers # {}
  BY <1>3, FS_EmptySet
<1>5. readers \subseteq NodesOf(g)
  BY DEF Consumers
<1> HIDE DEF readers
<1>6. OnlyConsumer(g, name) \in NodesOf(g)
  BY <1>3, <1>4, <1>5
<1> QED BY <1>1, <1>2, <1>6

\* The least member of a set of positions.
LEMMA LeastMember ==
  ASSUME NEW n \in Nat, NEW S, Within(S, n), S # {}
  PROVE  Min(S) \in S
<1>1. S \in SUBSET Nat
  BY DEF Within
<1>2. \E m \in S : \A k \in S : m <= k
  BY <1>1, LeastNatural
<1> QED BY <1>2 DEF Min

\* The greatest member of a set of positions.
LEMMA GreatestMember ==
  ASSUME NEW n \in Nat, NEW S, Within(S, n), S # {}
  PROVE  Max(S) \in S
<1> DEFINE T == {n - x : x \in S}
<1>1. T \in SUBSET Nat /\ T # {}
  BY DEF Within
<1>2. PICK m \in T : \A k \in T : m <= k
  <2> HIDE DEF T
  <2> QED BY <1>1, LeastNatural
<1>3. PICK x \in S : m = n - x
  OBVIOUS
<1>4. \A y \in S : n - x <= n - y
  BY <1>2, <1>3
<1>5. \A y \in S : x >= y
  BY <1>4 DEF Within
<1> QED BY <1>5 DEF Max

\* The nodes of a match, each but the last with an only reader.
LEMMA ChainIs ==
  ASSUME NEW g, Listed(g.nodes), NEW i
  PROVE  LET c == LayerNormChain(g, i) IN
         /\ c.mean = i /\ c.sub = Follower(g, c.mean) /\ c.var = Follower(g, c.pow)
         /\ c.addEps = Follower(g, c.var) /\ c.sqrt = Follower(g, c.addEps)
         /\ c.div = Follower(g, c.sqrt) /\ c.mul = Follower(g, c.div) /\ c.add = Follower(g, c.mul)
         /\ c.pow # NoNode => c.pow \in NodesOf(g) /\ IsOp(g, c.pow, "Pow")
<1> DEFINE c == LayerNormChain(g, i)
           pows == IF c.sub = NoNode THEN {}
                   ELSE {j \in Consumers(g, g.nodes[c.sub].outputs[1]) : IsOp(g, j, "Pow")}
<1>1. /\ c.mean = i /\ c.sub = Follower(g, c.mean) /\ c.var = Follower(g, c.pow)
      /\ c.addEps = Follower(g, c.var) /\ c.sqrt = Follower(g, c.addEps)
      /\ c.div = Follower(g, c.sqrt) /\ c.mul = Follower(g, c.div) /\ c.add = Follower(g, c.mul)
      /\ c.pow = IF pows = {} THEN NoNode ELSE Min(pows)
  BY DEF LayerNormChain
<1> HIDE DEF c
<1>2. /\ Len(g.nodes) \in Nat /\ Within(pows, Len(g.nodes)) /\ pows \subseteq NodesOf(g)
      /\ \A j \in pows : IsOp(g, j, "Pow")
  <2>1. pows \subseteq NodesOf(g)
    BY DEF Consumers
  <2>2. \A j \in pows : IsOp(g, j, "Pow")
    OBVIOUS
  <2> HIDE DEF pows
  <2> QED BY <2>1, <2>2 DEF NodesOf, Listed, Within
<1> HIDE DEF pows
<1>3. c.pow # NoNode => c.pow \in NodesOf(g) /\ IsOp(g, c.pow, "Pow")
  BY <1>1, <1>2, LeastMember
<1> QED BY <1>1, <1>3 DEF c

\* What the fused node makes.
LEMMA NormalizationMakes ==
  ASSUME NEW x, NEW scale, NEW bias, NEW out, NEW epsilon
  PROVE  Normalization(x, scale, bias, out, epsilon).outputs = <<out>>
BY DEF Normalization

\* What a match looks at.
LEMMA MatchIs ==
  ASSUME NEW g, NEW c, LayerNormOf(g, c).members # {}
  PROVE  \E last \in {c.mul, c.add} :
           /\ LayerNormOf(g, c).members =
                 {c.mean, c.sub, c.pow, c.var, c.addEps, c.sqrt, c.div, c.mul} \cup {last}
           /\ LayerNormOf(g, c).fused.outputs = <<g.nodes[last].outputs[1]>>
           /\ IsOp(g, c.mean, "ReduceMean") /\ IsOp(g, c.sub, "Sub") /\ c.pow # NoNode
           /\ IsOp(g, c.var, "ReduceMean") /\ IsOp(g, c.addEps, "Add") /\ IsOp(g, c.sqrt, "Sqrt")
           /\ IsOp(g, c.div, "Div") /\ IsOp(g, c.mul, "Mul")
           /\ last = c.mul \/ IsOp(g, last, "Add")
           /\ g.nodes[c.sub].outputs[1] \notin g.outputs
<1> DEFINE chain == {c.mean, c.sub, c.pow, c.var, c.addEps, c.sqrt, c.div, c.mul}
           Are == /\ IsOp(g, c.mean, "ReduceMean") /\ IsOp(g, c.sub, "Sub") /\ c.pow # NoNode
                  /\ IsOp(g, c.var, "ReduceMean") /\ IsOp(g, c.addEps, "Add")
                  /\ IsOp(g, c.sqrt, "Sqrt") /\ IsOp(g, c.div, "Div") /\ IsOp(g, c.mul, "Mul")
                  /\ g.nodes[c.sub].outputs[1] \notin g.outputs
<1>1. \/ LayerNormOf(g, c) = NoMatch
      \/ \E biased \in BOOLEAN : \E x, scale, bias, epsilon :
           LET last == IF biased THEN c.add ELSE c.mul IN
           /\ LayerNormOf(g, c) =
                 [members |-> chain \cup {last},
                  fused |-> Normalization(x, scale, bias, g.nodes[last].outputs[1], epsilon)]
           /\ Are /\ (biased => IsOp(g, c.add, "Add"))
  BY ZenonT(60) DEF LayerNormOf
<1>2. LayerNormOf(g, c) # NoMatch
  BY DEF NoMatch
<1> HIDE DEF chain, Are
<1>3. PICK last, x, scale, bias, epsilon :
        /\ last \in {c.mul, c.add}
        /\ LayerNormOf(g, c) =
              [members |-> chain \cup {last},
               fused |-> Normalization(x, scale, bias, g.nodes[last].outputs[1], epsilon)]
        /\ Are /\ (last = c.mul \/ IsOp(g, last, "Add"))
  BY <1>1, <1>2
<1>4. /\ LayerNormOf(g, c).members = chain \cup {last}
      /\ LayerNormOf(g, c).fused.outputs = <<g.nodes[last].outputs[1]>>
  <2>1. LayerNormOf(g, c).fused = Normalization(x, scale, bias, g.nodes[last].outputs[1], epsilon)
    BY <1>3
  <2>2. LayerNormOf(g, c).fused.outputs = <<g.nodes[last].outputs[1]>>
    BY <2>1, NormalizationMakes
  <2>3. LayerNormOf(g, c).members = chain \cup {last}
    BY <1>3
  <2> QED BY <2>2, <2>3
<1> QED BY <1>3, <1>4 DEF chain, Are

\* The nodes of a match make one value each: the last makes what the fused one makes, and
\* those of the others are no outputs.
LEMMA MembersAre ==
  ASSUME NEW g, GraphOK(g), NEW i \in NodesOf(g), LayerNormAt(g, i).members # {}
  PROVE  LET m == LayerNormAt(g, i) IN
         \A j \in m.members :
            /\ j \in NodesOf(g) /\ Len(g.nodes[j].outputs) = 1
            /\ m.fused.outputs = <<g.nodes[j].outputs[1]>> \/ g.nodes[j].outputs[1] \notin g.outputs
<1> DEFINE c == LayerNormChain(g, i)
           m == LayerNormOf(g, c)
<1>1. Listed(g.nodes) /\ LayerNormAt(g, i) = m
  BY DEF GraphOK, WellFormed, LayerNormAt
<1>2. /\ c.mean = i /\ c.sub = Follower(g, c.mean) /\ c.var = Follower(g, c.pow)
      /\ c.addEps = Follower(g, c.var) /\ c.sqrt = Follower(g, c.addEps)
      /\ c.div = Follower(g, c.sqrt) /\ c.mul = Follower(g, c.div) /\ c.add = Follower(g, c.mul)
      /\ c.pow # NoNode => c.pow \in NodesOf(g) /\ IsOp(g, c.pow, "Pow")
  BY <1>1, ChainIs
<1> HIDE DEF c
<1>3. PICK last \in {c.mul, c.add} :
        /\ m.members = {c.mean, c.sub, c.pow, c.var, c.addEps, c.sqrt, c.div, c.mul} \cup {last}
        /\ m.fused.outputs = <<g.nodes[last].outputs[1]>>
        /\ IsOp(g, c.mean, "ReduceMean") /\ IsOp(g, c.sub, "Sub") /\ c.pow # NoNode
        /\ IsOp(g, c.var, "ReduceMean") /\ IsOp(g, c.addEps, "Add") /\ IsOp(g, c.sqrt, "Sqrt")
        /\ IsOp(g, c.div, "Div") /\ IsOp(g, c.mul, "Mul")
        /\ last = c.mul \/ IsOp(g, last, "Add")
        /\ g.nodes[c.sub].outputs[1] \notin g.outputs
  BY <1>1, MatchIs
<1> HIDE DEF m
<1>4. /\ c.mean # NoNode /\ c.sub # NoNode /\ c.pow # NoNode /\ c.var # NoNode /\ c.addEps # NoNode
      /\ c.sqrt # NoNode /\ c.div # NoNode /\ c.mul # NoNode /\ last # NoNode
  BY <1>3, Zenon DEF IsOp
<1>5. \A j : Follower(g, j) # NoNode =>
         Follower(g, j) \in NodesOf(g) /\ g.nodes[j].outputs[1] \notin g.outputs
  BY <1>1, FollowerIs
<1>6. /\ c.mean \in NodesOf(g) /\ c.sub \in NodesOf(g) /\ c.pow \in NodesOf(g)
      /\ c.var \in NodesOf(g) /\ c.addEps \in NodesOf(g) /\ c.sqrt \in NodesOf(g)
      /\ c.div \in NodesOf(g) /\ c.mul \in NodesOf(g) /\ last \in NodesOf(g)
  BY <1>2, <1>3, <1>4, <1>5
<1>7. \A j \in {c.mean, c.sub, c.pow, c.var, c.addEps, c.sqrt, c.div} : g.nodes[j].outputs[1] \notin g.outputs
  BY <1>2, <1>3, <1>4, <1>5
<1>8. last = c.mul \/ g.nodes[c.mul].outputs[1] \notin g.outputs
  BY <1>2, <1>3, <1>4, <1>5
<1>9. \A j \in m.members : g.nodes[j].op \in OfOneOutput /\ g.nodes[j].domain = ""
  BY <1>2, <1>3, ZenonT(60) DEF IsOp, OfOneOutput
<1>10. ASSUME NEW j \in m.members
       PROVE  /\ j \in NodesOf(g) /\ Len(g.nodes[j].outputs) = 1
              /\ m.fused.outputs = <<g.nodes[j].outputs[1]>> \/ g.nodes[j].outputs[1] \notin g.outputs
  <2>1. j \in {c.mean, c.sub, c.pow, c.var, c.addEps, c.sqrt, c.div} \/ j = c.mul \/ j = last
    BY <1>3
  <2>2. j \in NodesOf(g)
    BY <1>6, <2>1
  <2>3. Len(g.nodes[j].outputs) = 1
    BY <1>9, <2>2 DEF GraphOK, NodeOK
  <2>4. m.fused.outputs = <<g.nodes[j].outputs[1]>> \/ g.nodes[j].outputs[1] \notin g.outputs
    BY <1>3, <1>7, <1>8, <2>1
  <2> QED BY <2>2, <2>3, <2>4
<1> QED BY <1>1, <1>10

\* The matches that are kept are matches, and no two share a node (fuse_layernorm).
LEMMA FoundAre ==
  ASSUME NEW g, Listed(g.nodes), NEW upTo,
         Rounds(upTo, "find", {}, g, Len(g.nodes)), NEW m \in upTo[Len(g.nodes)]
  PROVE  /\ m.members # {} /\ \E i \in NodesOf(g) : m = LayerNormAt(g, i)
         /\ \A p \in upTo[Len(g.nodes)] : p # m => p.members \cap m.members = {}
<1> DEFINE n == Len(g.nodes)
           Good(k) ==
             /\ \A q \in upTo[k] : q.members # {} /\ \E i \in NodesOf(g) : q = LayerNormAt(g, i)
             /\ \A p, q \in upTo[k] : p # q => p.members \cap q.members = {}
           T == {k \in 0 .. n : ~Good(k)}
<1>1. n \in Nat /\ NodesOf(g) = 1 .. n
  BY DEF Listed, NodesOf
<1>2. upTo = [k \in 0 .. n |-> IF k = 0 THEN {} ELSE Attached(upTo[k - 1], LayerNormAt(g, k))]
  BY DEF Rounds, Step
<1>3. Good(0)
  <2>1. upTo[0] = {}
    BY <1>1, <1>2
  <2> QED BY <2>1
<1>4. ASSUME NEW k \in 1 .. n, Good(k - 1)
      PROVE  Good(k)
  <2>0. k \in 0 .. n /\ k # 0
    BY <1>1
  <2>1. upTo[k] = Attached(upTo[k - 1], LayerNormAt(g, k))
    <3> HIDE DEF n
    <3> QED BY <1>2, <2>0
  <2> QED BY <1>1, <1>4, <2>1 DEF Attached
<1>5. n \notin T
  <2> SUFFICES ASSUME n \in T
               PROVE  FALSE
    OBVIOUS
  <2>1. T \in SUBSET Nat
    BY <1>1
  <2>2. PICK k \in T : \A j \in T : k <= j
    <3> HIDE DEF T
    <3> QED BY <2>1, LeastNatural
  <2> HIDE DEF Good
  <2>3. k \in 1 .. n /\ k - 1 \in 0 .. n /\ k - 1 \notin T
    BY <1>1, <1>3, <2>2
  <2> QED BY <1>4, <2>2, <2>3
<1>6. Good(n)
  BY <1>1, <1>5
<1> QED BY <1>6

\* fuse_layernorm.
LEMMA FuseLayerNormSound ==
  ASSUME NEW g, GraphOK(g)
  PROVE  Sound(g, FuseLayerNorm(g))
<1> DEFINE h == FuseLayerNorm(g)
           n == Len(g.nodes)
           upTo[i \in 0 .. n] ==
             IF i = 0 THEN {}
             ELSE LET ms == upTo[i - 1]
                      m  == LayerNormAt(g, i)
                  IN IF m.members = {} \/ \E q \in ms : q.members \cap m.members # {} THEN ms
                     ELSE ms \cup {m}
           found == upTo[n]
           removed == UNION {m.members : m \in found}
           replaced == [i \in {Max(m.members) : m \in found} |->
                          (CHOOSE m \in found : Max(m.members) = i).fused]
<1>1. h = [g EXCEPT !.nodes = Rebuilt(g, removed, replaced)]
  BY Zenon DEF FuseLayerNorm
<1>2. Listed(g.nodes) /\ n \in Nat
  BY DEF GraphOK, WellFormed, Listed
<1>3. Rounds(upTo, "find", {}, g, n)
  <2>1. PICK r : Rounds(r, "find", {}, g, n)
    <3> HIDE DEF n
    <3> QED BY <1>2, RoundsExist
  <2>2. r = [k \in 0 .. n |-> IF k = 0 THEN {} ELSE Attached(r[k - 1], LayerNormAt(g, k))]
    BY <2>1 DEF Rounds, Step
  <2>3. upTo = [k \in 0 .. n |-> IF k = 0 THEN {} ELSE Attached(upTo[k - 1], LayerNormAt(g, k))]
    BY <2>2, Zenon DEF Attached
  <2> HIDE DEF upTo
  <2> QED BY <2>3 DEF Rounds, Step
<1> HIDE DEF upTo, h
<1>4. ASSUME NEW m \in found
      PROVE  NodeOK(m.fused) /\ Implemented(m.fused)
  <2>1. PICK i \in NodesOf(g) : m = LayerNormAt(g, i) /\ m.members # {}
    BY <1>2, <1>3, FoundAre
  <2>2. NodeOK(m.fused) /\ m.fused.domain = "" /\ m.fused.op = "LayerNormalization"
    BY <2>1, LayerNormIs
  <2> QED BY <2>2, ZenonT(60) DEF Implemented, ImplementedOps, ImplementedForm
<1>5. ASSUME NEW i \in DOMAIN replaced
      PROVE  NodeOK(replaced[i]) /\ Implemented(replaced[i])
  <2>1. PICK m \in found : Max(m.members) = i
    OBVIOUS
  <2> DEFINE chosen == CHOOSE q \in found : Max(q.members) = i
  <2>2. chosen \in found
    BY <2>1
  <2>3. replaced[i] = chosen.fused
    OBVIOUS
  <2> HIDE DEF replaced, found, chosen
  <2> QED BY <1>4, <2>2, <2>3
<1>6. ASSUME NEW m \in found
      PROVE  /\ Max(m.members) \in m.members /\ m.members \subseteq NodesOf(g)
             /\ \A j \in m.members :
                  /\ Len(g.nodes[j].outputs) = 1
                  /\ m.fused.outputs = <<g.nodes[j].outputs[1]>> \/ g.nodes[j].outputs[1] \notin g.outputs
  <2>1. PICK i \in NodesOf(g) : m = LayerNormAt(g, i) /\ m.members # {}
    BY <1>2, <1>3, FoundAre
  <2>2. \A j \in m.members :
          /\ j \in NodesOf(g) /\ Len(g.nodes[j].outputs) = 1
          /\ m.fused.outputs = <<g.nodes[j].outputs[1]>> \/ g.nodes[j].outputs[1] \notin g.outputs
    BY <2>1, MembersAre
  <2>3. Within(m.members, n)
    BY <1>2, <2>2 DEF Within, NodesOf, Listed
  <2>4. Max(m.members) \in m.members
    BY <1>2, <2>1, <2>3, GreatestMember
  <2> QED BY <2>2, <2>4
<1>7. ASSUME NEW m \in found
      PROVE  Max(m.members) \in DOMAIN replaced /\ replaced[Max(m.members)] = m.fused
  <2> DEFINE i == Max(m.members)
             chosen == CHOOSE q \in found : Max(q.members) = i
  <2>1. i \in DOMAIN replaced /\ replaced[i] = chosen.fused
    OBVIOUS
  <2>2. chosen \in found /\ Max(chosen.members) = i
    OBVIOUS
  <2>3. i \in m.members /\ i \in chosen.members
    BY <1>6, <2>2
  <2> HIDE DEF i, chosen, replaced
  <2>4. \A p \in found : p # m => p.members \cap m.members = {}
    BY <1>2, <1>3, FoundAre
  <2>5. chosen = m
    BY <2>2, <2>3, <2>4
  <2> QED BY <2>1, <2>5 DEF i
<1>8. \A i \in DOMAIN replaced : i \in removed
  BY <1>6
<1>9. \A i \in removed : \E m \in found : i \in m.members
  OBVIOUS
<1> HIDE DEF removed, replaced, found
<1>10. Handed(g, removed, replaced)
  <2> SUFFICES ASSUME NEW i \in NodesOf(g), NEW x \in g.outputs \cap ToSet(g.nodes[i].outputs)
               PROVE  \E j \in Left(g, removed, replaced) : x \in ToSet(InPlace(g, replaced, j).outputs)
    BY DEF Handed
  <2>1. CASE i \in removed
    <3>1. PICK m \in found : i \in m.members
      BY <1>9, <2>1
    <3> DEFINE j == Max(m.members)
    <3>2. Len(g.nodes[i].outputs) = 1 /\ Listed(g.nodes[i].outputs)
      BY <1>6, <3>1 DEF GraphOK, NodeOK
    <3>3. x = g.nodes[i].outputs[1]
      BY <3>2, OnlyMember
    <3>4. m.fused.outputs = <<x>>
      BY <1>6, <3>1, <3>3
    <3>5. j \in NodesOf(g) /\ j \in DOMAIN replaced /\ replaced[j] = m.fused
      BY <1>6, <1>7
    <3> HIDE DEF j
    <3>6. j \in Left(g, removed, replaced) /\ InPlace(g, replaced, j) = m.fused
      BY <3>5 DEF Left, InPlace
    <3> QED BY <3>4, <3>6, OneShown
  <2>2. CASE i \notin removed
    <3>1. i \in Left(g, removed, replaced) /\ InPlace(g, replaced, i) = g.nodes[i]
      BY <1>8, <2>2 DEF Left, InPlace
    <3> QED BY <3>1
  <2> QED BY <2>1, <2>2
<1>11. DOMAIN h = DOMAIN g /\ h.nodes = Rebuilt(g, removed, replaced) /\ h.outputs = g.outputs
  BY <1>1 DEF GraphOK, WellFormed
<1> QED BY <1>5, <1>10, <1>11, RebuiltSound DEF h

----------------------------------------------------------------------------
(* The graphs that are rewritten.                                          *)

\* The first input alone is a list.
LEMMA FirstAlone ==
  ASSUME NEW s, Listed(s)
  PROVE  Listed(SubSeq(s, 1, 1))
BY DEF Listed

\* A node whose axes became an attribute makes what it made.
LEMMA FoldedNode ==
  ASSUME NEW node, NodeOK(node), NEW constants
  PROVE  LET new == FoldConstantParams(node, constants) IN
         NodeOK(new) /\ new.outputs = node.outputs
<1> DEFINE new == FoldConstantParams(node, constants)
<1>1. new = node \/ \E attrs : new = [node EXCEPT !.attrs = attrs, !.inputs = SubSeq(@, 1, 1)]
  BY DEF FoldConstantParams
<1> HIDE DEF new
<1>2. ASSUME NEW attrs, new = [node EXCEPT !.attrs = attrs, !.inputs = SubSeq(@, 1, 1)]
      PROVE  NodeOK(new) /\ new.outputs = node.outputs
  <2>1. /\ DOMAIN new = DOMAIN node /\ new.domain = node.domain /\ new.op = node.op
        /\ new.outputs = node.outputs /\ new.inputs = SubSeq(node.inputs, 1, 1)
    BY <1>2 DEF NodeOK
  <2>2. Listed(SubSeq(node.inputs, 1, 1))
    BY FirstAlone DEF NodeOK
  <2> QED BY <2>1, <2>2 DEF NodeOK
<1> QED BY <1>1, <1>2 DEF new

\* A node without its branches makes what it made.
LEMMA BareNode ==
  ASSUME NEW node, NodeOK(node)
  PROVE  /\ NodeOK(WithoutBranches(node))
         /\ WithoutBranches(node).op = node.op /\ WithoutBranches(node).inputs = node.inputs
         /\ WithoutBranches(node).outputs = node.outputs
BY DEF WithoutBranches, NodeOK

\* graph_to_ir.
LEMMA LoweredOK ==
  ASSUME NEW m \in Models
  PROVE  LET h == [m.ir EXCEPT !.nodes = Canonical(@, Constants(m.ir))] IN
         GraphOK(h) /\ Shows(m.ir, h)
<1> DEFINE h == [m.ir EXCEPT !.nodes = Canonical(@, Constants(m.ir))]
           nodes == Canonical(m.ir.nodes, Constants(m.ir))
<1>1. /\ DOMAIN m.ir = {"nodes", "initializers", "inputs", "outputs"} /\ Listed(m.ir.nodes)
      /\ \A i \in DOMAIN m.ir.nodes : NodeOK(m.ir.nodes[i])
  BY ModelsDecoded DEF NodesOf, NodeOK
<1>2. /\ DOMAIN nodes = DOMAIN m.ir.nodes
      /\ \A i \in DOMAIN nodes : NodeOK(nodes[i]) /\ nodes[i].outputs = m.ir.nodes[i].outputs
  BY <1>1, FoldedNode DEF Canonical
<1>3. Listed(nodes) /\ Plain(nodes)
  BY <1>1, <1>2 DEF Listed, Plain, Canonical
<1>4. DOMAIN h = DOMAIN m.ir /\ h.nodes = nodes /\ h.outputs = m.ir.outputs
  BY <1>1
<1> HIDE DEF nodes, h
<1>5. GraphOK(h)
  BY <1>1, <1>2, <1>3, <1>4 DEF GraphOK, WellFormed, NodesOf
<1>6. Shows(m.ir, h)
  BY <1>2, <1>4 DEF Shows, Makes, NodesOf
<1> QED BY <1>5, <1>6 DEF h

\* The second entry of a list.
LEMMA SecondOf ==
  ASSUME NEW s, Listed(s), 2 <= Len(s)
  PROVE  2 \in DOMAIN s
BY DEF Listed

\* The second input of a node.
LEMMA SecondInput ==
  ASSUME NEW node, Listed(node.inputs), Input(node, 2) # ""
  PROVE  Input(node, 2) \in ToSet(node.inputs)
<1>1. 2 <= Len(node.inputs) /\ Input(node, 2) = node.inputs[2]
  BY DEF Input
<1>2. 2 \in DOMAIN node.inputs
  BY <1>1, SecondOf
<1> QED BY <1>1, <1>2 DEF ToSet

\* A node of a block reads what the block reads.
LEMMA NodeReads ==
  ASSUME NEW nodes, NEW k \in DOMAIN nodes
  PROVE  ToSet(nodes[k].inputs) \subseteq UNION {ToSet(nodes[q].inputs) : q \in DOMAIN nodes}
OBVIOUS

\* What the claim looks axes up in, and what a group has of it.
Claimed(given, held) ==
  [name \in DOMAIN given \cup DOMAIN held |-> IF name \in DOMAIN given THEN given[name] ELSE held[name]]
Taken(given, read) == [name \in read \cap DOMAIN given |-> given[name]]

\* A node means to a group that has its axes what it meant to the claim.
LEMMA ClaimedForm ==
  ASSUME NEW node, NodeOK(node), NEW given, NEW held, NEW read, "" \notin DOMAIN given,
         ToSet(node.inputs) \ {""} \subseteq read,
         node.op \in {"ReduceSum", "ReduceMean", "ReduceMax"} =>
            Input(node, 2) \notin DOMAIN held \ DOMAIN given
  PROVE  FoldConstantParams(node, Claimed(given, held)) = FoldConstantParams(node, Taken(given, read))
<1> DEFINE wide == Claimed(given, held)
           narrow == Taken(given, read)
           axes == Input(node, 2)
<1>1. CASE node.op \notin {"ReduceSum", "ReduceMean", "ReduceMax"}
  BY <1>1, Zenon DEF FoldConstantParams
<1>2. CASE node.op \in {"ReduceSum", "ReduceMean", "ReduceMax"} /\ axes \in DOMAIN given
  <2>1. axes \in ToSet(node.inputs) /\ axes # ""
    <3>1. axes # "" /\ Listed(node.inputs)
      BY <1>2 DEF NodeOK
    <3> QED BY <3>1, SecondInput
  <2>2. axes \in DOMAIN narrow /\ axes \in DOMAIN wide /\ narrow[axes] = wide[axes]
    BY <1>2, <2>1 DEF Claimed, Taken
  <2> HIDE DEF narrow, wide
  <2>3. FoldConstantParams(node, narrow) = FoldConstantParams(node, wide)
    BY <2>2, Zenon DEF FoldConstantParams
  <2> QED BY <2>3 DEF narrow, wide
<1>3. CASE node.op \in {"ReduceSum", "ReduceMean", "ReduceMax"} /\ axes \notin DOMAIN given
  <2>1. axes \notin DOMAIN narrow /\ axes \notin DOMAIN wide
    BY <1>3 DEF Claimed, Taken
  <2> HIDE DEF narrow, wide
  <2>2. FoldConstantParams(node, narrow) = node /\ FoldConstantParams(node, wide) = node
    BY <2>1, Zenon DEF FoldConstantParams
  <2> QED BY <2>2 DEF narrow, wide
<1> QED BY <1>1, <1>2, <1>3

\* The graph of a group that is supported runs, and makes what the model makes of its outputs.
LEMMA CompiledOK ==
  ASSUME NEW m \in Models, AxesInitialized(m), NEW group, group \subseteq GraphOf(m).supported
  PROVE  LET h == Extract(Block(m, group)) IN GraphOK(h) /\ Runs(h) /\ HandsOut(m.ir, h)
<1> DEFINE given == m.ir.initializers
           bare == [i \in NodesOf(m.ir) |-> WithoutBranches(m.ir.nodes[i])]
           held == ConstantOutputs(bare)
           known == [name \in DOMAIN given \cup DOMAIN held |->
                       IF name \in DOMAIN given THEN given[name] ELSE held[name]]
           removed == NodesOf(m.ir) \ group
           inside == Rebuilt(m.ir, removed, <<>>)
           read == (UNION {ToSet(inside[k].inputs) : k \in DOMAIN inside}) \ {""}
           inits == [name \in read \cap DOMAIN given |-> given[name]]
           block == Block(m, group)
           h == Extract(block)
           nodes == [k \in DOMAIN inside |-> FoldConstantParams(WithoutBranches(inside[k]), inits)]
<1>1. /\ DOMAIN m.ir = {"nodes", "initializers", "inputs", "outputs"} /\ Listed(m.ir.nodes)
      /\ "" \notin DOMAIN given /\ \A i \in NodesOf(m.ir) : NodeOK(m.ir.nodes[i])
  BY ModelsDecoded DEF NodesOf, NodeOK
<1>2. /\ DOMAIN block = {"nodes", "initializers", "inputs", "outputs"}
      /\ block.nodes = inside /\ block.initializers = inits
      /\ \A n \in block.outputs : \E k \in DOMAIN inside : n \in ToSet(inside[k].outputs)
  BY DEF Block
<1>3. DOMAIN h = DOMAIN block /\ h.nodes = nodes /\ h.outputs = block.outputs
  <2> HIDE DEF block, inside, inits
  <2> QED BY <1>2 DEF Extract, Canonical
<1>4. \A i \in NodesOf(m.ir) : i \in group => Implemented(FoldConstantParams(bare[i], known))
  <2>1. GraphOf(m).supported = {i \in DOMAIN CanonicalNodes(m) : Implemented(CanonicalNodes(m)[i])}
    BY DEF GraphOf
  <2>2. CanonicalNodes(m) = [i \in NodesOf(m.ir) |-> FoldConstantParams(bare[i], known)]
    BY DEF CanonicalNodes, Canonical, Atop
  <2> HIDE DEF bare, known
  <2> QED BY <2>1, <2>2
<1> HIDE DEF removed
<1>5. /\ Listed(inside)
      /\ \A k \in DOMAIN inside : \E i \in Left(m.ir, removed, <<>>) :
           Cardinality(UpTo(Left(m.ir, removed, <<>>), i)) = k /\ inside[k] = InPlace(m.ir, <<>>, i)
  <2>1. Listed(m.ir.nodes)
    BY <1>1
  <2> HIDE DEF bare, held, known, inits, nodes, h, block, read
  <2> QED BY <2>1, RebuiltIs
<1> HIDE DEF inside
<1>6. ASSUME NEW k \in DOMAIN inside
      PROVE  NodeOK(nodes[k]) /\ Implemented(nodes[k]) /\ nodes[k].outputs = inside[k].outputs
  <2>1. PICK i \in NodesOf(m.ir) : i \in group /\ inside[k] = m.ir.nodes[i]
    <3>1. PICK i \in Left(m.ir, removed, <<>>) : inside[k] = InPlace(m.ir, <<>>, i)
      BY <1>5
    <3>2. i \in NodesOf(m.ir) /\ i \notin removed
      BY <3>1 DEF Left
    <3> QED BY <3>1, <3>2 DEF InPlace, removed
  <2> DEFINE node == WithoutBranches(m.ir.nodes[i])
  <2>2. NodeOK(node) /\ node.op = m.ir.nodes[i].op /\ node.inputs = m.ir.nodes[i].inputs
    BY <1>1, BareNode
  <2>3. bare[i] = node
    OBVIOUS
  <2>4. ToSet(node.inputs) \ {""} \subseteq read
    <3>1. node.inputs = inside[k].inputs
      BY <2>1, <2>2
    <3>2. ToSet(inside[k].inputs) \ {""} \subseteq read
      <4>1. ToSet(inside[k].inputs) \subseteq UNION {ToSet(inside[q].inputs) : q \in DOMAIN inside}
        BY NodeReads
      <4> DEFINE all == UNION {ToSet(inside[q].inputs) : q \in DOMAIN inside}
      <4>2. read = all \ {""}
        BY Zenon
      <4>3. ToSet(inside[k].inputs) \subseteq all
        BY <4>1, Zenon
      <4> HIDE DEF all, read
      <4> QED BY <4>2, <4>3
    <3> HIDE DEF node, read
    <3> QED BY <3>1, <3>2
  <2>5. node.op \in {"ReduceSum", "ReduceMean", "ReduceMax"} =>
          Input(node, 2) \notin DOMAIN held \ DOMAIN given
    BY <2>3 DEF AxesInitialized
  <2> HIDE DEF node, held, given, read
  <2>6. FoldConstantParams(node, known) = FoldConstantParams(node, inits)
    <3>1. known = Claimed(given, held) /\ inits = Taken(given, read)
      BY DEF Claimed, Taken
    <3> HIDE DEF known, inits
    <3>2. NodeOK(node) /\ "" \notin DOMAIN given
      BY <1>1, <2>2
    <3> QED BY <2>4, <2>5, <3>1, <3>2, ClaimedForm, ZenonT(60)
  <2>7. nodes[k] = FoldConstantParams(node, inits)
    BY <2>1 DEF node
  <2>8. Implemented(FoldConstantParams(node, known))
    BY <1>4, <2>1, <2>3
  <2>9. nodes[k].outputs = inside[k].outputs
    <3>1. WithoutBranches(m.ir.nodes[i]).outputs = m.ir.nodes[i].outputs
      BY <1>1, BareNode
    <3>2. FoldConstantParams(node, inits).outputs = node.outputs
      BY <2>2, FoldedNode
    <3> HIDE DEF nodes, inits
    <3> QED BY <2>1, <2>7, <3>1, <3>2 DEF node
  <2> HIDE DEF nodes, inits, known
  <2> QED BY <2>2, <2>6, <2>7, <2>8, <2>9, FoldedNode
<1>7. DOMAIN nodes = DOMAIN inside /\ Listed(nodes) /\ Plain(nodes)
  BY <1>5 DEF Listed, Plain
<1> HIDE DEF nodes, h, block
<1>8. GraphOK(h) /\ Runs(h)
  BY <1>2, <1>3, <1>6, <1>7 DEF GraphOK, WellFormed, NodesOf, Runs
<1>9. HandsOut(m.ir, h)
  <2> SUFFICES ASSUME NEW n \in h.outputs, n # ""
               PROVE  \E k \in DOMAIN nodes : n \in ToSet(nodes[k].outputs)
    BY <1>3, Zenon DEF HandsOut, Makes, NodesOf
  <2>1. PICK k \in DOMAIN inside : n \in ToSet(inside[k].outputs)
    BY <1>2, <1>3
  <2> QED BY <1>6, <1>7, <2>1
<1> QED BY <1>8, <1>9 DEF h, block

----------------------------------------------------------------------------
(* Loading keeps the data as long as the shapes say.                       *)

\* What is left in a rebuilt list says what it said, or what its replacement says.
LEMMA RebuiltSayable ==
  ASSUME NEW g, Listed(g.nodes), \A i \in NodesOf(g) : Sayable(g.nodes[i]),
         NEW removed, NEW replaced,
         \A i \in NodesOf(g) : i \in DOMAIN replaced => Sayable(replaced[i])
  PROVE  \A k \in DOMAIN Rebuilt(g, removed, replaced) : Sayable(Rebuilt(g, removed, replaced)[k])
<1> SUFFICES ASSUME NEW k \in DOMAIN Rebuilt(g, removed, replaced)
             PROVE  Sayable(Rebuilt(g, removed, replaced)[k])
  OBVIOUS
<1>1. PICK i \in Left(g, removed, replaced) :
        Rebuilt(g, removed, replaced)[k] = InPlace(g, replaced, i)
  BY RebuiltIs
<1>2. i \in NodesOf(g)
  BY <1>1 DEF Left
<1> QED BY <1>1, <1>2 DEF InPlace

\* A node says what one says that has more to say, or other inputs.
LEMMA SaysNoMore ==
  ASSUME NEW node, Sayable(node), NEW new, new.op = node.op, new.domain = node.domain,
         \A name \in {"value", "axis"} :
            Has(new, name) => Has(node, name) /\ new.attrs[name] = node.attrs[name]
  PROVE  Sayable(new)
BY DEF Sayable

\* A rewrite of g into h gives out data that are as long as those it was given.
Stores(g, h) == DataOK(g) => DataOK(h)

LEMMA RebuiltStores ==
  ASSUME NEW g, GraphOK(g), DataOK(g), NEW removed, NEW replaced, NEW h,
         \A i \in NodesOf(g) : i \in DOMAIN replaced => Sayable(replaced[i]),
         h.nodes = Rebuilt(g, removed, replaced), AllStored(h.initializers)
  PROVE  DataOK(h)
<1>1. Listed(g.nodes) /\ \A i \in NodesOf(g) : Sayable(g.nodes[i])
  BY DEF GraphOK, WellFormed, DataOK
<1>2. \A k \in DOMAIN Rebuilt(g, removed, replaced) : Sayable(Rebuilt(g, removed, replaced)[k])
  BY <1>1, RebuiltSayable
<1> QED BY <1>2 DEF DataOK, NodesOf

\* What a visit has folded is known.
Knows(g, past) ==
  AllStored(past.known) /\ \A j \in past.gone : g.nodes[j].outputs[1] \in DOMAIN past.known

LEMMA FoldStepKnows ==
  ASSUME NEW g, GraphOK(g), DataOK(g), NEW past, Knows(g, past), NEW i \in NodesOf(g)
  PROVE  Knows(g, FoldStep(g, past, i))
<1> DEFINE node == g.nodes[i]
           ins == node.inputs
           xs == [k \in DOMAIN ins |-> past.known[ins[k]]]
           value == Result(g, i, past.known)
           new == [name \in {node.outputs[1]} |-> value]
<1>1. CASE value = Refused
  BY <1>1, Zenon DEF FoldStep
<1>2. CASE value # Refused
  <2>1. Foldable(g, i, past.known) /\ value = Evaluate(node, xs)
    BY <1>2 DEF Result
  <2>2. Len(ins) \in Nat \ {0} /\ DOMAIN ins = 1 .. Len(ins)
    <3>1. Listed(ins)
      BY DEF GraphOK, NodeOK
    <3>2. Len(ins) > 0
      BY <2>1 DEF Foldable
    <3> HIDE DEF ins
    <3> QED BY <3>1, <3>2 DEF Listed
  <2>3. \A k \in 1 .. Len(ins) : Stored(past.known[ins[k]])
    <3>1. ToSet(ins) \subseteq DOMAIN past.known
      BY <2>1 DEF Foldable
    <3>2. \A k \in DOMAIN ins : ins[k] \in ToSet(ins)
      BY DEF ToSet
    <3> QED BY <2>2, <3>1, <3>2 DEF Knows, AllStored
  <2>4. Sayable(node)
    BY DEF DataOK
  <2> DEFINE n == Len(ins)
  <2>5. xs = [k \in 1 .. n |-> xs[k]] /\ \A k \in 1 .. n : Stored(xs[k])
    BY <2>2, <2>3
  <2>6. Stored(value)
    <3>1. n \in Nat \ {0} /\ Evaluate(node, xs) # Refused
      BY <1>2, <2>1, <2>2
    <3> HIDE DEF n, xs, node, value
    <3> QED BY <2>1, <2>4, <2>5, <3>1, EvaluateStored
  <2> HIDE DEF value, xs
  <2>7. AllStored(new) /\ DOMAIN new = {node.outputs[1]}
    BY <2>6 DEF AllStored
  <2> HIDE DEF new
  <2>8. AllStored(Atop(new, past.known)) /\ DOMAIN Atop(new, past.known) = DOMAIN new \cup DOMAIN past.known
    BY <2>7, AtopStored DEF Knows, Atop
  <2>9. FoldStep(g, past, i) = [known |-> Atop(new, past.known), gone |-> past.gone \cup {i}]
    BY <1>2, Zenon DEF FoldStep, value, new
  <2> QED BY <2>7, <2>8, <2>9 DEF Knows
<1> QED BY <1>1, <1>2

LEMMA FoldedKnows ==
  ASSUME NEW g, GraphOK(g), DataOK(g), NEW first, Knows(g, first), NEW upTo,
         Rounds(upTo, "fold", first, g, Len(g.nodes))
  PROVE  Knows(g, upTo[Len(g.nodes)])
<1> DEFINE n == Len(g.nodes)
           Good(k) == Knows(g, upTo[k])
           T == {k \in 0 .. n : ~Good(k)}
<1>1. n \in Nat /\ NodesOf(g) = 1 .. n
  BY DEF Listed, GraphOK, WellFormed, NodesOf
<1>2. upTo = [k \in 0 .. n |-> IF k = 0 THEN first ELSE FoldStep(g, upTo[k - 1], k)]
  BY DEF Rounds, Step
<1>3. Good(0)
  <2>1. upTo[0] = first
    BY <1>1, <1>2
  <2> QED BY <2>1
<1>4. ASSUME NEW k \in 1 .. n, Good(k - 1)
      PROVE  Good(k)
  <2>0. k \in 0 .. n /\ k # 0 /\ k \in NodesOf(g)
    BY <1>1
  <2>1. upTo[k] = FoldStep(g, upTo[k - 1], k)
    <3> HIDE DEF n
    <3> QED BY <1>2, <2>0
  <2> QED BY <1>4, <2>0, <2>1, FoldStepKnows
<1>5. n \notin T
  <2> SUFFICES ASSUME n \in T
               PROVE  FALSE
    OBVIOUS
  <2>1. T \in SUBSET Nat
    BY <1>1
  <2>2. PICK k \in T : \A j \in T : k <= j
    <3> HIDE DEF T
    <3> QED BY <2>1, LeastNatural
  <2> HIDE DEF Good
  <2>3. k \in 1 .. n /\ k - 1 \in 0 .. n /\ k - 1 \notin T
    BY <1>1, <1>3, <2>2
  <2> QED BY <1>4, <2>2, <2>3
<1>6. Good(n)
  BY <1>1, <1>5
<1> QED BY <1>6

\* fold_constants: what became of nodes is as long as its shape says.
LEMMA FoldConstantsStores ==
  ASSUME NEW g, GraphOK(g)
  PROVE  Stores(g, FoldConstants(g))
<1> SUFFICES ASSUME DataOK(g)
             PROVE  DataOK(FoldConstants(g))
  BY DEF Stores
<1> DEFINE h == FoldConstants(g)
           n == Len(g.nodes)
           first == [known |-> Constants(g), gone |-> {}]
           upTo[i \in 0 .. n] == IF i = 0 THEN first ELSE FoldStep(g, upTo[i - 1], i)
           past == upTo[n]
           folded == {g.nodes[i].outputs[1] : i \in past.gone}
           added == [name \in folded |-> past.known[name]]
<1>1. h = [g EXCEPT !.nodes = Rebuilt(g, past.gone, <<>>), !.initializers = Atop(added, @)]
  BY Zenon DEF FoldConstants
<1>2. Listed(g.nodes) /\ n \in Nat
  BY DEF GraphOK, WellFormed, Listed
<1>3. Rounds(upTo, "fold", first, g, n)
  <2>1. PICK r : Rounds(r, "fold", first, g, n)
    <3> HIDE DEF n, first
    <3> QED BY <1>2, RoundsExist
  <2>2. r = [k \in 0 .. n |-> IF k = 0 THEN first ELSE FoldStep(g, r[k - 1], k)]
    BY <2>1 DEF Rounds, Step
  <2>3. upTo = [k \in 0 .. n |-> IF k = 0 THEN first ELSE FoldStep(g, upTo[k - 1], k)]
    BY <2>2, Zenon
  <2> HIDE DEF upTo
  <2> QED BY <2>3 DEF Rounds, Step
<1>4. Knows(g, first)
  BY ConstantsStored DEF Knows
<1> HIDE DEF upTo, h, first
<1>5. Knows(g, past)
  BY <1>3, <1>4, FoldedKnows
<1> HIDE DEF past
<1>6. AllStored(added)
  <2>1. folded \subseteq DOMAIN past.known
    BY <1>5 DEF Knows
  <2> HIDE DEF folded
  <2> QED BY <1>5, <2>1 DEF Knows, AllStored
<1> HIDE DEF added
<1>7. h.nodes = Rebuilt(g, past.gone, <<>>) /\ h.initializers = Atop(added, g.initializers)
  BY <1>1 DEF GraphOK, WellFormed
<1>8. AllStored(h.initializers)
  BY <1>6, <1>7, AtopStored DEF DataOK
<1>9. DOMAIN <<>> = {}
  OBVIOUS
<1> QED BY <1>7, <1>8, <1>9, RebuiltStores DEF h

\* fuse_layernorm, fuse_gqa_qk_deint: initializers stay as they are.
LEMMA FuseLayerNormStores ==
  ASSUME NEW g, GraphOK(g)
  PROVE  Stores(g, FuseLayerNorm(g))
<1> SUFFICES ASSUME DataOK(g)
             PROVE  DataOK(FuseLayerNorm(g))
  BY DEF Stores
<1> DEFINE h == FuseLayerNorm(g)
           n == Len(g.nodes)
           upTo[i \in 0 .. n] ==
             IF i = 0 THEN {}
             ELSE LET ms == upTo[i - 1]
                      m  == LayerNormAt(g, i)
                  IN IF m.members = {} \/ \E q \in ms : q.members \cap m.members # {} THEN ms
                     ELSE ms \cup {m}
           found == upTo[n]
           removed == UNION {m.members : m \in found}
           replaced == [i \in {Max(m.members) : m \in found} |->
                          (CHOOSE m \in found : Max(m.members) = i).fused]
<1>1. h = [g EXCEPT !.nodes = Rebuilt(g, removed, replaced)]
  BY Zenon DEF FuseLayerNorm
<1>2. Listed(g.nodes) /\ n \in Nat
  BY DEF GraphOK, WellFormed, Listed
<1>3. Rounds(upTo, "find", {}, g, n)
  <2>1. PICK r : Rounds(r, "find", {}, g, n)
    <3> HIDE DEF n
    <3> QED BY <1>2, RoundsExist
  <2>2. r = [k \in 0 .. n |-> IF k = 0 THEN {} ELSE Attached(r[k - 1], LayerNormAt(g, k))]
    BY <2>1 DEF Rounds, Step
  <2>3. upTo = [k \in 0 .. n |-> IF k = 0 THEN {} ELSE Attached(upTo[k - 1], LayerNormAt(g, k))]
    BY <2>2, Zenon DEF Attached
  <2> HIDE DEF upTo
  <2> QED BY <2>3 DEF Rounds, Step
<1> HIDE DEF upTo, h
<1>4. ASSUME NEW m \in found
      PROVE  Sayable(m.fused)
  <2>1. PICK i \in NodesOf(g) : m = LayerNormAt(g, i) /\ m.members # {}
    BY <1>2, <1>3, FoundAre
  <2>2. m.fused.op = "LayerNormalization"
    BY <2>1, LayerNormIs
  <2> QED BY <2>2 DEF Sayable
<1>5. ASSUME NEW i \in DOMAIN replaced
      PROVE  Sayable(replaced[i])
  <2>1. PICK m \in found : Max(m.members) = i
    OBVIOUS
  <2> DEFINE chosen == CHOOSE q \in found : Max(q.members) = i
  <2>2. chosen \in found
    BY <2>1
  <2>3. replaced[i] = chosen.fused
    OBVIOUS
  <2> HIDE DEF replaced, found, chosen
  <2> QED BY <1>4, <2>2, <2>3
<1> HIDE DEF removed, replaced, found
<1>6. h.nodes = Rebuilt(g, removed, replaced) /\ h.initializers = g.initializers
  BY <1>1 DEF GraphOK, WellFormed
<1> QED BY <1>5, <1>6, RebuiltStores DEF h, DataOK

LEMMA FuseGqaStores ==
  ASSUME NEW g, GraphOK(g)
  PROVE  Stores(g, FuseGqa(g))
<1> SUFFICES ASSUME DataOK(g)
             PROVE  DataOK(FuseGqa(g))
  BY DEF Stores
<1> DEFINE h == FuseGqa(g)
           ms == {DeinterleaveAt(g, Constants(g), i) : i \in NodesOf(g)} \ {NoMatch}
           firsts == {m.first : m \in ms}
           Flagged(node) ==
             [node EXCEPT !.attrs = [name \in DOMAIN @ \cup {"qk_reorder"} |->
                                       IF name = "qk_reorder" THEN 1 ELSE @[name]]]
           Read1(i) == [g.nodes[i] EXCEPT !.inputs[1] = (CHOOSE m \in ms : m.first = i).source]
           replaced == [i \in firsts \cup {m.gqa : m \in ms} |->
                          IF i \in firsts THEN Read1(i) ELSE Flagged(g.nodes[i])]
           removed == UNION {m.members : m \in ms}
<1>1. h = [g EXCEPT !.nodes = Rebuilt(g, removed, replaced)]
  BY Zenon DEF FuseGqa, FuseGqaAt
<1> HIDE DEF ms, h
<1>2. ASSUME NEW i \in NodesOf(g), i \in DOMAIN replaced
      PROVE  Sayable(replaced[i])
  <2> DEFINE node == g.nodes[i]
  <2>1. NodeOK(node) /\ Sayable(node)
    BY DEF GraphOK, DataOK
  <2> HIDE DEF node
  <2>2. ASSUME NEW source
        PROVE  Sayable([node EXCEPT !.inputs[1] = source])
    <3> DEFINE new == [node EXCEPT !.inputs[1] = source]
    <3>1. new.op = node.op /\ new.domain = node.domain /\ new.attrs = node.attrs
      BY <2>1 DEF NodeOK
    <3> HIDE DEF new
    <3>2. Sayable(new)
      BY <2>1, <3>1 DEF Sayable, Has
    <3> QED BY <3>2 DEF new
  <2>3. Sayable(Flagged(node))
    <3> DEFINE new == Flagged(node)
    <3>1. /\ new.op = node.op /\ new.domain = node.domain
          /\ new.attrs = [name \in DOMAIN node.attrs \cup {"qk_reorder"} |->
                            IF name = "qk_reorder" THEN 1 ELSE node.attrs[name]]
      BY <2>1 DEF NodeOK
    <3> HIDE DEF new
    <3>2. \A name \in {"value", "axis"} :
            Has(new, name) => Has(node, name) /\ new.attrs[name] = node.attrs[name]
      BY <3>1 DEF Has
    <3>3. Sayable(new)
      BY <2>1, <3>1, <3>2, SaysNoMore
    <3> QED BY <3>3 DEF new
  <2>4. i \in firsts => replaced[i] = Read1(i)
    BY <1>2
  <2>5. i \notin firsts => replaced[i] = Flagged(node)
    BY <1>2 DEF node
  <2>6. \E source : Read1(i) = [node EXCEPT !.inputs[1] = source]
    BY DEF node
  <2> HIDE DEF Read1, Flagged, replaced
  <2> QED BY <2>2, <2>3, <2>4, <2>5, <2>6
<1> HIDE DEF replaced, removed
<1>3. h.nodes = Rebuilt(g, removed, replaced) /\ h.initializers = g.initializers
  BY <1>1 DEF GraphOK, WellFormed
<1> QED BY <1>2, <1>3, RebuiltStores DEF h, DataOK

\* fold_const_get_slice: the bounds of a slice are numbers.
LEMMA FoldGetSliceStores ==
  ASSUME NEW g, GraphOK(g)
  PROVE  Stores(g, FoldGetSlice(g))
<1> SUFFICES ASSUME DataOK(g)
             PROVE  DataOK(FoldGetSlice(g))
  BY DEF Stores
<1> DEFINE h == FoldGetSlice(g)
           steps == [i \in NodesOf(g) |-> StepAt(g, Constants(g), i)]
           found == {i \in DOMAIN steps : steps[i] # <<>>}
           removed == {Producer(g, g.nodes[i].inputs[2]) : i \in found}
           replaced == [i \in found |-> SliceNode(g.nodes[i])]
           tables == {SliceParameters(g.nodes[i].outputs[1], steps[i][1]) : i \in found}
<1>1. h = [g EXCEPT !.nodes = Rebuilt(g, removed, replaced), !.initializers = Atop(Together(tables), @)]
  BY Zenon DEF FoldGetSlice, FoldGetSliceAt
<1> HIDE DEF h
<1>2. \A t \in tables : AllStored(t)
  <2> SUFFICES ASSUME NEW i \in found
               PROVE  AllStored(SliceParameters(g.nodes[i].outputs[1], steps[i][1]))
    OBVIOUS
  <2>1. i \in NodesOf(g) /\ steps[i] = StepAt(g, Constants(g), i) /\ steps[i] # <<>>
    OBVIOUS
  <2> HIDE DEF found, steps
  <2>2. AllStored(Constants(g))
    BY ConstantsStored
  <2>3. steps[i][1] \in Int
    BY <2>1, <2>2, StepIsNumber
  <2> QED BY <2>3, ParametersStored
<1>3. \A i \in DOMAIN replaced : Sayable(replaced[i])
  BY DEF SliceNode, Sayable
<1> HIDE DEF removed, replaced, tables
<1>4. h.nodes = Rebuilt(g, removed, replaced) /\ h.initializers = Atop(Together(tables), g.initializers)
  BY <1>1 DEF GraphOK, WellFormed
<1>5. AllStored(h.initializers)
  BY <1>2, <1>4, TogetherStored, AtopStored DEF DataOK
<1> QED BY <1>3, <1>4, <1>5, RebuiltStores DEF h

\* A consumer that reads something else says what it said.
LEMMA RepointedSays ==
  ASSUME NEW node, NodeOK(node), Sayable(node), NEW ms, Len(ms) \in Nat
  PROVE  Sayable(Repointed(node, ms))
<1> DEFINE n == Len(ms)
           after[k \in 0 .. n] ==
             IF k = 0 THEN node
             ELSE IF ms[k] = NoMatch THEN after[k - 1]
             ELSE RepointedTo(after[k - 1], ms[k].masked, ms[k].instead)
           Good(k) == NodeOK(after[k]) /\ Sayable(after[k])
           T == {m \in 0 .. n : ~Good(m)}
<1>0. n \in Nat
  OBVIOUS
<1>1. Repointed(node, ms) = after[n]
  BY Zenon DEF Repointed
<1>2. after = [k \in 0 .. n |-> IF k = 0 THEN node ELSE Stand(after[k - 1], ms[k])]
  <2>0. PICK r : Rounds(r, "stand", node, ms, n)
    <3> HIDE DEF n
    <3> QED BY <1>0, RoundsExist
  <2>1. r = [k \in 0 .. n |-> IF k = 0 THEN node ELSE Stand(r[k - 1], ms[k])]
    BY <2>0 DEF Rounds, Step
  <2>2. r = [k \in 0 .. n |-> IF k = 0 THEN node
                              ELSE IF ms[k] = NoMatch THEN r[k - 1]
                              ELSE RepointedTo(r[k - 1], ms[k].masked, ms[k].instead)]
    BY <2>1, Zenon DEF Stand
  <2>3. after = [k \in 0 .. n |-> IF k = 0 THEN node
                              ELSE IF ms[k] = NoMatch THEN after[k - 1]
                              ELSE RepointedTo(after[k - 1], ms[k].masked, ms[k].instead)]
    BY <2>2, Zenon
  <2> HIDE DEF after
  <2> QED BY <2>3, Zenon DEF Stand
<1> HIDE DEF after
<1>3. Good(0)
  <2>1. after[0] = node
    BY <1>2
  <2> QED BY <2>1
<1>4. ASSUME NEW m \in 1 .. n, Good(m - 1)
      PROVE  Good(m)
  <2> DEFINE old == after[m - 1]
             new == RepointedTo(old, ms[m].masked, ms[m].instead)
  <2>1. after[m] = Stand(old, ms[m]) /\ NodeOK(old) /\ Sayable(old)
    BY <1>2, <1>4
  <2> HIDE DEF old
  <2>2. NodeOK(new) /\ new.op = old.op /\ new.domain = old.domain /\ new.attrs = old.attrs
    BY <2>1, RepointedRuns
  <2> HIDE DEF new
  <2>3. Sayable(new)
    BY <2>1, <2>2 DEF Sayable, Has
  <2> QED BY <2>1, <2>2, <2>3 DEF Stand, new
<1>5. n \notin T
  <2> SUFFICES ASSUME n \in T
               PROVE  FALSE
    OBVIOUS
  <2>1. T \in SUBSET Nat
    OBVIOUS
  <2>2. PICK m \in T : \A k \in T : m <= k
    <3> HIDE DEF T
    <3> QED BY <2>1, LeastNatural
  <2> HIDE DEF Good
  <2>3. m \in 1 .. n /\ m - 1 \in 0 .. n /\ m - 1 \notin T
    BY <1>3, <2>2
  <2> QED BY <1>4, <2>2, <2>3
<1> QED BY <1>0, <1>1, <1>5

\* fold_prev_embed_const_mask: a row of zeros is as wide as the table.
LEMMA FoldMasksStores ==
  ASSUME NEW g, GraphOK(g)
  PROVE  Stores(g, FoldMasks(g))
<1> SUFFICES ASSUME DataOK(g)
             PROVE  DataOK(FoldMasks(g))
  BY DEF Stores
<1> DEFINE h == FoldMasks(g)
           ms == [i \in NodesOf(g) |-> MaskAt(g, Constants(g), i)]
           r == [g EXCEPT !.nodes = [i \in NodesOf(g) |-> Repointed(g.nodes[i], ms)]]
           members == UNION {ms[k].members : k \in DOMAIN ms}
           zeros == {k \in DOMAIN ms : ms[k] # NoMatch /\ ms[k].first}
           tables == {[name \in {ms[k].instead} |-> ZeroRow(ms[k].width)] : k \in zeros}
<1>1. h = [r EXCEPT !.nodes = Rebuilt(r, members, <<>>), !.initializers = Atop(Together(tables), @)]
  BY Zenon DEF FoldMasks, FoldMasksAt
<1> HIDE DEF h
<1>2. Len(ms) \in Nat /\ Len(g.nodes) \in Nat /\ NodesOf(g) = 1 .. Len(g.nodes)
  BY DEF GraphOK, WellFormed, Listed, NodesOf
<1>3. \A t \in tables : AllStored(t)
  <2> SUFFICES ASSUME NEW k \in zeros
               PROVE  AllStored([name \in {ms[k].instead} |-> ZeroRow(ms[k].width)])
    OBVIOUS
  <2>1. ms[k] = MaskAt(g, Constants(g), k) /\ ms[k] # NoMatch
    OBVIOUS
  <2> HIDE DEF zeros, ms
  <2>2. AllStored(Constants(g))
    BY ConstantsStored
  <2>3. Stored(ZeroRow(ms[k].width))
    BY <2>1, <2>2, MaskStored
  <2> QED BY <2>3 DEF AllStored
<1> HIDE DEF ms, members, zeros, tables
<1>4. /\ DOMAIN r = DOMAIN g /\ NodesOf(r) = NodesOf(g) /\ r.initializers = g.initializers
      /\ r.nodes = [i \in NodesOf(g) |-> Repointed(g.nodes[i], ms)]
  BY DEF GraphOK, WellFormed, NodesOf
<1>5. \A i \in NodesOf(g) : Sayable(Repointed(g.nodes[i], ms)) /\ Alike(Repointed(g.nodes[i], ms), g.nodes[i])
  BY <1>2, RepointedSays, RepointedIs DEF GraphOK, DataOK
<1> HIDE DEF r
<1>6. DataOK(r)
  BY <1>4, <1>5 DEF DataOK
<1>7. GraphOK(r)
  <2>1. Listed(r.nodes) /\ Plain(r.nodes)
    BY <1>2, <1>4 DEF Listed, Plain
  <2> QED BY <1>4, <1>5, <2>1 DEF GraphOK, WellFormed, Alike
<1>8. h.nodes = Rebuilt(r, members, <<>>) /\ h.initializers = Atop(Together(tables), g.initializers)
  BY <1>1, <1>4, <1>7 DEF GraphOK, WellFormed
<1>9. AllStored(h.initializers)
  BY <1>3, <1>8, TogetherStored, AtopStored DEF DataOK
<1>10. DOMAIN <<>> = {}
  OBVIOUS
<1> QED BY <1>6, <1>7, <1>8, <1>9, <1>10, RebuiltStores DEF h

\* A node whose axes became an attribute, and one without its branches.
LEMMA FoldedSays ==
  ASSUME NEW node, NodeOK(node), Sayable(node), NEW constants
  PROVE  Sayable(FoldConstantParams(node, constants))
<1> DEFINE new == FoldConstantParams(node, constants)
<1>1. \/ new = node
      \/ /\ node.op \in {"ReduceSum", "ReduceMean", "ReduceMax"}
         /\ \E attrs : new = [node EXCEPT !.attrs = attrs, !.inputs = SubSeq(@, 1, 1)]
  BY DEF FoldConstantParams
<1> HIDE DEF new
<1>2. new.op = node.op
  BY <1>1 DEF NodeOK
<1> QED BY <1>1, <1>2 DEF Sayable, new

LEMMA BareSays ==
  ASSUME NEW node, NodeOK(node), Sayable(node)
  PROVE  Sayable(WithoutBranches(node))
<1> DEFINE new == WithoutBranches(node)
<1>1. /\ new.op = node.op /\ new.domain = node.domain
      /\ new.attrs = [name \in DOMAIN node.attrs \ {"branches"} |-> node.attrs[name]]
  BY DEF WithoutBranches, NodeOK
<1> HIDE DEF new
<1>2. \A name \in {"value", "axis"} : Has(new, name) => Has(node, name) /\ new.attrs[name] = node.attrs[name]
  BY <1>1 DEF Has
<1>3. Sayable(new)
  BY <1>1, <1>2, SaysNoMore
<1> QED BY <1>3 DEF new

\* graph_to_ir.
LEMMA LoweredStores ==
  ASSUME NEW m \in Models, DataOK(m.ir)
  PROVE  DataOK([m.ir EXCEPT !.nodes = Canonical(@, Constants(m.ir))])
<1> DEFINE h == [m.ir EXCEPT !.nodes = Canonical(@, Constants(m.ir))]
<1>1. /\ h.nodes = [i \in NodesOf(m.ir) |-> FoldConstantParams(m.ir.nodes[i], Constants(m.ir))]
      /\ h.initializers = m.ir.initializers
  BY ModelsDecoded DEF Canonical, NodesOf
<1>2. \A i \in NodesOf(m.ir) : NodeOK(m.ir.nodes[i]) /\ Sayable(m.ir.nodes[i])
  BY ModelsDecoded DEF NodeOK, DataOK
<1>3. \A i \in NodesOf(m.ir) : Sayable(FoldConstantParams(m.ir.nodes[i], Constants(m.ir)))
  BY <1>2, FoldedSays
<1> HIDE DEF h
<1>4. DataOK(h)
  BY <1>1, <1>3 DEF DataOK, NodesOf
<1> QED BY <1>4 DEF h

\* compile_impl: a group has what it reads of the initializers.
LEMMA CompiledStores ==
  ASSUME NEW m \in Models, DataOK(m.ir), NEW group
  PROVE  DataOK(Extract(Block(m, group)))
<1> DEFINE block == Block(m, group)
           h == Extract(block)
           removed == NodesOf(m.ir) \ group
           inside == Rebuilt(m.ir, removed, <<>>)
           bare == [k \in DOMAIN inside |-> WithoutBranches(inside[k])]
<1>1. /\ DOMAIN block = {"nodes", "initializers", "inputs", "outputs"} /\ block.nodes = inside
      /\ \E read : block.initializers = [name \in read \cap DOMAIN m.ir.initializers |-> m.ir.initializers[name]]
  BY DEF Block
<1>2. AllStored(block.initializers)
  BY <1>1 DEF DataOK, AllStored
<1> HIDE DEF block
<1>3. /\ h.nodes = [k \in DOMAIN inside |-> FoldConstantParams(bare[k], block.initializers)]
      /\ h.initializers = block.initializers
  <2> HIDE DEF inside
  <2> QED BY <1>1 DEF Extract, Canonical
<1>4. /\ Listed(m.ir.nodes)
      /\ \A i \in NodesOf(m.ir) : NodeOK(m.ir.nodes[i]) /\ Sayable(m.ir.nodes[i])
  BY ModelsDecoded DEF NodeOK, DataOK
<1>5. \A k \in DOMAIN inside : \E i \in NodesOf(m.ir) : inside[k] = m.ir.nodes[i]
  <2>1. \A k \in DOMAIN inside : \E i \in Left(m.ir, removed, <<>>) : inside[k] = InPlace(m.ir, <<>>, i)
    BY <1>4, RebuiltIs
  <2>2. \A i : InPlace(m.ir, <<>>, i) = m.ir.nodes[i]
    BY StaysInPlace
  <2> HIDE DEF inside, removed
  <2> QED BY <2>1, <2>2, Zenon DEF Left
<1> HIDE DEF inside
<1>6. \A k \in DOMAIN inside : NodeOK(bare[k]) /\ Sayable(bare[k])
  <2> SUFFICES ASSUME NEW k \in DOMAIN inside
               PROVE  NodeOK(WithoutBranches(inside[k])) /\ Sayable(WithoutBranches(inside[k]))
    OBVIOUS
  <2>1. NodeOK(inside[k]) /\ Sayable(inside[k])
    BY <1>4, <1>5
  <2> QED BY <2>1, BareNode, BareSays
<1> HIDE DEF bare
<1>7. \A k \in DOMAIN inside : Sayable(FoldConstantParams(bare[k], block.initializers))
  BY <1>6, FoldedSays
<1> HIDE DEF h
<1>8. DataOK(h)
  BY <1>2, <1>3, <1>7 DEF DataOK, NodesOf
<1> QED BY <1>8 DEF h, block

\* prune_dead_nodes, prune_initializers.
LEMMA PrunedStores ==
  ASSUME NEW g, GraphOK(g)
  PROVE  Stores(g, PruneInitializers(PruneNodes(g)))
<1> SUFFICES ASSUME DataOK(g)
             PROVE  DataOK(PruneInitializers(PruneNodes(g)))
  BY DEF Stores
<1> DEFINE p == PruneNodes(g)
           h == PruneInitializers(p)
<1>1. WellFormed(p) /\ Part(p, g)
  BY PrunedIs DEF GraphOK
<1> HIDE DEF p
<1>2. h.nodes = p.nodes /\ h.initializers = [name \in DOMAIN p.initializers \cap Read(p) |-> p.initializers[name]]
  BY <1>1 DEF PruneInitializers, WellFormed
<1>3. p.initializers = g.initializers /\ \A k \in NodesOf(p) : \E i \in NodesOf(g) : p.nodes[k] = g.nodes[i]
  BY <1>1 DEF Part
<1> HIDE DEF h
<1>4. AllStored(h.initializers)
  BY <1>2, <1>3 DEF DataOK, AllStored
<1>5. DataOK(h)
  BY <1>2, <1>3, <1>4 DEF DataOK, NodesOf
<1> QED BY <1>5 DEF h, p

----------------------------------------------------------------------------
(* The loading of a model.                                                 *)

Unplanned == {"lower", "claim", "group", "unclaimed"}

AllRead(g) == WithReaders(g) = NodesOf(g) /\ DOMAIN g.initializers \subseteq Read(g)

\* What is loaded is a graph from the first rewrite on, and one that runs if the plugin
\* claimed it, and what the model makes of its outputs it makes; after the last one it has
\* nothing that nobody reads.
LoadInv ==
  /\ model \in Models
  /\ graph = GraphOf(model)
  /\ host = "plugin" => AxesInitialized(model)
  /\ stage = "lower" => host = "standalone"
  /\ stage \in {"claim", "group"} => host = "plugin"
  /\ stage \in Unplanned => ~rewritten /\ ir = NoGraph
  /\ stage \notin Unplanned => GraphOK(ir) /\ (host = "plugin" => Runs(ir)) /\ HandsOut(model.ir, ir)
  /\ stage \in {"admit", "accepted", "refused"} => (rewritten => AllRead(ir))
  /\ ClaimedIsAccepted

\* A model that is not loaded yet has no graph.
LEMMA LoadInit == Init => LoadInv
BY DEF Init, LoadInv, Unplanned, ClaimedIsAccepted

\* A stage that rewrites keeps what is known of the graph.
LEMMA RewriteInv ==
  ASSUME LoadInv, NEW from, NEW to, NEW new, Rewrite(from, to, new),
         from \notin Unplanned, to \notin Unplanned \cup {"admit", "accepted", "refused"},
         GraphOK(ir) => Sound(ir, new)
  PROVE  LoadInv'
<1>1. /\ stage = from /\ stage' = to /\ ir' = new
      /\ UNCHANGED <<model, host, graph>>
  BY DEF Rewrite, partitionVars
<1>2. GraphOK(ir) /\ (host = "plugin" => Runs(ir)) /\ HandsOut(model.ir, ir)
  BY <1>1 DEF LoadInv
<1>3. GraphOK(ir') /\ (host = "plugin" => Runs(ir')) /\ HandsOut(model.ir, ir')
  BY <1>1, <1>2 DEF Sound, Shows, HandsOut
<1>4. GraphOK(ir)' /\ (host = "plugin" => Runs(ir))' /\ HandsOut(model.ir, ir)'
  BY <1>1, <1>3 DEF GraphOK, Runs, NodesOf, HandsOut, Makes
<1> QED BY <1>1, <1>4 DEF LoadInv, Unplanned, ClaimedIsAccepted

\* The rewrites.
LEMMA RewritesInv ==
  ASSUME LoadInv,
         \/ FuseNormalizations \/ FoldConstantNodes \/ FuseAttention \/ LeaveAttention
         \/ FoldPicks \/ FoldAllMasks \/ LeavePicks
  PROVE  LoadInv'
<1>1. CASE FuseNormalizations
  BY <1>1, RewriteInv, FuseLayerNormSound DEF FuseNormalizations, Unplanned
<1>2. CASE FoldConstantNodes
  BY <1>2, RewriteInv, FoldConstantsSound DEF FoldConstantNodes, Unplanned
<1>3. CASE FuseAttention
  BY <1>3, RewriteInv, FuseGqaSound DEF FuseAttention, Unplanned
<1>4. CASE LeaveAttention
  BY <1>4, RewriteInv DEF LeaveAttention, Unplanned, Sound, Shows
<1>5. CASE FoldPicks
  BY <1>5, RewriteInv, FoldGetSliceSound DEF FoldPicks, Unplanned
<1>6. CASE FoldAllMasks
  BY <1>6, RewriteInv, FoldMasksSound DEF FoldAllMasks, Unplanned
<1>7. CASE LeavePicks
  BY <1>7, RewriteInv DEF LeavePicks, Unplanned, Sound, Shows
<1> QED BY <1>1, <1>2, <1>3, <1>4, <1>5, <1>6, <1>7

\* Lowering of the whole model.
LEMMA LowerInv ==
  ASSUME LoadInv, Lower
  PROVE  LoadInv'
<1>1. /\ stage = "lower" /\ stage' = "normalizations" /\ UNCHANGED <<model, host, rewritten, graph>>
      /\ ir' = [model.ir EXCEPT !.nodes = Canonical(@, Constants(model.ir))]
  BY DEF Lower, partitionVars
<1>2. model \in Models /\ host = "standalone"
  BY <1>1 DEF LoadInv
<1>3. GraphOK(ir') /\ HandsOut(model.ir, ir')
  BY <1>1, <1>2, LoweredOK DEF Shows, HandsOut
<1>4. GraphOK(ir)' /\ HandsOut(model.ir, ir)'
  BY <1>1, <1>3 DEF GraphOK, NodesOf, HandsOut, Makes
<1> QED BY <1>1, <1>2, <1>4 DEF LoadInv, Unplanned, ClaimedIsAccepted

\* The graph of a group.
LEMMA CompileInv ==
  ASSUME LoadInv, OnlySupported, Compile
  PROVE  LoadInv'
<1>1. /\ stage = "group" /\ stage' = "normalizations" /\ UNCHANGED <<model, host, rewritten, graph>>
  BY DEF Compile, partitionVars
<1>2. PICK group \in groups : ir' = Extract(Block(model, group))
  BY DEF Compile
<1>3. group \subseteq GraphOf(model).supported /\ model \in Models
  BY DEF LoadInv, OnlySupported
<1>4. host = "plugin" /\ AxesInitialized(model)
  BY <1>1 DEF LoadInv
<1>5. GraphOK(ir') /\ Runs(ir') /\ HandsOut(model.ir, ir')
  BY <1>2, <1>3, <1>4, CompiledOK
<1>6. GraphOK(ir)' /\ Runs(ir)' /\ HandsOut(model.ir, ir)'
  BY <1>1, <1>5 DEF GraphOK, Runs, NodesOf, HandsOut, Makes
<1> QED BY <1>1, <1>4, <1>6 DEF LoadInv, Unplanned, ClaimedIsAccepted

\* Pruning.
LEMMA PruneInv ==
  ASSUME LoadInv, Prune
  PROVE  LoadInv'
<1>1. /\ stage = "prune" /\ stage' = "admit" /\ UNCHANGED <<model, host, rewritten, graph>>
      /\ ir' = IF rewritten THEN PruneInitializers(PruneNodes(ir)) ELSE ir
  BY DEF Prune, partitionVars
<1>2. GraphOK(ir) /\ (host = "plugin" => Runs(ir)) /\ HandsOut(model.ir, ir)
  BY <1>1 DEF LoadInv, Unplanned
<1>3. CASE rewritten
  <2> DEFINE p == PruneNodes(ir)
             h == PruneInitializers(p)
  <2>1. WellFormed(p) /\ Part(p, ir) /\ Shows(ir, p) /\ WithReaders(p) = NodesOf(p)
    BY <1>2, PrunedIs DEF GraphOK
  <2> HIDE DEF p
  <2>2. /\ DOMAIN h = DOMAIN p /\ h.nodes = p.nodes /\ h.outputs = p.outputs
        /\ DOMAIN h.initializers = DOMAIN p.initializers \cap Read(p)
    BY <2>1 DEF PruneInitializers, WellFormed
  <2> HIDE DEF h
  <2>3. Read(h) = Read(p) /\ WithReaders(h) = WithReaders(p) /\ NodesOf(h) = NodesOf(p)
    BY <2>2, SameRead
  <2>4. AllRead(h)
    BY <2>1, <2>2, <2>3 DEF AllRead
  <2>5. GraphOK(h) /\ (Runs(ir) => Runs(h))
    <3>1. \A i \in NodesOf(p) : NodeOK(p.nodes[i]) /\ (Runs(ir) => Implemented(p.nodes[i]))
      BY <1>2, <2>1 DEF GraphOK, Part, Runs
    <3> QED BY <2>1, <2>2, <2>3, <3>1 DEF GraphOK, WellFormed, Runs
  <2>6. HandsOut(model.ir, h)
    BY <1>2, <2>1, <2>2, <2>3 DEF HandsOut, Shows, Makes
  <2>7. ir' = h
    BY <1>1, <1>3 DEF h, p
  <2>8. /\ GraphOK(ir') /\ AllRead(ir') /\ (host = "plugin" => Runs(ir'))
        /\ HandsOut(model.ir, ir')
    BY <1>2, <2>4, <2>5, <2>7, <2>6
  <2>9. /\ GraphOK(ir)' /\ (host = "plugin" => Runs(ir))' /\ AllRead(ir)'
        /\ HandsOut(model.ir, ir)'
    BY <1>1, <2>8 DEF GraphOK, AllRead, Runs, WithReaders, Read, CapturedNames, NodesOf, HandsOut, Makes
  <2> QED BY <1>1, <2>9 DEF LoadInv, Unplanned, ClaimedIsAccepted
<1>4. CASE ~rewritten
  BY <1>1, <1>2, <1>4 DEF LoadInv, Unplanned, ClaimedIsAccepted, GraphOK, Runs, NodesOf
<1> QED BY <1>3, <1>4

\* Admission.
LEMMA AdmitInv ==
  ASSUME LoadInv, Admit
  PROVE  LoadInv'
<1>1. /\ stage = "admit" /\ UNCHANGED <<model, host, ir, rewritten, graph>>
      /\ stage' = IF Runs(ir) THEN "accepted" ELSE "refused"
  BY DEF Admit, partitionVars, Runs
<1>2. UNCHANGED <<GraphOK(ir), Runs(ir), AllRead(ir)>>
  BY <1>1
<1> QED BY <1>1, <1>2 DEF LoadInv, Unplanned, ClaimedIsAccepted

\* Claiming and grouping leave graphs alone.
LEMMA GroupInv ==
  ASSUME LoadInv, Claim \/ Group \/ UNCHANGED <<loadVars, partitionVars>>
  PROVE  LoadInv'
<1>1. /\ UNCHANGED <<model, host, ir, rewritten, graph>>
      /\ \/ UNCHANGED stage
         \/ stage = "claim" /\ stage' \in {"unclaimed", "group"}
  BY DEF Claim, Group, loadVars, partitionVars, PartitionNext, Merge, NextPass, Collect
<1>2. UNCHANGED <<GraphOK(ir), Runs(ir), AllRead(ir)>>
  BY <1>1
<1> QED BY <1>1, <1>2 DEF LoadInv, Unplanned, ClaimedIsAccepted

\* A step of the loading is a step of the grouping or leaves the groups alone.
LEMMA StepsGroup ==
  ASSUME Next
  PROVE  [PartitionNext]_partitionVars
<1>1. CASE Group
  BY <1>1 DEF Group
<1>2. CASE Lower \/ Claim \/ Compile \/ Prune \/ Admit
  BY <1>2, Zenon DEF Lower, Claim, Compile, Prune, Admit
<1>3. CASE FuseNormalizations \/ FoldConstantNodes \/ FuseAttention \/ LeaveAttention
             \/ FoldPicks \/ FoldAllMasks \/ LeavePicks
  BY <1>3, Zenon DEF FuseNormalizations, FoldConstantNodes, FuseAttention, LeaveAttention,
                     FoldPicks, FoldAllMasks, LeavePicks, Rewrite
<1> QED BY <1>1, <1>2, <1>3 DEF Next

\* The loading of a model implements the partition of its graph (fuse_supported
\* calls convex_groups and keeps what it returns).
THEOREM LoadingGroups == Spec => PartitionSpec
<1>1. Init => PartitionInit
  BY DEF Init
<1>2. [Next]_<<loadVars, partitionVars>> => [PartitionNext]_partitionVars
  BY StepsGroup
<1> QED BY <1>1, <1>2, PTL DEF Spec, PartitionSpec

\* Every step of the loading keeps what LoadInv says of the graph, whichever rewrites the
\* environment switches on (Executor::new, compile_impl).
THEOREM LoadInductive == Spec => []LoadInv
<1>1. Init => LoadInv
  BY LoadInit
<1>2. LoadInv /\ OnlySupported /\ [Next]_<<loadVars, partitionVars>> => LoadInv'
  BY LowerInv, GroupInv, CompileInv, RewritesInv, PruneInv, AdmitInv DEF Next
<1>3. Spec => []OnlySupported
  BY LoadingGroups, GroupsAreSupported, PTL
<1> QED BY <1>1, <1>2, <1>3, PTL DEF Spec

\* A name has a producer if a node makes it (producers).
LEMMA ProducerIs ==
  ASSUME NEW g, Listed(g.nodes), NEW n
  PROVE  Producer(g, n) # NoNode <=> Makes(g, n)
<1>1. Producer(g, n) = IF Makers(g, n) = {} THEN NoNode ELSE Max(Makers(g, n))
  BY Zenon DEF Producer
<1>2. Makers(g, n) # {} <=> Makes(g, n)
  BY DEF Makers, Makes
<1>3. Len(g.nodes) \in Nat /\ Within(Makers(g, n), Len(g.nodes))
  <2>1. Makers(g, n) \subseteq NodesOf(g)
    BY Zenon DEF Makers
  <2> QED BY <2>1 DEF Listed, NodesOf, Within
<1>4. Makers(g, n) # {} => Max(Makers(g, n)) \in Makers(g, n) /\ Max(Makers(g, n)) # NoNode
  BY <1>3, GreatestMember DEF Within, NoNode
<1> QED BY <1>1, <1>2, <1>4

\* An output that a node makes in the model is made by a node of what is loaded: patterns
\* leave what makes the outputs, and what is folded is no output (fold_constants,
\* only_consumer, prune_dead_nodes).
THEOREM OutputsStayProduced == Spec => []OutputsProduced
<1>1. LoadInv => OutputsProduced
  <2> SUFFICES ASSUME LoadInv, NEW n \in ir.outputs, Producer(model.ir, n) # NoNode
               PROVE  Producer(ir, n) # NoNode
    BY DEF OutputsProduced
  <2>1. Listed(model.ir.nodes)
    BY ModelsDecoded DEF LoadInv
  <2>2. GraphOK(ir) /\ HandsOut(model.ir, ir)
    BY DEF LoadInv, NoGraph
  <2>3. Listed(ir.nodes)
    BY <2>2 DEF GraphOK, WellFormed
  <2>4. Makes(model.ir, n)
    BY <2>1, ProducerIs
  <2>5. Makes(ir, n)
    BY <2>2, <2>4 DEF HandsOut
  <2> QED BY <2>3, <2>5, ProducerIs
<1> QED BY <1>1, LoadInductive, PTL

\* In what is loaded every output of a remaining node is read by a node or is an output of
\* the model: prune_dead_nodes repeats until nothing dead is left, and what is planned on
\* is its result.
THEOREM AllThatIsLeftIsRead == Spec => []LeftIsRead
<1>1. LoadInv => LeftIsRead
  BY DEF LoadInv, LeftIsRead, Ended, Unplanned, AllRead, WithReaders
<1> QED BY <1>1, LoadInductive, PTL

\* The plugin claims what its own compilation accepts (the planning of ep_get_capability
\* and the extraction by ep_compile decide alike).
THEOREM ClaimsAreAccepted == Spec => []ClaimedIsAccepted
<1>1. LoadInv => ClaimedIsAccepted
  BY DEF LoadInv
<1> QED BY <1>1, LoadInductive, PTL

\* In a model being loaded no two groups, and no group and a foreign node, lead to each
\* other (the test of a merge in convex_groups).
THEOREM LoadedOneWay == Spec => []OneWay
BY LoadingGroups, ValuesFlowOneWay, PTL

\* The groups the plugin asks for are as large as they can be (the passes of
\* convex_groups).
THEOREM LoadedMaximal == Spec => []Maximal
BY LoadingGroups, GroupsAreMaximal, PTL

----------------------------------------------------------------------------
(* The type of what is loaded.                                             *)

Stages == {"lower", "claim", "group", "normalizations", "constants", "attention", "picks",
           "masks", "prune", "admit", "unclaimed", "accepted", "refused"}

\* What is loaded has data as long as its shapes say, from the first rewrite on.
DataInv ==
  /\ rewritten \in BOOLEAN /\ stage \in Stages
  /\ stage \notin Unplanned => DataOK(ir)

LEMMA RewriteData ==
  ASSUME LoadInv, DataInv, NEW from, NEW to \in Stages, NEW new, Rewrite(from, to, new),
         from \notin Unplanned, GraphOK(ir) => Stores(ir, new)
  PROVE  DataInv'
<1>1. stage = from /\ ir' = new /\ stage' = to /\ rewritten' = (rewritten \/ new # ir)
  BY DEF Rewrite
<1>2. DataOK(ir) /\ GraphOK(ir)
  BY <1>1 DEF LoadInv, DataInv
<1>3. DataOK(ir')
  BY <1>1, <1>2 DEF Stores
<1>4. DataOK(ir)'
  BY <1>3
<1>5. rewritten' \in BOOLEAN
  BY <1>1
<1> QED BY <1>1, <1>4, <1>5 DEF DataInv

\* A step keeps the data of what is loaded, whichever rewrite it is.
LEMMA StepData ==
  ASSUME TensorsDecoded, LoadInv, DataInv, [Next]_<<loadVars, partitionVars>>
  PROVE  DataInv'
<1>0. model \in Models /\ DataOK(model.ir)
  BY DEF LoadInv, TensorsDecoded
<1>1. CASE Lower
  <2>1. /\ stage' = "normalizations" /\ rewritten' = rewritten
        /\ ir' = [model.ir EXCEPT !.nodes = Canonical(@, Constants(model.ir))]
    BY <1>1 DEF Lower
  <2>2. DataOK(ir')
    BY <1>0, <2>1, LoweredStores
  <2>3. DataOK(ir)'
    BY <2>2
  <2> QED BY <2>1, <2>3 DEF DataInv, Stages
<1>2. CASE Compile
  <2>1. stage' = "normalizations" /\ rewritten' = rewritten
    BY <1>2 DEF Compile
  <2>2. PICK group \in groups : ir' = Extract(Block(model, group))
    BY <1>2 DEF Compile
  <2>3. DataOK(ir')
    BY <1>0, <2>2, CompiledStores
  <2>4. DataOK(ir)'
    BY <2>3
  <2> QED BY <2>1, <2>4 DEF DataInv, Stages
<1>3. CASE Prune
  <2>1. /\ stage = "prune" /\ stage' = "admit" /\ rewritten' = rewritten
        /\ ir' = IF rewritten THEN PruneInitializers(PruneNodes(ir)) ELSE ir
    BY <1>3 DEF Prune
  <2>2. GraphOK(ir) /\ DataOK(ir)
    BY <2>1 DEF LoadInv, DataInv, Unplanned
  <2>3. DataOK(PruneInitializers(PruneNodes(ir)))
    BY <2>2, PrunedStores DEF Stores
  <2>4. DataOK(ir')
    BY <2>1, <2>2, <2>3, Zenon
  <2>5. DataOK(ir)'
    BY <2>4
  <2> QED BY <2>1, <2>5 DEF DataInv, Stages
<1>4. CASE FuseNormalizations
  BY <1>4, RewriteData, FuseLayerNormStores DEF FuseNormalizations, Unplanned, Stages
<1>5. CASE FoldConstantNodes
  BY <1>5, RewriteData, FoldConstantsStores DEF FoldConstantNodes, Unplanned, Stages
<1>6. CASE FuseAttention
  BY <1>6, RewriteData, FuseGqaStores DEF FuseAttention, Unplanned, Stages
<1>7. CASE LeaveAttention
  BY <1>7, RewriteData DEF LeaveAttention, Unplanned, Stages, Stores
<1>8. CASE FoldPicks
  BY <1>8, RewriteData, FoldGetSliceStores DEF FoldPicks, Unplanned, Stages
<1>9. CASE FoldAllMasks
  BY <1>9, RewriteData, FoldMasksStores DEF FoldAllMasks, Unplanned, Stages
<1>10. CASE LeavePicks
  BY <1>10, RewriteData DEF LeavePicks, Unplanned, Stages, Stores
<1>11. CASE Claim \/ Group \/ Admit \/ UNCHANGED <<loadVars, partitionVars>>
  <2>1. /\ UNCHANGED <<ir, rewritten>>
        /\ \/ UNCHANGED stage
           \/ stage = "claim" /\ stage' \in {"unclaimed", "group"}
           \/ stage = "admit" /\ stage' \in {"accepted", "refused"}
    BY <1>11 DEF Claim, Group, Admit, loadVars
  <2>2. UNCHANGED DataOK(ir)
    BY <2>1
  <2> QED BY <2>1, <2>2 DEF DataInv, Stages, Unplanned
<1> QED BY <1>1, <1>2, <1>3, <1>4, <1>5, <1>6, <1>7, <1>8, <1>9, <1>10, <1>11 DEF Next

\* While the tensors that a file holds are as long as their shapes say, so is every constant
\* of what is loaded, whatever was folded, picked or masked to make it, and every node has its
\* inputs, outputs and attributes (fold_constants, fold_const_get_slice,
\* fold_prev_embed_const_mask; validate asks operators for it).
THEOREM LoadTypes ==
  ASSUME TensorsDecoded
  PROVE  Spec => []TypeOK
<1>1. Init => DataInv
  BY DEF Init, DataInv, Stages, Unplanned
<1>2. LoadInv /\ DataInv /\ [Next]_<<loadVars, partitionVars>> => DataInv'
  BY StepData
<1>3. LoadInv /\ DataInv /\ PartitionTypeOK => TypeOK
  <2> SUFFICES ASSUME LoadInv, DataInv, PartitionTypeOK
               PROVE  TypeOK
    OBVIOUS
  <2>1. \A i \in NodesOf(ir) : DOMAIN ir.nodes[i] = {"domain", "op", "inputs", "outputs", "attrs"}
    <3>1. CASE stage \in Unplanned
      BY <3>1 DEF LoadInv, NoGraph, NodesOf
    <3>2. CASE stage \notin Unplanned
      BY <3>2 DEF LoadInv, GraphOK, NodeOK
    <3> QED BY <3>1, <3>2
  <2>2. \A n \in DOMAIN ir.initializers : Valid(ir.initializers[n])
    <3>1. CASE stage \in Unplanned
      BY <3>1 DEF LoadInv, NoGraph
    <3>2. CASE stage \notin Unplanned
      BY <3>2, StoredIs DEF DataInv, DataOK, AllStored
    <3> QED BY <3>1, <3>2
  <2> QED BY <2>1, <2>2 DEF TypeOK, DataInv, Stages, Ended
<1>4. Spec => []PartitionTypeOK
  BY LoadingGroups, PartitionTyped, PTL
<1>5. Spec => []DataInv
  BY <1>1, <1>2, LoadInductive, PTL DEF Spec
<1> QED BY <1>3, <1>4, <1>5, LoadInductive, PTL

=============================================================================
