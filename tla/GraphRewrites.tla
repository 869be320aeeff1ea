----------------------------- MODULE GraphRewrites -----------------------------
(***************************************************************************)
(* The rewrites that Executor::new applies to a graph before the first run *)
(* (rewrite.rs): patterns of nodes replaced by one, constants evaluated,   *)
(* nodes nobody reads dropped.  Every rewrite is an operator from a graph  *)
(* to a graph; the graph it returns is the one it was given when it found  *)
(* nothing.                                                                *)
(***************************************************************************)
EXTENDS OnnxGraph

CONSTANTS
  HeadDim,       \* the width of the heads that are de-interleaved, 32 in the code
  MaxUnsqueezes, \* rounds of the walk back through Unsqueezes, 16 in the code
  MaxReshapes    \* rounds of the walk on through Reshapes, 64 in the code

NoNode == 0

NodesOf(ir) == DOMAIN ir.nodes

IsOp(ir, i, op) == i # NoNode /\ ir.nodes[i].op = op /\ ir.nodes[i].domain = ""

\* fold_constant_params: axes that are a constant input become an attribute.
FoldConstantParams(node, constants) ==
  IF \/ node.op \notin {"ReduceSum", "ReduceMean", "ReduceMax"} \/ Has(node, "axes")
     \/ Input(node, 2) \notin DOMAIN constants
    THEN node
    ELSE LET c == constants[Input(node, 2)] IN
         [node EXCEPT !.attrs = @ @@ ("axes" :> [k \in 1 .. Size(c) |-> ToInt(c)[k - 1]]),
                      !.inputs = SubSeq(@, 1, 1)]

\* The names that branches, at every depth, read from the graph around them.
CapturedNames(ir) ==
  UNION {ir.nodes[i].attrs.branches.reads : i \in {j \in NodesOf(ir) : Has(ir.nodes[j], "branches")}}

\* The index of readers lists what nodes have as inputs, and no captured name.
Consumers(ir, name) == {i \in NodesOf(ir) : name # "" /\ name \in ToSet(ir.nodes[i].inputs)}

Makers(ir, name) == {i \in NodesOf(ir) : name # "" /\ name \in ToSet(ir.nodes[i].outputs)}

Producer(ir, name) == IF Makers(ir, name) = {} THEN NoNode ELSE Max(Makers(ir, name))

\* The node that alone reads a value which is not an output of the graph.
OnlyConsumer(ir, name) ==
  IF name \in ir.outputs \/ Cardinality(Consumers(ir, name)) # 1 THEN NoNode
  ELSE CHOOSE i \in Consumers(ir, name) : TRUE

\* The nodes that are left, in their order, some of them in another form.
Rebuilt(ir, removed, replaced) ==
  LET left == {i \in NodesOf(ir) : i \in DOMAIN replaced \/ i \notin removed}
      rank == [i \in left |-> Cardinality({j \in left : j <= i})]
      at(k) == CHOOSE i \in left : rank[i] = k
  IN [k \in 1 .. Cardinality(left) |->
        IF at(k) \in DOMAIN replaced THEN replaced[at(k)] ELSE ir.nodes[at(k)]]

----------------------------------------------------------------------------
(* Constants the patterns look at.                                         *)

IsScalar(name, constants, n) ==
  /\ name \in DOMAIN constants /\ constants[name].dtype = "FLOAT" /\ Size(constants[name]) = 1
  /\ constants[name].data[0] = n

PerChannel(name, constants) ==
  /\ name \in DOMAIN constants /\ constants[name].dtype = "FLOAT"
  /\ Rank(constants[name]) = 1 /\ constants[name].shape[1] > 1

\* int64_constant; nothing when the value is not known or not INT64.
Int64(name, constants) ==
  IF name \notin DOMAIN constants \/ constants[name].dtype # "INT64" THEN <<>>
  ELSE LET c == constants[name] IN [k \in 1 .. Size(c) |-> c.data[k - 1]]

Int64Init(n) == New("INT64", <<1>>, [i \in {0} |-> n])

\* The operand of a node with two that is not the known one, "" if there is none.
OtherInput(node, known) ==
  CASE Len(node.inputs) = 2 /\ node.inputs[1] = known -> node.inputs[2]
    [] Len(node.inputs) = 2 /\ node.inputs[1] # known /\ node.inputs[2] = known -> node.inputs[1]
    [] OTHER -> ""

ReducesLastAxis(node) ==
  Attr(node, "axes") = <<-1>> /\ ~(Has(node, "keepdims") /\ node.attrs.keepdims = 0)

----------------------------------------------------------------------------
(* ReduceMean, Sub, Pow, ReduceMean, Add, Sqrt, Div, Mul, Add become one.  *)

NoMatch == [members |-> {}]

\* The node that normalizes x; an absent bias is "".
Normalization(x, scale, bias, out, epsilon) ==
  [domain |-> "", op |-> "LayerNormalization", outputs |-> <<out>>,
   inputs |-> IF bias = "" THEN <<x, scale>> ELSE <<x, scale, bias>>,
   attrs |-> [axis |-> -1, epsilon |-> epsilon]]

\* The node that alone reads what a node makes.
Follower(ir, i) == IF i = NoNode THEN NoNode ELSE OnlyConsumer(ir, ir.nodes[i].outputs[1])

\* The nodes that follow a mean, each the only reader of the one before it but for the
\* difference, which the quotient reads as well.
LayerNormChain(ir, mean) ==
  LET next(i) == Follower(ir, i)
      sub     == next(mean)
      pows    == IF sub = NoNode THEN {}
                 ELSE {i \in Consumers(ir, ir.nodes[sub].outputs[1]) : IsOp(ir, i, "Pow")}
      pow     == IF pows = {} THEN NoNode ELSE Min(pows)
      var     == next(pow)
      addEps  == next(var)
      sqrt    == next(addEps)
      div     == next(sqrt)
      mul     == next(div)
  IN [mean |-> mean, sub |-> sub, pow |-> pow, var |-> var, addEps |-> addEps, sqrt |-> sqrt,
      div |-> div, mul |-> mul, add |-> next(mul)]

\* The normalization that a chain of nodes is.
LayerNormOf(ir, c) ==
  LET constants == Constants(ir)
      mean      == c.mean
      out(i)    == ir.nodes[i].outputs[1]
      ins(i)    == ir.nodes[i].inputs
      readers   == Consumers(ir, out(c.sub))
      epsilon   == OtherInput(ir.nodes[c.addEps], out(c.var))
      scale     == OtherInput(ir.nodes[c.mul], out(c.div))
      bias      == OtherInput(ir.nodes[c.add], out(c.mul))
      biased    == /\ IsOp(ir, c.add, "Add") /\ PerChannel(bias, constants)
                   /\ constants[bias].shape = constants[scale].shape
      matches ==
        /\ IsOp(ir, mean, "ReduceMean") /\ ReducesLastAxis(ir.nodes[mean])
        /\ IsOp(ir, c.sub, "Sub") /\ ins(c.sub) = <<ins(mean)[1], out(mean)>>
        /\ out(c.sub) \notin ir.outputs /\ Cardinality(readers) = 2
        /\ c.pow # NoNode /\ ins(c.pow)[1] = out(c.sub) /\ IsScalar(ins(c.pow)[2], constants, 4)
        /\ IsOp(ir, c.var, "ReduceMean") /\ ins(c.var)[1] = out(c.pow)
        /\ ReducesLastAxis(ir.nodes[c.var])
        /\ IsOp(ir, c.addEps, "Add") /\ epsilon \in DOMAIN constants
        /\ IsScalar(epsilon, constants, constants[epsilon].data[0])
        /\ IsOp(ir, c.sqrt, "Sqrt") /\ ins(c.sqrt)[1] = out(c.addEps)
        /\ IsOp(ir, c.div, "Div") /\ ins(c.div) = <<out(c.sub), out(c.sqrt)>> /\ c.div \in readers
        /\ IsOp(ir, c.mul, "Mul") /\ PerChannel(scale, constants)
      members == {mean, c.sub, c.pow, c.var, c.addEps, c.sqrt, c.div, c.mul}
      last    == IF biased THEN c.add ELSE c.mul
  IN IF ~matches THEN NoMatch
     ELSE [members |-> members \cup {last},
           fused |-> Normalization(ins(mean)[1], scale, IF biased THEN bias ELSE "", out(last),
                                   constants[epsilon].data[0])]

LayerNormAt(ir, mean) == LayerNormOf(ir, LayerNormChain(ir, mean))

\* Mutant: the fused node takes the place of the pattern's first member.
FuseLayerNormEarly(ir) ==
  LET ms == {LayerNormAt(ir, i) : i \in NodesOf(ir)} \ {NoMatch} IN
  [ir EXCEPT !.nodes =
     Rebuilt(ir, UNION {m.members : m \in ms},
             [i \in {Min(m.members) : m \in ms} |->
                (CHOOSE m \in ms : Min(m.members) = i).fused])]

\* A pattern that shares a node with one found before is left; the fused node
\* takes the place of the pattern's last member.
FuseLayerNorm(ir) ==
  LET upTo[i \in 0 .. Len(ir.nodes)] ==
        IF i = 0 THEN {}
        ELSE LET ms == upTo[i - 1]
                 m  == LayerNormAt(ir, i)
             IN IF m.members = {} \/ \E n \in ms : n.members \cap m.members # {} THEN ms
                ELSE ms \cup {m}
      found == upTo[Len(ir.nodes)]
  IN [ir EXCEPT !.nodes =
        Rebuilt(ir, UNION {m.members : m \in found},
                [i \in {Max(m.members) : m \in found} |->
                   (CHOOSE m \in found : Max(m.members) = i).fused])]

----------------------------------------------------------------------------
(* Nodes with constant inputs become initializers.                         *)

\* 0 copies a dimension, -1 is what the other dimensions leave.
ResolveReshape(shape, requested) ==
  LET copied == [d \in DOMAIN requested |->
                   IF requested[d] # 0 THEN requested[d]
                   ELSE IF d <= Len(shape) THEN shape[d] ELSE 0]
      open  == {d \in DOMAIN copied : copied[d] = -1}
      known == Product([d \in DOMAIN copied |-> IF copied[d] = -1 THEN 1 ELSE copied[d]])
      found == IF open = {} THEN copied ELSE [copied EXCEPT ![Min(open)] = Product(shape) \div known]
  IN IF \/ open # {} /\ (known < 1 \/ Product(shape) % known # 0)
        \/ ~Concrete(found) \/ Product(found) # Product(shape)
       THEN Refused ELSE [shape |-> found]

Ints(x) == [k \in 1 .. Size(x) |-> ToInt(x)[k - 1]]

Evaluated(node, xs) ==
  CASE node.op = "DequantizeLinear" /\ Len(xs) = 2 ->
         DequantizeLinear(xs[1], xs[2], New(xs[1].dtype, <<>>, [i \in {0} |-> 0]))
    [] node.op = "DequantizeLinear" /\ Len(xs) = 3 -> DequantizeLinear(xs[1], xs[2], xs[3])
    [] node.op = "Cast" /\ Has(node, "to") -> Cast(xs[1], node.attrs.to)
    [] node.op = "Concat" /\ Has(node, "axis") -> Concat(xs, node.attrs.axis)
    [] node.op = "Reshape" /\ Len(xs) = 2 ->
         LET to == ResolveReshape(xs[1].shape, Ints(xs[2]))
         IN IF to = Refused THEN Refused ELSE New(xs[1].dtype, to.shape, xs[1].data)
    [] OTHER -> Refused

Evaluate(node, xs) == IF node.domain # "" THEN Refused ELSE Evaluated(node, xs)

\* Mutant: an output of the graph is folded like any other value.
FoldsOutputs(ir, i, constants) ==
  LET node == ir.nodes[i] IN
  /\ node.op # "Constant" /\ node.inputs # <<>> /\ Len(node.outputs) = 1
  /\ ToSet(node.inputs) \subseteq DOMAIN constants

\* A run returns outputs that nodes computed, so the producer of one stays.
Foldable(ir, i, constants) ==
  LET node == ir.nodes[i] IN
  /\ node.op # "Constant" /\ Len(node.inputs) > 0 /\ Len(node.outputs) = 1
  /\ node.outputs[1] \notin ir.outputs
  /\ ToSet(node.inputs) \subseteq DOMAIN constants

\* What a node with constant inputs gives.
Result(ir, i, constants) ==
  LET ins == ir.nodes[i].inputs IN
  IF Foldable(ir, i, constants)
    THEN Evaluate(ir.nodes[i], [k \in DOMAIN ins |-> constants[ins[k]]]) ELSE Refused

\* A node is visited: what is folded is constant for its readers.
FoldStep(ir, past, i) ==
  LET value == Result(ir, i, past.known) IN
  IF value = Refused THEN past
  ELSE [known |-> Atop([name \in {ir.nodes[i].outputs[1]} |-> value], past.known),
        gone |-> past.gone \cup {i}]

\* Nodes are visited in their order.
FoldConstants(ir) ==
  LET upTo[i \in 0 .. Len(ir.nodes)] ==
        IF i = 0 THEN [known |-> Constants(ir), gone |-> {}] ELSE FoldStep(ir, upTo[i - 1], i)
      past   == upTo[Len(ir.nodes)]
      folded == {ir.nodes[i].outputs[1] : i \in past.gone}
  IN [ir EXCEPT !.nodes = Rebuilt(ir, past.gone, <<>>),
                !.initializers = Atop([name \in folded |-> past.known[name]], @)]

----------------------------------------------------------------------------
(* Nodes nobody reads, and what is read of them alone.                     *)

Read(ir) ==
  ir.outputs \cup CapturedNames(ir)
    \cup UNION {ToSet(ir.nodes[i].inputs) : i \in NodesOf(ir)}

Dropped(ir) ==
  LET left == {i \in NodesOf(ir) : (ToSet(ir.nodes[i].outputs) \ {""}) \cap Read(ir) # {}}
  IN [ir EXCEPT !.nodes = Rebuilt(ir, NodesOf(ir) \ left, <<>>)]

\* Mutant: a single round of dropping.
PruneNodesOnce(ir) == Dropped(ir)

\* A node that is dropped may have been the last reader of another: rounds until
\* nothing more is dropped, of which there are not more than nodes.
PruneNodes(ir) ==
  LET after[k \in 0 .. Len(ir.nodes)] == IF k = 0 THEN ir ELSE Dropped(after[k - 1])
  IN after[Len(ir.nodes)]

PruneInitializers(ir) ==
  [ir EXCEPT !.initializers = [name \in DOMAIN @ \cap Read(ir) |-> @[name]]]

----------------------------------------------------------------------------
(* A row picked by a constant index becomes a Slice.                       *)

\* The axes of an Unsqueeze, given as an input or as an attribute.
AxesOf(node, constants) ==
  IF Input(node, 2) # "" THEN Int64(Input(node, 2), constants) ELSE Attr(node, "axes")

\* One step back from a name through an Unsqueeze that only adds a leading dimension.
Lifted(ir, constants, name) ==
  LET i == Producer(ir, name) IN
  IF IsOp(ir, i, "Unsqueeze") /\ Len(ir.nodes[i].outputs) = 1 /\ AxesOf(ir.nodes[i], constants) = <<0>>
    THEN Input(ir.nodes[i], 1) ELSE name

\* The constant that Unsqueezes of axis 0 were applied to, <<>> if there is none.
UnsqueezedScalar(ir, constants, name) ==
  LET source == FoldLeft(LAMBDA n, k : Lifted(ir, constants, n), name,
                         [k \in 1 .. MaxUnsqueezes - 1 |-> k])
      i == Producer(ir, source)
      value == Int64(source, constants)
  IN IF (IsOp(ir, i, "Unsqueeze") /\ Len(ir.nodes[i].outputs) = 1) \/ Len(value) # 1 THEN <<>> ELSE value

\* A shape with 1 in the middle, as a constant or put together from three parts.
SingleRow(ir, constants, name) ==
  LET shape == Int64(name, constants)
      i == Producer(ir, name)
  IN \/ Len(shape) = 3 /\ shape[2] = 1
     \/ /\ shape = <<>> /\ IsOp(ir, i, "Concat") /\ Len(ir.nodes[i].inputs) = 3
        /\ Int64(ir.nodes[i].inputs[2], constants) = <<1>>

AlongRows(node) == Has(node, "axis") /\ node.attrs.axis = 1

\* The step that a GatherElements picks, <<>> if it is not known to be one.
StepAt(ir, constants, i) ==
  LET expand == Producer(ir, Input(ir.nodes[i], 2))
      matches ==
        /\ IsOp(ir, i, "GatherElements") /\ Len(ir.nodes[i].outputs) = 1 /\ AlongRows(ir.nodes[i])
        /\ IsOp(ir, expand, "Expand") /\ Len(ir.nodes[expand].inputs) = 2
        /\ SingleRow(ir, constants, ir.nodes[expand].inputs[2])
        /\ OnlyConsumer(ir, ir.nodes[expand].outputs[1]) = i
  IN IF ~matches THEN <<>> ELSE UnsqueezedScalar(ir, constants, ir.nodes[expand].inputs[1])

SliceNode(node) ==
  LET out == node.outputs[1] IN
  [domain |-> "", op |-> "Slice", outputs |-> <<out>>, attrs |-> <<>>,
   inputs |-> <<node.inputs[1], out \o "__sl_starts", out \o "__sl_ends", out \o "__sl_axes">>]

SliceParameters(out, step) ==
  [name \in {out \o "__sl_starts", out \o "__sl_ends", out \o "__sl_axes"} |->
     Int64Init(IF name = out \o "__sl_starts" THEN step
               ELSE IF name = out \o "__sl_ends" THEN step + 1 ELSE 1)]

\* The initializers of several nodes, each with names of its own.
Together(tables) ==
  [name \in UNION {DOMAIN t : t \in tables} |-> (CHOOSE t \in tables : name \in DOMAIN t)[name]]

FoldGetSliceAt(ir, steps) ==
  LET found == {i \in DOMAIN steps : steps[i] # <<>>} IN
  [ir EXCEPT
     !.nodes = Rebuilt(ir, {Producer(ir, ir.nodes[i].inputs[2]) : i \in found},
                       [i \in found |-> SliceNode(ir.nodes[i])]),
     !.initializers = Atop(Together({SliceParameters(ir.nodes[i].outputs[1], steps[i][1]) : i \in found}), @)]

FoldGetSlice(ir) == FoldGetSliceAt(ir, [i \in NodesOf(ir) |-> StepAt(ir, Constants(ir), i)])

----------------------------------------------------------------------------
(* A factor that is 0 on the first step and 1 after it is taken out.       *)

\* The two constants of an Equal.
Compares(ir, constants, i) ==
  /\ IsOp(ir, i, "Equal") /\ Len(ir.nodes[i].outputs) = 1 /\ Len(ir.nodes[i].inputs) = 2
  /\ \A k \in 1 .. 2 : Len(Int64(ir.nodes[i].inputs[k], constants)) = 1

IsFirst(ir, constants, i) ==
  Int64(ir.nodes[i].inputs[1], constants) = Int64(ir.nodes[i].inputs[2], constants)

FloatTable(name, constants, rank) ==
  name \in DOMAIN constants /\ constants[name].dtype = "FLOAT" /\ Rank(constants[name]) >= rank

\* The last dimension of the table that a lookup reads, 0 if it is not known.
TableWidth(ir, constants, name) ==
  LET outer == Producer(ir, name)
      inner == Producer(ir, Input(ir.nodes[outer], 1))
      Gathers(i) == IsOp(ir, i, "Gather") /\ Len(ir.nodes[i].inputs) = 2
  IN CASE ~Gathers(outer) -> 0
       [] Gathers(outer) /\ FloatTable(ir.nodes[outer].inputs[1], constants, 1) ->
            Last(constants[ir.nodes[outer].inputs[1]].shape)
       [] Gathers(outer) /\ ~FloatTable(ir.nodes[outer].inputs[1], constants, 1) ->
            IF Gathers(inner) /\ FloatTable(ir.nodes[inner].inputs[1], constants, 2)
              THEN Last(constants[ir.nodes[inner].inputs[1]].shape) ELSE 0

ZeroRow(width) == New("FLOAT", <<1, width>>, [i \in 0 .. width - 1 |-> 0])

\* The product of a lookup and 1 - (a = b) for constants a and b.
MaskAt(ir, constants, i) ==
  LET in(j, k)  == Input(ir.nodes[j], k)
      out(j)    == ir.nodes[j].outputs[1]
      One(j, op, n) == IsOp(ir, j, op) /\ Len(ir.nodes[j].outputs) = 1 /\ Len(ir.nodes[j].inputs) = n
      side      == IF IsOp(ir, Producer(ir, in(i, 1)), "Unsqueeze") THEN 1 ELSE 2
      unsqueeze == Producer(ir, in(i, side))
      lookup    == in(i, 3 - side)
      add       == Producer(ir, in(unsqueeze, 1))
      neg       == Producer(ir, in(add, IF IsScalar(in(add, 1), constants, 2) THEN 2 ELSE 1))
      cast      == Producer(ir, in(neg, 1))
      equal     == Producer(ir, in(cast, 1))
      width     == TableWidth(ir, constants, lookup)
      first     == IsFirst(ir, constants, equal)
      matches ==
        /\ One(i, "Mul", 2)
        /\ IsOp(ir, unsqueeze, "Unsqueeze") /\ Len(ir.nodes[unsqueeze].outputs) = 1
        /\ AxesOf(ir.nodes[unsqueeze], constants) = <<0>>
        /\ One(add, "Add", 2) /\ \E k \in 1 .. 2 : IsScalar(in(add, k), constants, 2)
        /\ One(neg, "Neg", 1)
        /\ One(cast, "Cast", 1) /\ Has(ir.nodes[cast], "to") /\ ir.nodes[cast].attrs.to = "FLOAT"
        /\ Compares(ir, constants, equal)
        /\ OnlyConsumer(ir, out(cast)) = neg /\ OnlyConsumer(ir, out(neg)) = add
        /\ OnlyConsumer(ir, out(add)) = unsqueeze /\ OnlyConsumer(ir, out(unsqueeze)) = i
        /\ out(i) \notin ir.outputs /\ Consumers(ir, out(i)) # {}
        /\ first => width > 0
  IN IF ~matches THEN NoMatch
     ELSE [members |-> {i, unsqueeze, add, neg, cast}
                         \cup (IF OnlyConsumer(ir, out(equal)) = cast THEN {equal} ELSE {}),
           masked |-> out(i), first |-> first, width |-> width,
           instead |-> IF first THEN out(i) \o "__zeros" ELSE lookup]

\* A consumer reads the replacement in the first slot that held the masked value.
RepointedTo(node, masked, instead) ==
  IF masked \notin ToSet(node.inputs) THEN node
  ELSE [node EXCEPT !.inputs[Min({k \in DOMAIN node.inputs : node.inputs[k] = masked})] = instead]

\* A consumer of several masked values, one after the other.
Repointed(node, ms) ==
  LET after[k \in 0 .. Len(ms)] ==
        IF k = 0 THEN node
        ELSE IF ms[k] = NoMatch THEN after[k - 1]
        ELSE RepointedTo(after[k - 1], ms[k].masked, ms[k].instead)
  IN after[Len(ms)]

FoldMasksAt(ir, ms) ==
  LET repointed == [ir EXCEPT !.nodes = [i \in NodesOf(ir) |-> Repointed(ir.nodes[i], ms)]]
      zeros == {k \in DOMAIN ms : ms[k] # NoMatch /\ ms[k].first}
  IN [repointed EXCEPT
        !.nodes = Rebuilt(repointed, UNION {ms[k].members : k \in DOMAIN ms}, <<>>),
        !.initializers = Atop(Together({[name \in {ms[k].instead} |-> ZeroRow(ms[k].width)] : k \in zeros}), @)]

FoldMasks(ir) == FoldMasksAt(ir, [i \in NodesOf(ir) |-> MaskAt(ir, Constants(ir), i)])

----------------------------------------------------------------------------
(* The transposition before an attention becomes a flag of the attention.  *)

\* One step on through a Reshape that alone reads a name.
Onward(ir, name) ==
  LET i == OnlyConsumer(ir, name) IN
  IF IsOp(ir, i, "Reshape") /\ Input(ir.nodes[i], 1) = name THEN ir.nodes[i].outputs[1] ELSE name

DeinterleaveAt(ir, constants, i) ==
  LET first == OnlyConsumer(ir, ir.nodes[i].outputs[1])
      leg   == FoldLeft(LAMBDA n, k : Onward(ir, n), ir.nodes[first].outputs[1],
                        [k \in 1 .. MaxReshapes - 1 |-> k])
      gqa   == OnlyConsumer(ir, leg)
      shape == Int64(Input(ir.nodes[first], 2), constants)
      matches ==
        /\ IsOp(ir, i, "Transpose") /\ Len(ir.nodes[i].outputs) = 1
        /\ Attr(ir.nodes[i], "perm") = <<0, 1, 2, 4, 3>>
        /\ IsOp(ir, first, "Reshape") /\ ir.nodes[first].inputs[1] = ir.nodes[i].outputs[1]
        /\ gqa # NoNode /\ ir.nodes[gqa].op = "GroupQueryAttention"
        /\ ir.nodes[gqa].domain = "com.microsoft"
        /\ leg \in {Input(ir.nodes[gqa], 1), Input(ir.nodes[gqa], 2)}
        /\ shape # <<>> /\ Last(shape) = HeadDim
  IN IF ~matches THEN NoMatch
     ELSE [members |-> {i}, first |-> first, gqa |-> gqa, source |-> ir.nodes[i].inputs[1]]

FuseGqaAt(ir, ms) ==
  LET Flagged(node) ==
        [node EXCEPT !.attrs = [name \in DOMAIN @ \cup {"qk_reorder"} |->
                                  IF name = "qk_reorder" THEN 1 ELSE @[name]]]
      firsts == {m.first : m \in ms}
      Read1(i) == [ir.nodes[i] EXCEPT !.inputs[1] = (CHOOSE m \in ms : m.first = i).source]
  IN [ir EXCEPT !.nodes =
        Rebuilt(ir, UNION {m.members : m \in ms},
                [i \in firsts \cup {m.gqa : m \in ms} |->
                   IF i \in firsts THEN Read1(i) ELSE Flagged(ir.nodes[i])])]

FuseGqa(ir) ==
  FuseGqaAt(ir, {DeinterleaveAt(ir, Constants(ir), i) : i \in NodesOf(ir)} \ {NoMatch})

=============================================================================
