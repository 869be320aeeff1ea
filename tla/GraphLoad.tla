------------------------------ MODULE GraphLoad ------------------------------
(***************************************************************************)
(* How a model becomes a graph that runs.  The standalone host lowers the  *)
(* whole model (convert.rs); the plugin claims nodes, groups them          *)
(* (Partition), and has ORT hand back a graph for every group (ep.rs,      *)
(* compile).  Either way Executor::new rewrites the graph, drops what      *)
(* nobody reads, and admits it or refuses it.                              *)
(*                                                                         *)
(* A model is [ir, given]: its graph, and values for the inputs.           *)
(***************************************************************************)
EXTENDS GraphMeaning, Partition, ShapeInference

CONSTANT Models

VARIABLES
  model,
  host,        \* who loads it, "standalone" or "plugin"
  stage,       \* what is done next
  ir,          \* the graph being loaded, NoGraph before there is one
  rewritten    \* a rewrite found something

loadVars == <<model, host, stage, ir, rewritten>>

Listed(s) == Len(s) \in Nat /\ DOMAIN s = 1 .. Len(s)

\* Operators that ONNX gives one output, of which the patterns look at the first alone.
OfOneOutput == {"ReduceMean", "Sub", "Pow", "Add", "Sqrt", "Div", "Mul", "Expand"}

\* What is decoded of a file: lists of nodes, and lists of names for every node; an
\* absent input is no initializer.
ASSUME ModelsDecoded ==
  \A m \in Models :
    /\ DOMAIN m.ir = {"nodes", "initializers", "inputs", "outputs"}
    /\ "" \notin DOMAIN m.ir.initializers
    /\ Listed(m.ir.nodes)
    /\ \A i \in NodesOf(m.ir) :
         /\ DOMAIN m.ir.nodes[i] = {"domain", "op", "inputs", "outputs", "attrs"}
         /\ Listed(m.ir.nodes[i].inputs) /\ Listed(m.ir.nodes[i].outputs)
         /\ m.ir.nodes[i].domain = "" /\ m.ir.nodes[i].op \in OfOneOutput =>
              Len(m.ir.nodes[i].outputs) = 1

\* A tensor as validate asks for it, in whole numbers.
Stored(x) ==
  x.shape \in Seq(Nat) /\ ElemSize(x.dtype) > 0 /\ x.data \in [0 .. Count(x) - 1 -> Int]

\* What a node says of data: the value of a constant, the axis of a join.
Sayable(node) ==
  /\ node.op = "Constant" /\ node.domain = "" /\ Has(node, "value") => Stored(node.attrs.value)
  /\ node.op = "Concat" /\ Has(node, "axis") => node.attrs.axis \in Int

AllStored(f) == \A name \in DOMAIN f : Stored(f[name])

DataOK(g) == AllStored(g.initializers) /\ \A i \in NodesOf(g) : Sayable(g.nodes[i])

\* Models whose tensors are as long as their shapes say: decoding takes a file at its word,
\* and operators ask (validate) before they read.
TensorsDecoded == \A m \in Models : DataOK(m.ir)

NoGraph == [nodes |-> <<>>, initializers |-> <<>>, inputs |-> {}, outputs |-> {}]

----------------------------------------------------------------------------
(* Which nodes the interpreter runs (is_implemented, is_implemented_node). *)

ImplementedOps ==
  {"Sigmoid", "Relu", "Softmax", "LayerNormalization", "Cast", "Mul", "Add", "Sub", "Div", "Shape",
   "Reshape", "Unsqueeze", "Squeeze", "Transpose", "Concat", "DynamicQuantizeLinear",
   "MatMulInteger", "MatMul", "Gather", "Slice", "Where", "Conv", "ConvInteger", "ConvTranspose",
   "Mod", "QuantizeLinear", "DequantizeLinear", "Pad", "Split", "Floor", "Not", "And", "Equal",
   "Less", "Greater", "LessOrEqual", "Identity", "BatchNormalization",
   "SimplifiedLayerNormalization", "If", "Gelu", "GatherElements", "ScatterND", "TopK",
   "ConstantOfShape", "Expand", "Range", "Tile", "Constant", "MaxPool", "AveragePool",
   "GlobalAveragePool", "ReduceMean", "ReduceSum", "ReduceMax", "ReduceMin", "Flatten",
   "LeakyRelu", "CumSum", "GridSample", "Gemm", "Resize", "Clip", "Erf", "Neg", "Exp", "Log",
   "Sqrt", "Abs", "Tanh", "Sin", "Cos", "Reciprocal", "Pow", "Min", "Max", "ArgMax"}

ImplementedContrib(node) ==
  /\ node.domain = "com.microsoft"
  /\ CASE node.op = "MatMulNBits" ->
            /\ Setting(node, "bits", 0) = 4 /\ Setting(node, "block_size", 0) = 32
            /\ Len(node.inputs) = 3
       [] node.op = "SkipSimplifiedLayerNormalization" ->
            Len(node.inputs) >= 3 /\ Len(node.outputs) = 1
       [] node.op = "GroupQueryAttention" ->
            /\ Len(node.inputs) >= 9 /\ Len(node.outputs) = 3
            /\ Has(node, "num_heads") /\ Has(node, "kv_num_heads")
       [] OTHER -> FALSE

\* Operators of which only some forms have a kernel.
ImplementedForm(node) ==
  CASE node.op = "Resize" ->
         /\ Setting(node, "exclude_outside", 0) = 0
         /\ Setting(node, "mode", "nearest") \in {"nearest", "linear", "cubic"}
         /\ Setting(node, "coordinate_transformation_mode", "half_pixel")
              \in {"half_pixel", "asymmetric", "align_corners", "pytorch_half_pixel"}
         /\ Setting(node, "nearest_mode", "round_prefer_floor")
              \in {"round_prefer_floor", "round_prefer_ceil", "floor", "ceil"}
    [] node.op \in {"MaxPool", "AveragePool"} ->
         Setting(node, "ceil_mode", 0) = 0 /\ Len(node.outputs) = 1
    [] node.op \in {"ReduceMean", "ReduceSum", "ReduceMax", "ReduceMin"} ->
         Len(Attr(node, "axes")) = 1
    [] node.op = "GridSample" ->
         /\ Setting(node, "mode", "bilinear") = "bilinear"
         /\ Setting(node, "padding_mode", "zeros") \in {"zeros", "border"}
    [] node.op = "ArgMax" ->
         Setting(node, "largest", 1) = 1 /\ Setting(node, "select_last_index", 0) = 0
    [] node.op = "Gelu" -> Setting(node, "approximate", "none") \in {"none", "tanh"}
    [] node.op = "ScatterND" -> Setting(node, "reduction", "none") = "none"
    [] node.op \in {"Conv", "ConvInteger"} ->
         Setting(node, "auto_pad", "NOTSET") \in {"NOTSET", "VALID", "SAME_UPPER", "SAME_LOWER"}
    [] node.op = "ConvTranspose" ->
         Setting(node, "auto_pad", "NOTSET") \in {"NOTSET", "VALID"} /\ ~Has(node, "output_shape")
    [] node.op = "If" -> Has(node, "branches") /\ node.attrs.branches.runs
    [] OTHER -> TRUE

Implemented(node) ==
  IF node.domain # "" THEN ImplementedContrib(node)
  ELSE node.op \in ImplementedOps /\ ImplementedForm(node)

----------------------------------------------------------------------------
(* What the plugin sees of a model.                                        *)

\* Attributes that are graphs are not read, so that no If is claimed.
WithoutBranches(node) ==
  [node EXCEPT !.attrs = [name \in DOMAIN @ \ {"branches"} |-> @[name]]]

Canonical(nodes, constants) == [i \in DOMAIN nodes |-> FoldConstantParams(nodes[i], constants)]

\* ORT makes initializers of Constant nodes before it asks the plugin: the axes of a
\* reduction are not the output of a node alone.
AxesInitialized(m) ==
  LET nodes == [i \in NodesOf(m.ir) |-> WithoutBranches(m.ir.nodes[i])]
  IN \A i \in NodesOf(m.ir) :
       nodes[i].op \in {"ReduceSum", "ReduceMean", "ReduceMax"} =>
         Input(nodes[i], 2) \notin DOMAIN ConstantOutputs(nodes) \ DOMAIN m.ir.initializers

\* canonical_nodes: axes are looked up in initializers and in Constant nodes; of two that
\* have a name in common, the initializer counts.
CanonicalNodes(m) ==
  LET nodes == [i \in NodesOf(m.ir) |-> WithoutBranches(m.ir.nodes[i])]
  IN Canonical(nodes, Atop(m.ir.initializers, ConstantOutputs(nodes)))

\* The graph that is partitioned, and the nodes that are claimed.
GraphOf(m) ==
  LET nodes == CanonicalNodes(m)
      Wire(v, k) == <<Producer(m.ir, m.ir.nodes[v].inputs[k]), v>>
      WiresTo(v) == SelectSeq([k \in DOMAIN m.ir.nodes[v].inputs |-> Wire(v, k)],
                              LAMBDA w : w[1] # NoNode)
  IN [nodes |-> NodesOf(m.ir),
      wires |-> FlattenSeq([v \in NodesOf(m.ir) |-> WiresTo(v)]),
      supported |-> {i \in DOMAIN nodes : Implemented(nodes[i])}]

\* The graph that ORT makes of a group: it takes in what it reads of others, and
\* gives out what others read of it and the outputs of the model.
Block(m, group) ==
  LET inside == Rebuilt(m.ir, NodesOf(m.ir) \ group, <<>>)
      made   == UNION {ToSet(inside[k].outputs) : k \in DOMAIN inside}
      read   == (UNION {ToSet(inside[k].inputs) : k \in DOMAIN inside}) \ {""}
      others == Read([m.ir EXCEPT !.nodes = Rebuilt(m.ir, group, <<>>)])
  IN [nodes |-> inside,
      initializers |-> [name \in read \cap DOMAIN m.ir.initializers |-> m.ir.initializers[name]],
      inputs |-> read \ (made \cup DOMAIN m.ir.initializers),
      outputs |-> made \cap others]

\* Mutant: the nodes of a block are taken as ORT gives them.
ExtractPlain(block) == block

\* extract: axes are looked up in the initializers of the block.
Extract(block) ==
  [block EXCEPT !.nodes = Canonical([i \in DOMAIN @ |-> WithoutBranches(@[i])], block.initializers)]

----------------------------------------------------------------------------
Init ==
  /\ model \in Models
  /\ host \in {"standalone", "plugin"}
  /\ host = "plugin" => AxesInitialized(model)
  /\ stage = IF host = "standalone" THEN "lower" ELSE "claim"
  /\ ir = NoGraph
  /\ rewritten = FALSE
  /\ graph = GraphOf(model)
  /\ PartitionInit

\* graph_to_ir: the model as a graph, with constant axes as attributes.
Lower ==
  /\ stage = "lower"
  /\ ir' = [model.ir EXCEPT !.nodes = Canonical(@, Constants(model.ir))]
  /\ stage' = "normalizations"
  /\ UNCHANGED <<model, host, rewritten, partitionVars>>

\* fuse_supported: no node is claimed, or the claimed ones are grouped.
Claim ==
  /\ stage = "claim"
  /\ stage' = IF graph.supported = {} THEN "unclaimed" ELSE "group"
  /\ UNCHANGED <<model, host, ir, rewritten, partitionVars>>

Group ==
  /\ stage = "group"
  /\ PartitionNext
  /\ UNCHANGED loadVars

\* compile_impl, for any one of the groups.
Compile ==
  /\ stage = "group"
  /\ \E group \in groups : ir' = Extract(Block(model, group))
  /\ stage' = "normalizations"
  /\ UNCHANGED <<model, host, rewritten, partitionVars>>

Rewrite(from, to, new) ==
  /\ stage = from
  /\ ir' = new
  /\ rewritten' = (rewritten \/ new # ir)
  /\ stage' = to
  /\ UNCHANGED <<model, host, partitionVars>>

FuseNormalizations == Rewrite("normalizations", "constants", FuseLayerNorm(ir))
FoldConstantNodes  == Rewrite("constants", "attention", FoldConstants(ir))

\* ONNX_VULKAN_GQA_QK_REORDER says whether transpositions become a flag, and
\* ONNX_VULKAN_DF_FOLDS whether rows and masks are folded.
FuseAttention  == Rewrite("attention", "picks", FuseGqa(ir))
LeaveAttention == Rewrite("attention", "picks", ir)
FoldPicks      == Rewrite("picks", "masks", FoldGetSlice(ir))
FoldAllMasks   == Rewrite("masks", "prune", FoldMasks(ir))
LeavePicks     == Rewrite("picks", "prune", ir)

Prune ==
  /\ stage = "prune"
  /\ ir' = IF rewritten THEN PruneInitializers(PruneNodes(ir)) ELSE ir
  /\ stage' = "admit"
  /\ UNCHANGED <<model, host, rewritten, partitionVars>>

Admit ==
  /\ stage = "admit"
  /\ stage' = IF \A i \in NodesOf(ir) : Implemented(ir.nodes[i]) THEN "accepted" ELSE "refused"
  /\ UNCHANGED <<model, host, ir, rewritten, partitionVars>>

Next ==
  \/ Lower \/ Claim \/ Group \/ Compile
  \/ FuseNormalizations \/ FoldConstantNodes
  \/ FuseAttention \/ LeaveAttention \/ FoldPicks \/ FoldAllMasks \/ LeavePicks
  \/ Prune \/ Admit

Spec == Init /\ [][Next]_<<loadVars, partitionVars>>

\* Grouping is one call, which goes on while it can.
FairSpec == Spec /\ WF_partitionVars(Group)

----------------------------------------------------------------------------
Ended == stage \in {"unclaimed", "accepted", "refused"}

\* The state has its type: the partition, the stages, and graphs whose nodes have
\* inputs, outputs and attributes.
TypeOK ==
  /\ PartitionTypeOK
  /\ rewritten \in BOOLEAN
  /\ stage \in {"lower", "claim", "group", "normalizations", "constants", "attention", "picks",
                "masks", "prune", "admit"} \/ Ended
  /\ \A i \in NodesOf(ir) : DOMAIN ir.nodes[i] = {"domain", "op", "inputs", "outputs", "attrs"}
  /\ \A n \in DOMAIN ir.initializers : Valid(ir.initializers[n])

\* The values of the model, and those of the graph for what the graph is given of them.
Meant           == Values(model.ir, model.given)
Computed(meant) == Values(ir, [n \in ir.inputs |-> meant[n]])

\* Every rewrite keeps what the outputs are, through all stages: patterns are replaced by
\* what computes the same, nodes stay behind the ones they read, and nothing that is still
\* read is deleted with a pattern or pruned.
Preserves ==
  ir # NoGraph =>
    LET meant    == Meant
        computed == Computed(meant)
    IN \A n \in ir.outputs : n \in DOMAIN computed /\ computed[n] = meant[n]

\* A run hands back what nodes computed: an output that a node makes in the model does
\* not become a constant.
OutputsProduced ==
  \A n \in ir.outputs : Producer(model.ir, n) # NoNode => Producer(ir, n) # NoNode

\* A rewritten graph carries nothing that nobody reads, neither nodes nor constants, not
\* even what only other dead nodes read.
LeftIsRead ==
  Ended /\ rewritten =>
    /\ \A i \in NodesOf(ir) : ToSet(ir.nodes[i].outputs) \cap Read(ir) # {}
    /\ DOMAIN ir.initializers \subseteq Read(ir)

\* What the plugin claimed is not refused when it is compiled: ORT has no fallback then.
ClaimedIsAccepted == host = "plugin" => stage # "refused"

\* What a file may say of the inputs or of all values, truly (declared_types): everything,
\* no dtypes, no shapes, a symbol for every size, or nothing of the first size.
Declarations(meant) ==
  LET Told(x) ==
        LET type == TypeOf(x)
            symbols == [d \in 1 .. Rank(x) |-> Symbol(x.shape[d])]
            headless == [d \in 1 .. Rank(x) |-> IF d = 1 THEN Unknown ELSE Fixed(x.shape[d])]
        IN <<type, [type EXCEPT !.dtype = ""], [type EXCEPT !.shape = None],
             [type EXCEPT !.shape = Some(symbols)], [type EXCEPT !.shape = Some(headless)]>>
  IN {[n \in names |-> Told(meant[n])[way]] : names \in {model.ir.inputs, DOMAIN meant}, way \in 1 .. 5}

\* The types that a session tells its caller are true, however much of them its file
\* declares and however much is inferred, and no conflict is reported with a file that
\* declares what is true.
TypesHold ==
  stage = "normalizations" /\ host = "standalone" =>
    \A meant \in {Meant} : \A declared \in Declarations(meant) :
      \A inferred \in {Infer(ir, declared)} :
        /\ inferred.conflicts = {}
        /\ \A n \in DOMAIN inferred.types \cap DOMAIN meant : TrueOf(inferred.types[n], meant[n])

\* The passes over the wires come to an end: the call that groups the nodes returns.
GroupsFound == stage = "group" ~> groups # {}

=============================================================================
