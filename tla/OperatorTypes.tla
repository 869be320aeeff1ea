----------------------------- MODULE OperatorTypes -----------------------------
(***************************************************************************)
(* The jobs of OperatorRun as nodes of a model that is being loaded: what  *)
(* the loader may know of their operands, and what it infers from that of  *)
(* their outputs.                                                          *)
(***************************************************************************)
EXTENDS Operators, ShapeInference

Named(prefix, n) == [k \in 1 .. n |-> prefix \o ToString(k)]
Listed(values)   == New("INT64", <<Len(values)>>, [i \in 0 .. Len(values) - 1 |-> values[i + 1]])

\* An operator with attributes, and the operands after its tensors, which are lists.
Form(op, attrs, lists) == [op |-> op, attrs |-> attrs, lists |-> lists]

SlidingAttrs(j) == [strides |-> j.strides, dilations |-> j.dils, pads |-> j.pads, group |-> j.group, auto_pad |-> j.auto]

OperatorForm(j) ==
  CASE j.op = "Transpose" -> Form(j.op, [perm |-> [d \in DOMAIN j.perm |-> j.perm[d] - 1]], <<>>)
    [] j.op \in {"Concat", "Gather", "GatherElements", "Flatten", "Softmax"} -> Form(j.op, [axis |-> j.axis], <<>>)
    [] j.op = "Pad" -> Form(j.op, <<>>, <<j.pads>>)
    [] j.op = "Slice" -> Form(j.op, <<>>, <<j.starts, j.ends, j.axes, j.steps>>)
    [] j.op = "Split" -> Form(j.op, [axis |-> j.axis], IF j.sizes = <<>> THEN <<>> ELSE <<j.sizes>>)
    [] j.op = "Cast" -> Form(j.op, [to |-> j.to], <<>>)
    [] j.op \in {"Binary", "Compare", "Unary"} -> Form(j.fn, <<>>, <<>>)
    [] j.op \in {"Reshape", "Expand"} -> Form(j.op, <<>>, <<j.target>>)
    [] j.op \in {"Unsqueeze", "Squeeze"} -> Form(j.op, <<>>, IF j.axes = <<>> THEN <<>> ELSE <<j.axes>>)
    [] j.op = "Tile" -> Form(j.op, <<>>, <<j.repeats>>)
    [] j.op = "TopK" -> Form(j.op, [axis |-> j.axis], <<<<j.k>>>>)
    [] j.op = "Reduce" -> Form("Reduce" \o j.fn, [axes |-> <<j.axis>>, keepdims |-> IF j.keepdims THEN 1 ELSE 0], <<>>)
    [] j.op = "ArgMax" -> Form(j.op, [axis |-> j.axis, keepdims |-> IF j.keepdims THEN 1 ELSE 0], <<>>)
    [] j.op = "LayerNorm" -> Form("LayerNormalization", <<>>, <<>>)
    [] j.op = "BatchNorm" -> Form("BatchNormalization", <<>>, <<>>)
    [] j.op = "Gemm" -> Form(j.op, [transA |-> IF j.transA THEN 1 ELSE 0, transB |-> IF j.transB THEN 1 ELSE 0], <<>>)
    [] j.op \in {"DynamicQuantize", "Quantize", "Dequantize"} -> Form(j.op \o "Linear", <<>>, <<>>)
    [] j.op \in {"Conv", "ConvInteger"} -> Form(j.op, SlidingAttrs(j), <<>>)
    [] j.op = "ConvTranspose" -> Form(j.op, SlidingAttrs(j) @@ [output_padding |-> j.outpad], <<>>)
    [] j.op = "Pool" ->
         Form(j.kind \o "Pool", IF j.kind = "GlobalAverage" THEN <<>> ELSE SlidingAttrs(j) @@ [kernel_shape |-> j.ks], <<>>)
    [] j.op = "ConstantOfShape" -> Form(j.op, [value |-> New(j.dtype, <<1>>, [i \in {0} |-> j.value])], <<j.shape>>)
    [] j.op = "Resize" -> Form(j.op, <<>>, IF j.sizes = <<>> THEN <<>> ELSE <<j.sizes>>)
    [] OTHER -> Form(j.op, <<>>, <<>>)

\* Scales of a Resize as numbers of halves, if they are that.
InHalves(scales) == \A d \in DOMAIN scales : (2 * scales[d][1]) % scales[d][2] = 0
ScalesOf(scales) ==
  New("FLOAT", <<Len(scales)>>, [i \in 0 .. Len(scales) - 1 |-> (2 * scales[i + 1][1]) \div scales[i + 1][2]])

Operands(j) == IF "x" \in DOMAIN j THEN j.x ELSE <<>>

\* Tensors are a1, a2, ..., lists p1, p2, ...; a Resize has its region of interest left out.
OperatorNode(j) ==
  LET form == OperatorForm(j)
      lists == Named("p", Len(form.lists))
  IN [domain |-> "", op |-> form.op, attrs |-> form.attrs, outputs |-> Named("y", IF j.op = "Split" THEN j.outputs ELSE 3),
      inputs |-> Named("a", Len(Operands(j))) \o (IF j.op = "Resize" THEN <<"", "scales">> ELSE <<>>) \o lists]

Constant(j) ==
  LET lists == OperatorForm(j).lists IN
  [n \in {"p" \o ToString(k) : k \in DOMAIN lists} |->
     Listed(lists[CHOOSE k \in DOMAIN lists : n = "p" \o ToString(k)])]
  @@ (IF j.op = "Resize" /\ j.scales # <<>> /\ InHalves(j.scales)
        THEN [scales |-> ScalesOf(j.scales)] ELSE <<>>)

----------------------------------------------------------------------------
\* Forms that the loader takes for others: it reads neither the part of a Shape that is
\* asked for nor the dtype that a QuantizeLinear without a zero point is asked for, takes
\* a zero point of which it knows no dtype for a UINT8, and a list that is computed when
\* the model runs for a list that is absent.
Misread(j) ==
  \/ j.op = "Shape" /\ Len(j.meant) # Rank(j.x[1])
  \/ j.op = "Quantize" /\ Len(j.x) = 2 /\ j.to # "UINT8"
MisreadUnknown(j) ==
  \/ j.op = "Squeeze" /\ j.axes # <<>>
  \/ j.op = "Split" /\ j.sizes # <<>>

Undoubted(j) == IF j.op = "Quantize" /\ Len(j.x) = 3 THEN {3} ELSE {}

\* What a file may say of operands: all; nothing of the shape or of the dtype of one;
\* nothing of one dimension; one symbol wherever there is a certain size.  And the
\* lists may be constants or not.
OperatorViews(j) ==
  LET x == Operands(j)
      all == [i \in DOMAIN x |-> TypeOf(x[i])]
      Places == {<<i, d>> \in (DOMAIN x) \X (1 .. 5) : d <= Rank(x[i])}
      sizes == {x[p[1]].shape[p[2]] : p \in Places}
      symbolic(n) ==
        [i \in DOMAIN x |-> [all[i] EXCEPT !.shape = Some([d \in DOMAIN x[i].shape |->
            IF x[i].shape[d] = n THEN Symbol(n) ELSE Fixed(x[i].shape[d])])]]
      types ==
        {all} \cup {[all EXCEPT ![i].shape = None] : i \in DOMAIN x}
          \cup {[all EXCEPT ![i].dtype = ""] : i \in DOMAIN x \ Undoubted(j)}
          \cup {[all EXCEPT ![p[1]].shape = Some([@[1] EXCEPT ![p[2]] = Unknown])] : p \in Places}
          \cup {symbolic(n) : n \in sizes}
  IN IF Misread(j) THEN {}
     ELSE {[types |-> t, known |-> TRUE] : t \in types}
            \cup (IF MisreadUnknown(j) THEN {} ELSE {[types |-> all, known |-> FALSE]})

\* What the loader infers of the outputs of a job from a view.
OperatorInferred(j, view) ==
  InferNode(OperatorNode(j),
            [n \in {"a" \o ToString(i) : i \in DOMAIN view.types} |->
               view.types[CHOOSE i \in DOMAIN view.types : n = "a" \o ToString(i)]],
            IF view.known THEN Constant(j) ELSE <<>>)

=============================================================================
