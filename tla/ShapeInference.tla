---------------------------- MODULE ShapeInference ----------------------------
(***************************************************************************)
(* The types of the values of a graph, as the standalone host infers them  *)
(* when it loads a model (onnx-vulkan-frontend/src/shape.rs): from what    *)
(* the file declares, node by node.                                        *)
(*                                                                         *)
(* A type is [dtype, shape], of which either may be missing: the dtype is  *)
(* then "", and the shape, a sequence of none or one, is None.  A dimension *)
(* is a number, a symbol that stands for one, or unknown.  A symbol carries *)
(* the number it stands for at run time, which no rule looks at.           *)
(***************************************************************************)
EXTENDS OnnxGraph

Fixed(n)  == [kind |-> "fixed", n |-> n]
Symbol(n) == [kind |-> "symbol", n |-> n]
Unknown   == [kind |-> "unknown", n |-> 0]

None       == <<>>
Some(dims) == <<dims>>

Typed(dtype, shape) == [dtype |-> dtype, shape |-> shape]
NoType == Typed("", None)

IsFixed(dim)   == dim.kind = "fixed"
AllFixed(dims) == \A d \in DOMAIN dims : IsFixed(dims[d])
Numbers(dims)  == [d \in DOMAIN dims |-> dims[d].n]
AllOf(numbers) == [d \in DOMAIN numbers |-> Fixed(numbers[d])]
TypeOf(x)      == Typed(x.dtype, Some(AllOf(x.shape)))

\* The product or the sum of dimensions that are all known.
ProductOf(dims) == IF AllFixed(dims) THEN Fixed(Product(Numbers(dims))) ELSE Unknown
SumOf(dims)     == IF AllFixed(dims) THEN Fixed(Total(Numbers(dims))) ELSE Unknown

\* A rule for shapes that are there, and a list that is there when all of it is.
IfKnown(shape, Rule(_)) == IF shape = None THEN None ELSE Rule(shape[1])
Collected(options) ==
  IF \E d \in DOMAIN options : options[d] = None THEN None
  ELSE Some([d \in DOMAIN options |-> options[d][1]])

\* Axes, counted from the end when negative, if all of them are axes.
AxesIn(axes, rank) ==
  IF \A k \in DOMAIN axes : IsAxis(axes[k], rank)
    THEN Some([k \in DOMAIN axes |-> Axis(axes[k], rank)]) ELSE None

----------------------------------------------------------------------------
(* Rules for shapes.                                                       *)

\* Mutant: a dimension that is not known takes the other operand's.
MetBold(x, y) ==
  CASE x = Fixed(1) \/ ~IsFixed(x) -> y
    [] IsFixed(x) /\ x # Fixed(1) -> x

Met(x, y) ==
  CASE x = Fixed(1) -> y
    [] x # Fixed(1) /\ y = Fixed(1) -> x
    [] x # Fixed(1) /\ y # Fixed(1) -> IF x = y THEN x ELSE Unknown

BroadcastDims(a, b) ==
  IfKnown(a, LAMBDA x : IfKnown(b, LAMBDA y :
    LET rank == Max({Len(x), Len(y)})
        Padded(dims) == [k \in 1 .. rank - Len(dims) |-> Fixed(1)] \o dims
    IN Some([d \in 1 .. rank |-> Met(Padded(x)[d], Padded(y)[d])])))

\* 0 keeps a dimension; the first -1 is what the others leave, if they are known.
ReshapedDims(input, target) ==
  LET kept(d) == IF input # None /\ d <= Len(input[1]) THEN input[1][d] ELSE Unknown
      asked == [d \in DOMAIN target |->
                  CASE target[d] = 0 -> kept(d)
                    [] target[d] > 0 -> Fixed(target[d])
                    [] target[d] < 0 -> Unknown]
      open == {d \in DOMAIN target : target[d] = -1}
      p == Min(open)
      rest == ProductOf(Before(asked, p) \o After(asked, p))
      closes == /\ open # {} /\ input # None
                /\ AllFixed(input[1]) /\ IsFixed(rest) /\ rest.n # 0
  IN IF closes THEN [asked EXCEPT ![p] = Fixed(Product(Numbers(input[1])) \div rest.n)] ELSE asked

TransposedDims(node, dims) ==
  LET reversed == [d \in DOMAIN dims |-> Len(dims) + 1 - d]
      perm == IF Has(node, "perm") THEN AxesIn(node.attrs.perm, Len(dims)) ELSE Some(reversed)
  IN IF perm = None THEN None
     ELSE IF Len(perm[1]) # Len(dims) THEN None
     ELSE Some([d \in DOMAIN dims |-> dims[perm[1][d]]])

\* Ones put in one after the other, the front ones first.
UnsqueezedDims(dims, axes) ==
  LET sorted(positions) == SortSeq(positions, LAMBDA m, n : m < n)
      Put(shape, p) ==
        IfKnown(shape, LAMBDA out : IF p > Len(out) + 1 THEN None ELSE Some(InsertAt(out, p, Fixed(1))))
  IN IfKnown(AxesIn(axes, Len(dims) + Len(axes)), LAMBDA positions :
       FoldLeft(Put, Some(dims), sorted(positions)))

Kept(dims, places) ==
  FoldLeft(LAMBDA out, d : IF d \in places THEN Append(out, dims[d]) ELSE out,
           <<>>, [d \in DOMAIN dims |-> d])

\* Without axes all ones go, which takes that all dimensions are known.
SqueezedDims(dims, axes) ==
  IF axes = None
    THEN IF AllFixed(dims) THEN Some(SelectSeq(dims, LAMBDA d : d # Fixed(1))) ELSE None
    ELSE IfKnown(AxesIn(axes[1], Len(dims)), LAMBDA drop : Some(Kept(dims, DOMAIN dims \ ToSet(drop))))

FlattenedDims(dims, axis) ==
  LET at == Wrapped(axis, Len(dims)) IN
  IF at \notin 0 .. Len(dims) THEN None
  ELSE Some(<<ProductOf(SubSeq(dims, 1, at)), ProductOf(SubSeq(dims, at + 1, Len(dims)))>>)

ConcatenatedDims(shapes, axis) ==
  IfKnown(Collected(shapes), LAMBDA all :
    IF all = <<>> THEN None
    ELSE IF ~IsAxis(axis, Len(all[1])) THEN None
    ELSE LET a == Axis(axis, Len(all[1]))
             along == [k \in DOMAIN all |-> IF a <= Len(all[k]) THEN all[k][a] ELSE Unknown]
         IN Some([all[1] EXCEPT ![a] = SumOf(along)]))

\* No axes mean all of them.
ReducedDims(dims, axes, keepdims) ==
  LET all == [d \in DOMAIN dims |-> d] IN
  IfKnown(IF axes = None THEN Some(all) ELSE AxesIn(axes[1], Len(dims)), LAMBDA gone :
    Some(IF keepdims THEN [d \in DOMAIN dims |-> IF d \in ToSet(gone) THEN Fixed(1) ELSE dims[d]]
                     ELSE Kept(dims, DOMAIN dims \ ToSet(gone))))

\* A vector is a matrix of one row or one column, which goes again.
ProductDims(a, b) ==
  LET rows == IF Len(a) = 1 THEN <<Fixed(1)>> \o a ELSE a
      cols == IF Len(b) = 1 THEN b \o <<Fixed(1)>> ELSE b
      batch == BroadcastDims(Some(Front(Front(rows))), Some(Front(Front(cols))))
  IN IF a = <<>> \/ b = <<>> THEN None
     ELSE Some(batch[1] \o (IF Len(a) = 1 THEN <<>> ELSE <<rows[Len(rows) - 1]>>)
                        \o (IF Len(b) = 1 THEN <<>> ELSE <<Last(cols)>>))

GemmOutput(node, a, b) ==
  IF Len(a) # 2 \/ Len(b) # 2 THEN None
  ELSE Some(<<a[IF Setting(node, "transA", 0) # 0 THEN 2 ELSE 1],
              b[IF Setting(node, "transB", 0) # 0 THEN 1 ELSE 2]>>)

GatheredDims(data, indices, axis) ==
  IF ~IsAxis(axis, Len(data)) THEN None
  ELSE LET a == Axis(axis, Len(data)) IN Some(Before(data, a) \o indices \o After(data, a))

----------------------------------------------------------------------------
(* Windows that slide over spatial dimensions.                             *)

Every(n, spatial) == [d \in 1 .. spatial |-> n]

PaddingOf(node, d, spatial) ==
  LET pads == Setting(node, "pads", Every(0, 2 * spatial))
      pad(k) == IF k <= Len(pads) THEN pads[k] ELSE 0
  IN pad(d) + pad(d + spatial)

\* A SAME mode asks for one output for every stride begun, whatever the kernel.
SlidDim(node, input, kernel, d) ==
  LET spatial   == Len(input)
      auto      == Setting(node, "auto_pad", "NOTSET")
      strides   == Setting(node, "strides", Every(1, spatial))
      dilations == Setting(node, "dilations", Every(1, spatial))
      stride    == AtLeastOne(strides[d])
      padding   == IF auto = "VALID" THEN 0 ELSE PaddingOf(node, d, spatial)
      room      == input[d].n + padding - ((kernel[d] - 1) * AtLeastOne(dilations[d]) + 1)
      places    == IF Setting(node, "ceil_mode", 0) # 0 THEN CeilDiv(room, stride) ELSE room \div stride
  IN IF d > Len(strides) THEN None
     ELSE IF ~IsFixed(input[d]) THEN Some(Unknown)
     ELSE IF auto \in {"SAME_UPPER", "SAME_LOWER"} THEN Some(Fixed(CeilDiv(input[d].n, stride)))
     ELSE IF d > Len(dilations) \/ d > Len(kernel) THEN None
     ELSE Some(IF room < 0 THEN Unknown ELSE Fixed(places + 1))

SlidDims(node, input, kernel) == Collected([d \in DOMAIN input |-> SlidDim(node, input, kernel, d)])

\* The kernel an attribute names, or the one the weights have.
KernelOf(node, w) ==
  LET held == SubSeq(w, 3, Len(w)) IN
  IF Has(node, "kernel_shape") THEN Some(node.attrs.kernel_shape)
  ELSE IF AllFixed(held) THEN Some(Numbers(held)) ELSE None

Windowed(x, w) == Len(x) >= 3 /\ Len(w) = Len(x)

ConvolvedDims(node, x, w) ==
  IF ~Windowed(x, w) THEN None
  ELSE IfKnown(KernelOf(node, w), LAMBDA kernel :
         IfKnown(SlidDims(node, SubSeq(x, 3, Len(x)), kernel), LAMBDA out : Some(<<x[1], w[1]>> \o out)))

PooledDims(node, x) ==
  IF Len(x) < 3 \/ ~Has(node, "kernel_shape") THEN None
  ELSE IfKnown(SlidDims(node, SubSeq(x, 3, Len(x)), node.attrs.kernel_shape), LAMBDA out :
         Some(SubSeq(x, 1, 2) \o out))

\* A transposed convolution spreads the input instead.
GrownDim(node, input, kernel, d) ==
  LET spatial   == Len(input)
      strides   == Setting(node, "strides", Every(1, spatial))
      dilations == Setting(node, "dilations", Every(1, spatial))
      outpad    == Setting(node, "output_padding", Every(0, spatial))
      size == (input[d].n - 1) * AtLeastOne(strides[d]) - PaddingOf(node, d, spatial)
                + AtLeastOne(dilations[d]) * (kernel[d] - 1) + 1
                + (IF d <= Len(outpad) THEN outpad[d] ELSE 0)
  IN IF ~IsFixed(input[d]) THEN Some(Unknown)
     ELSE IF d > Len(strides) \/ d > Len(dilations) \/ d > Len(kernel) THEN None
     ELSE Some(IF size > 0 THEN Fixed(size) ELSE Unknown)

TransposedConvDims(node, x, w) ==
  LET channels == IF IsFixed(w[2]) THEN Fixed(w[2].n * Setting(node, "group", 1)) ELSE Unknown
      input == SubSeq(x, 3, Len(x))
  IN IF ~Windowed(x, w) THEN None
     ELSE IfKnown(KernelOf(node, w), LAMBDA kernel :
            IfKnown(Collected([d \in DOMAIN input |-> GrownDim(node, input, kernel, d)]), LAMBDA out :
              Some(<<x[1], channels>> \o out)))

----------------------------------------------------------------------------
(* Shapes that operands say, where these are known when the model loads.   *)

\* Bounds saturate; a step back is left open.
SlicedDim(dim, start, end, step) ==
  LET clamp(v) == Clamp(Wrapped(v, dim.n), 0, dim.n)
      length == clamp(end) - clamp(start)
  IN IF ~IsFixed(dim) \/ step <= 0 THEN Unknown
     ELSE Fixed(CeilDiv(IF length < 0 THEN 0 ELSE length, step))

SlicedDims(dims, starts, ends, axes, steps) ==
  LET on   == IF axes = None THEN [k \in DOMAIN starts |-> k - 1] ELSE axes[1]
      step(k) == IF steps = None \/ k > Len(steps[1]) THEN 1 ELSE steps[1][k]
      at(k) == Axis(on[k], Len(dims))
      bounded(k) == k <= Len(starts) /\ k <= Len(ends)
      Cut(out, k) == [out EXCEPT ![at(k)] = SlicedDim(dims[at(k)], starts[k], ends[k], step(k))]
  IN IF \E k \in DOMAIN on : \/ ~IsAxis(on[k], Len(dims))
                             \/ IsFixed(dims[at(k)]) /\ step(k) > 0 /\ ~bounded(k)
       THEN None
       ELSE Some(FoldLeft(Cut, dims, [k \in DOMAIN on |-> k]))

Each(dims, Resized(_, _)) ==
  Some([d \in DOMAIN dims |-> IF IsFixed(dims[d]) THEN Fixed(Resized(d, dims[d].n)) ELSE Unknown])

TiledDims(dims, repeats) ==
  IF Len(repeats) # Len(dims) THEN None ELSE Each(dims, LAMBDA d, n : n * repeats[d])

PaddedDims(dims, pads) ==
  IF Len(pads) # 2 * Len(dims) THEN None
  ELSE Each(dims, LAMBDA d, n : n + pads[d] + pads[d + Len(dims)])

\* Scales are whole numbers of halves; a size is rounded down.
ScaledDims(dims, scales) ==
  IF Len(scales) # Len(dims) THEN None ELSE Each(dims, LAMBDA d, n : (n * scales[d]) \div 2)

\* One shape per part; without sizes the axis is cut into as many equal parts as there
\* are outputs.
SplitDims(node, dims, sizes) ==
  LET a == Axis(Setting(node, "axis", 0), Len(dims))
      equal == [k \in DOMAIN node.outputs |-> dims[a].n \div Len(node.outputs)]
      parts(all) == Some([k \in DOMAIN all |-> [dims EXCEPT ![a] = Fixed(all[k])]])
  IN IF ~IsAxis(Setting(node, "axis", 0), Len(dims)) THEN None
     ELSE IF sizes # None THEN parts(sizes[1])
     ELSE IF IsFixed(dims[a]) THEN parts(equal) ELSE None

----------------------------------------------------------------------------
(* A node, and a graph.                                                    *)

SameType ==
  {"Relu", "Sigmoid", "Tanh", "Erf", "Exp", "Log", "Sqrt", "Abs", "Neg", "Floor", "Ceil", "Round",
   "Reciprocal", "Sin", "Cos", "Softmax", "LogSoftmax", "LayerNormalization", "BatchNormalization",
   "InstanceNormalization", "Clip", "LeakyRelu", "Elu", "HardSigmoid", "HardSwish", "Gelu",
   "Identity", "Dropout", "Not", "ScatterND", "ScatterElements"}
Arithmetic  == {"Add", "Sub", "Mul", "Div", "Pow", "Min", "Max", "Mod"}
Comparisons == {"Equal", "Less", "Greater", "LessOrEqual", "GreaterOrEqual", "And", "Or", "Xor"}
Reductions  == {"ReduceMean", "ReduceSum", "ReduceMax", "ReduceMin", "ReduceProd", "ReduceL2"}
SameDtype ==
  {"DepthToSpace", "SpaceToDepth", "CumSum", "Trilu", "Compress", "ReverseSequence", "GridSample",
   "RoiAlign", "MaxUnpool", "Einsum", "Hardmax"}

\* The types of the outputs of a node, from the types known and the constants.
InferNode(node, types, constants) ==
  LET input(k) == IF Input(node, k) \in DOMAIN types THEN types[Input(node, k)] ELSE NoType
      first    == input(1)
      dims(k)  == input(k).shape
      listed(k, Values(_)) ==
        IF Input(node, k) \notin DOMAIN constants THEN None
        ELSE LET c == constants[Input(node, k)] IN
             IF Valid(c) /\ Numeric(c) THEN Some([i \in 1 .. Size(c) |-> Values(c)[i - 1]]) ELSE None
      ints(k)   == listed(k, ToInt)
      halves(k) == listed(k, ToFloat)
      axes   == IF Has(node, "axes") THEN Some(node.attrs.axes) ELSE ints(2)
      axis(default) == Setting(node, "axis", default)
      same(shape) == <<Typed(first.dtype, shape)>>
      With1(Rule(_)) == IfKnown(dims(1), Rule)
      With2(Rule(_, _)) == IfKnown(dims(1), LAMBDA a : IfKnown(dims(2), LAMBDA b : Rule(a, b)))
      WithInts(k, Rule(_, _)) == IfKnown(dims(1), LAMBDA a : IfKnown(ints(k), LAMBDA n : Rule(a, n)))
      reduced ==
        LET asked == IF Has(node, "axes") \/ ~Has(node, "axis") THEN axes ELSE Some(<<node.attrs.axis>>)
        IN With1(LAMBDA a : ReducedDims(a, asked, Setting(node, "keepdims", 1) # 0))
      resized ==
        LET sizes  == IF ints(4) = None THEN None
                      ELSE IF dims(1) = None THEN None
                      ELSE IF Len(ints(4)[1]) = Len(dims(1)[1]) THEN Some(AllOf(ints(4)[1])) ELSE None
            scales == halves(IF node.op = "Upsample" THEN 2 ELSE 3)
        IN IF sizes # None THEN sizes
           ELSE With1(LAMBDA a : IfKnown(scales, LAMBDA s : ScaledDims(a, s)))
      sliced ==
        With1(LAMBDA a : IfKnown(ints(2), LAMBDA starts : IfKnown(ints(3), LAMBDA ends :
          SlicedDims(a, starts, ends, ints(4), ints(5)))))
      split ==
        LET sizes == IF Has(node, "split") THEN Some(node.attrs.split) ELSE ints(2)
            parts == With1(LAMBDA a : SplitDims(node, a, sizes))
        IN IF parts = None THEN [k \in DOMAIN node.outputs |-> Typed(first.dtype, None)]
           ELSE [k \in DOMAIN parts[1] |-> Typed(first.dtype, Some(parts[1][k]))]
      topK ==
        WithInts(2, LAMBDA a, k :
          IF ~IsAxis(axis(-1), Len(a)) \/ k = <<>> THEN None
          ELSE Some([a EXCEPT ![Axis(axis(-1), Len(a))] = Fixed(k[1])]))
  IN CASE node.op \in SameType -> <<first>>
       [] node.op \in Arithmetic -> same(BroadcastDims(dims(1), dims(2)))
       [] node.op \in Comparisons -> <<Typed("BOOL", BroadcastDims(dims(1), dims(2)))>>
       [] node.op = "Where" ->
            <<Typed(input(2).dtype, BroadcastDims(BroadcastDims(dims(1), dims(2)), dims(3)))>>
       [] node.op = "Cast" -> <<Typed(Setting(node, "to", ""), first.shape)>>
       [] node.op = "Shape" ->
            <<Typed("INT64", Some(<<IF first.shape = None THEN Unknown ELSE Fixed(Len(first.shape[1]))>>))>>
       [] node.op = "Size" -> <<Typed("INT64", Some(<<>>))>>
       [] node.op = "ConstantOfShape" ->
            <<Typed(IF Has(node, "value") THEN node.attrs.value.dtype ELSE "FLOAT",
                    IfKnown(ints(1), LAMBDA n : Some(AllOf(n))))>>
       [] node.op = "Constant" -> <<IF Has(node, "value") THEN TypeOf(node.attrs.value) ELSE NoType>>
       [] node.op = "Range" -> same(Some(<<Unknown>>))
       [] node.op = "Reshape" -> same(IfKnown(ints(2), LAMBDA n : Some(ReshapedDims(dims(1), n))))
       [] node.op = "Transpose" -> same(With1(LAMBDA a : TransposedDims(node, a)))
       [] node.op = "Unsqueeze" -> same(With1(LAMBDA a : IfKnown(axes, LAMBDA n : UnsqueezedDims(a, n))))
       [] node.op = "Squeeze" -> same(With1(LAMBDA a : SqueezedDims(a, axes)))
       [] node.op = "Flatten" -> same(With1(LAMBDA a : FlattenedDims(a, axis(1))))
       [] node.op = "Concat" -> same(ConcatenatedDims([k \in DOMAIN node.inputs |-> dims(k)], axis(0)))
       [] node.op \in Reductions -> same(reduced)
       [] node.op \in {"ArgMax", "ArgMin"} -> <<Typed("INT64", reduced)>>
       [] node.op = "MatMul" -> same(With2(ProductDims))
       [] node.op = "MatMulInteger" -> <<Typed("INT32", With2(ProductDims))>>
       [] node.op = "Gemm" -> same(With2(LAMBDA a, b : GemmOutput(node, a, b)))
       [] node.op = "Conv" -> same(With2(LAMBDA x, w : ConvolvedDims(node, x, w)))
       [] node.op = "ConvInteger" -> <<Typed("INT32", With2(LAMBDA x, w : ConvolvedDims(node, x, w)))>>
       [] node.op = "ConvTranspose" -> same(With2(LAMBDA x, w : TransposedConvDims(node, x, w)))
       [] node.op \in {"MaxPool", "AveragePool"} -> same(With1(LAMBDA x : PooledDims(node, x)))
       [] node.op \in {"GlobalAveragePool", "GlobalMaxPool"} ->
            same(With1(LAMBDA x : Some([d \in DOMAIN x |-> IF d <= 2 THEN x[d] ELSE Fixed(1)])))
       [] node.op = "DynamicQuantizeLinear" ->
            <<Typed("UINT8", first.shape), Typed("FLOAT", Some(<<>>)), Typed("UINT8", Some(<<>>))>>
       [] node.op = "QuantizeLinear" ->
            <<Typed(IF input(3).dtype = "" THEN "UINT8" ELSE input(3).dtype, first.shape)>>
       [] node.op = "DequantizeLinear" -> <<Typed("FLOAT", first.shape)>>
       [] node.op = "Gather" -> same(With2(LAMBDA x, i : GatheredDims(x, i, axis(0))))
       [] node.op = "GatherElements" -> same(dims(2))
       [] node.op = "TopK" -> <<Typed(first.dtype, topK), Typed("INT64", topK)>>
       [] node.op = "NonZero" -> <<Typed("INT64", None)>>
       [] node.op = "Split" -> split
       [] node.op = "Slice" -> same(sliced)
       [] node.op = "Expand" ->
            same(BroadcastDims(dims(1), IfKnown(ints(2), LAMBDA n : Some(AllOf(n)))))
       [] node.op = "Tile" -> same(WithInts(2, TiledDims))
       [] node.op = "Pad" -> same(WithInts(2, PaddedDims))
       [] node.op \in {"Resize", "Upsample"} -> same(resized)
       [] node.op \in SameDtype -> same(None)
       [] node.op \in {"IsNaN", "IsInf"} -> <<Typed("BOOL", first.shape)>>
       [] node.op = "NonMaxSuppression" -> <<Typed("INT64", Some(<<Unknown, Fixed(3)>>))>>
       [] OTHER -> [k \in DOMAIN node.outputs |-> NoType]

\* Mutant: a symbol is compared as a size is.
ClashBold(x, y) == x # y

\* Two facts that are both known and differ; a symbol differs from nothing.
Clash(x, y) == IsFixed(x) /\ IsFixed(y) /\ x # y
Disagree(declared, inferred) ==
  \/ "" \notin {declared.dtype, inferred.dtype} /\ declared.dtype # inferred.dtype
  \/ /\ None \notin {declared.shape, inferred.shape}
     /\ LET a == declared.shape[1]
            b == inferred.shape[1]
        IN Len(a) # Len(b) \/ \E d \in DOMAIN a : Clash(a[d], b[d])

\* What is known of a value is kept, what is not is taken from the file, or inferred.
FilledIn(entry, known) ==
  Typed(IF entry.dtype = "" THEN known.dtype ELSE entry.dtype,
        IF entry.shape = None THEN known.shape ELSE entry.shape)

TypedAfter(state, node, declared, produced) ==
  LET named == {k \in DOMAIN node.outputs : node.outputs[k] # ""}
      inferred(k) == IF k <= Len(produced) THEN produced[k] ELSE NoType
      entry(n) == IF n \in DOMAIN state.types THEN state.types[n] ELSE NoType
      known(k) == IF node.outputs[k] \in DOMAIN declared THEN declared[node.outputs[k]] ELSE inferred(k)
      after(n) == FilledIn(entry(n), known(CHOOSE k \in named : node.outputs[k] = n))
      clashes == {k \in named : /\ node.outputs[k] \in DOMAIN declared
                                /\ Disagree(declared[node.outputs[k]], inferred(k))}
  IN [types |-> [n \in {node.outputs[k] : k \in named} |-> after(n)] @@ state.types,
      conflicts |-> state.conflicts \cup {node.outputs[k] : k \in clashes}]

\* infer: node by node, from the initializers and from what the file declares.
Infer(g, declared) ==
  FoldLeft(LAMBDA state, node :
             TypedAfter(state, node, declared, InferNode(node, state.types, Constants(g))),
           [types |-> [n \in DOMAIN g.initializers |-> TypeOf(g.initializers[n])] @@ declared,
            conflicts |-> {}],
           g.nodes)

----------------------------------------------------------------------------
\* What is known of a value is true of it: a symbol too stands for its size.
TrueOf(type, x) ==
  /\ type.dtype \in {"", x.dtype}
  /\ type.shape # None =>
       /\ Len(type.shape[1]) = Rank(x)
       /\ \A d \in 1 .. Rank(x) : type.shape[1][d].kind = "unknown" \/ type.shape[1][d].n = x.shape[d]

=============================================================================
