----------------------------- MODULE GraphMeaning -----------------------------
(***************************************************************************)
(* What a graph computes: the value of every name, from what is given for  *)
(* its inputs.  Elements of dtype FLOAT are terms, <<"n", v>> for a number *)
(* of halves that is known; elements of the other types are numbers.       *)
(***************************************************************************)
EXTENDS OnnxOperators, GraphRewrites

Num(v)     == <<"n", v>>
Known(t)   == t[1] = "n"
Atoms(name, shape) == New("FLOAT", shape, [i \in 0 .. Product(shape) - 1 |-> <<"x", name, i>>])

\* Sums and products do not tell their operands apart; 0 and 1 do what they do.
Plus(s, t) == IF Known(s) /\ Known(t) THEN Num(s[2] + t[2]) ELSE <<"Add", {s, t}>>
Times(s, t) ==
  CASE Num(0) \in {s, t} -> Num(0)
    [] s = Num(2) -> t
    [] t = Num(2) /\ s # t -> s
    [] OTHER -> <<"Mul", {s, t}>>
Minus(s, t) == <<"Sub", s, t>>
Over(s, t)  == <<"Div", s, t>>
Raised(s, t) == <<"Pow", s, t>>
MeanOf(row) == <<"Mean", row>>
Of(op, t)   == IF op = "Neg" /\ Known(t) THEN Num(-t[2]) ELSE <<op, t>>

\* A constant as a value: its numbers are terms when they are floats.
AsValue(x) == IF x.dtype # "FLOAT" THEN x ELSE [x EXCEPT !.data = [i \in DOMAIN @ |-> Num(@[i])]]

FloatPair(op, x, y) ==
  CASE op = "Add" -> Elementwise("FLOAT", x, y, Plus)
    [] op = "Mul" -> Elementwise("FLOAT", x, y, Times)
    [] op = "Sub" -> Elementwise("FLOAT", x, y, Minus)
    [] op = "Div" -> Elementwise("FLOAT", x, y, Over)
    [] op = "Pow" -> Elementwise("FLOAT", x, y, Raised)

Line(x, a, c) == [k \in 1 .. x.shape[a] |-> At(x, Put(c, a, k - 1))]

MeantMean(x, axis, keepdims) ==
  LET a == Axis(axis, Rank(x))
      full(c) == IF keepdims THEN c ELSE Before(c, a) \o <<0>> \o SubSeq(c, a, Len(c))
  IN Make("FLOAT", Reduced(x.shape, a, keepdims), LAMBDA c : MeanOf(Line(x, a, full(c))))

\* Deviations from the mean over the root of their mean square, scaled and shifted.
MeantNormalization(x, scale, bias, eps) ==
  LET Deviations(c) ==
        LET row == Line(x, Rank(x), c) IN [k \in DOMAIN row |-> Minus(row[k], MeanOf(row))]
      Spread(dev) == MeanOf([k \in DOMAIN dev |-> Raised(dev[k], Num(4))])
      Normal(dev, k) == Over(dev[k], Of("Sqrt", Plus(Spread(dev), Num(eps))))
      Element(c) ==
        LET n == Times(Normal(Deviations(c), Last(c) + 1), scale.data[Last(c)])
        IN IF bias = <<>> THEN n ELSE Plus(n, bias[1].data[Last(c)])
  IN Make("FLOAT", x.shape, Element)

\* 0 copies a dimension and -1 is what the others leave.
MeantReshape(x, requested) ==
  LET copied == [d \in DOMAIN requested |-> IF requested[d] = 0 THEN x.shape[d] ELSE requested[d]]
      rest == Product(SelectSeq(copied, LAMBDA n : n >= 0))
  IN Reshaped(x, [d \in DOMAIN copied |-> IF copied[d] < 0 THEN Count(x) \div rest ELSE copied[d]])

MeantUnsqueeze(x, axis) ==
  Reshaped(x, InsertAt(x.shape, Wrapped(axis, Rank(x) + 1) + 1, 1))

\* The heads of a projection; with the flag, pairs of neighbours in a head are the
\* halves of the vector that is meant.
Heads(x, flagged) ==
  [i \in DOMAIN x.data |->
     IF ~flagged THEN x.data[i]
     ELSE LET d == i % HeadDim IN
          x.data[(i - d) + (d % (HeadDim \div 2)) * 2 + (d \div (HeadDim \div 2))]]

MeantAttention(xs, flagged) ==
  LET q == Heads(xs[1], flagged)
      k == Heads(xs[2], flagged)
  IN <<New("FLOAT", xs[1].shape, [i \in DOMAIN xs[1].data |-> <<"GQA", i, q, k, xs[3].data>>]),
       New("FLOAT", xs[2].shape, k), xs[3]>>

Whole(x) == [i \in DOMAIN x.data |-> IF x.dtype = "FLOAT" THEN Truncated(x.data[i][2], 2) ELSE x.data[i]]

MeantConversion(x, to) ==
  CASE x.dtype = to -> x
    [] x.dtype # to /\ to = "FLOAT" -> New(to, x.shape, [i \in DOMAIN x.data |-> Num(2 * x.data[i])])
    [] OTHER -> New(to, x.shape, Whole(x))

\* An operator of which nothing is known but that its output depends on all inputs.
Opaque(op, xs, reads) ==
  New("FLOAT", xs[1].shape,
      [i \in DOMAIN xs[1].data |-> <<"Op", op, i, [k \in DOMAIN xs |-> xs[k].data], reads>>])

\* The outputs of a node, whose inputs have values xs.
Outputs(node, xs, env) ==
  LET op == node.op
      int(name, default) == IF Has(node, name) THEN node.attrs[name] ELSE default
      axes == IF Len(xs) > 1 THEN Ints(xs[2]) ELSE Attr(node, "axes")
  IN CASE op \in {"Add", "Sub", "Mul", "Div", "Pow"} /\ xs[1].dtype = "FLOAT" ->
            <<FloatPair(op, xs[1], xs[2])>>
       [] op = "Equal" -> <<MeantCompare(xs[1], xs[2], op)>>
       [] op \in {"Sqrt", "Neg", "Abs", "Relu"} ->
            <<New("FLOAT", xs[1].shape, [i \in DOMAIN xs[1].data |-> Of(op, xs[1].data[i])])>>
       [] op = "ReduceMean" -> <<MeantMean(xs[1], axes[1], int("keepdims", 1) = 1)>>
       [] op = "LayerNormalization" ->
            <<MeantNormalization(xs[1], xs[2], SubSeq(xs, 3, Len(xs)), node.attrs.epsilon)>>
       [] op = "Constant" -> <<AsValue(node.attrs.value)>>
       [] op = "Cast" -> <<MeantConversion(xs[1], node.attrs.to)>>
       [] op = "DequantizeLinear" ->
            <<New("FLOAT", xs[1].shape, [i \in DOMAIN xs[1].data |->
                Num((xs[1].data[i] - (IF Len(xs) = 3 THEN xs[3].data[0] ELSE 0)) * xs[2].data[0][2])])>>
       [] op = "Concat" -> <<MeantConcat(xs, node.attrs.axis)>>
       [] op = "Reshape" -> <<MeantReshape(xs[1], Ints(xs[2]))>>
       [] op = "Unsqueeze" -> <<MeantUnsqueeze(xs[1], axes[1])>>
       [] op = "Expand" -> <<MeantExpand(xs[1], Ints(xs[2]))>>
       [] op = "Gather" -> <<MeantGather(xs[1], xs[2], int("axis", 0))>>
       [] op = "GatherElements" -> <<MeantGatherElements(xs[1], xs[2], int("axis", 0))>>
       [] op = "Slice" ->
            <<MeantSlice(xs[1], Ints(xs[2]), Ints(xs[3]), Ints(xs[4]), [k \in 1 .. Size(xs[2]) |-> 1])>>
       [] op = "Transpose" -> <<MeantTranspose(xs[1], [d \in DOMAIN node.attrs.perm |-> node.attrs.perm[d] + 1])>>
       [] op = "GroupQueryAttention" -> MeantAttention(xs, int("qk_reorder", 0) = 1)
       [] Has(node, "branches") ->
            <<Opaque(op, xs, [n \in node.attrs.branches.reads |-> env[n].data])>>
       [] OTHER -> <<Opaque(op, xs, <<>>)>>

Reads(node) ==
  ToSet(node.inputs) \cup (IF Has(node, "branches") THEN node.attrs.branches.reads ELSE {})

\* The same tensor; TLC evaluates what it combines with \o and @@, and does so once.
Settled(x) == [x EXCEPT !.shape = @ \o <<>>, !.data = @ @@ <<>>]

\* A node that reads a name without a value has no outputs.
Evaluating(env, node) ==
  IF ~(Reads(node) \subseteq DOMAIN env) THEN env
  ELSE LET made == Outputs(node, [k \in DOMAIN node.inputs |-> env[node.inputs[k]]], env)
       IN [name \in ToSet(node.outputs) |->
             Settled(made[CHOOSE k \in DOMAIN node.outputs : node.outputs[k] = name])] @@ env

\* The values of all names, in the order of the nodes.
Values(ir, given) ==
  FoldLeft(Evaluating, given @@ [n \in DOMAIN ir.initializers |-> AsValue(ir.initializers[n])], ir.nodes)

=============================================================================
