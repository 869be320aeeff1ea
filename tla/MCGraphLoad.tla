------------------------------ MODULE MCGraphLoad ------------------------------
(***************************************************************************)
(* Models that are loaded: one of every pattern that a rewrite looks for,  *)
(* and the same with a twist that makes it another model or that should    *)
(* keep the rewrite from applying; and graphs to partition.                *)
(***************************************************************************)
EXTENDS GraphLoad

NodeOf(domain, op, inputs, outputs, attrs) ==
  [domain |-> domain, op |-> op, inputs |-> inputs, outputs |-> outputs, attrs |-> attrs]
Op(op, inputs, output)        == NodeOf("", op, inputs, <<output>>, <<>>)
With(op, inputs, output, attrs) == NodeOf("", op, inputs, <<output>>, attrs)

Floats(shape, data) == New("FLOAT", shape, [i \in 0 .. Len(data) - 1 |-> data[i + 1]])
Whole64(shape, data) == New("INT64", shape, [i \in 0 .. Len(data) - 1 |-> data[i + 1]])
Held(name, value) == With("Constant", <<>>, name, [value |-> value])

GraphWith(nodes, initializers, given, outputs) ==
  [ir |-> [nodes |-> nodes, initializers |-> initializers,
           inputs |-> DOMAIN given, outputs |-> outputs],
   given |-> given]

----------------------------------------------------------------------------
(* Normalization: of x, along its last axis; p is put before every name.   *)

NormNodes(p, x, twist) ==
  LET n(name) == p \o name
      axes == IF twist = "first axis" THEN <<0>> ELSE <<-1>>
      Mean(in, out) ==
        CASE twist = "axes given" -> With("ReduceMean", <<in, "axes">>, out, <<>>)
          [] twist = "axes held" -> With("ReduceMean", <<in, "last">>, out, <<>>)
          [] twist = "dropped axis" -> With("ReduceMean", <<in>>, out, [axes |-> axes, keepdims |-> 0])
          [] OTHER -> With("ReduceMean", <<in>>, out, [axes |-> axes, keepdims |-> 1])
      Flip(t, a, b) == IF twist = t THEN <<b, a>> ELSE <<a, b>>
      scale == IF twist = "short scale" THEN "one" ELSE IF twist = "scale held" THEN n("held") ELSE "scale"
      bias  == CASE twist = "short bias" -> "one" [] twist = "given bias" -> "free" [] OTHER -> "bias"
      eps   == IF twist = "two eps" THEN "scale" ELSE "eps"
  IN (IF twist = "axes held" THEN <<Held("last", Whole64(<<1>>, <<-1>>))>> ELSE <<>>)
     \o <<Mean(x, n("m")),
       Op("Sub", Flip("sub swapped", x, n("m")), n("d")),
       Op("Pow", <<n("d"), IF twist = "cubed" THEN "three" ELSE "two">>, n("p")),
       Mean(n("p"), n("v")),
       Op("Add", Flip("eps first", n("v"), eps), n("e")),
       Op("Sqrt", <<n("e")>>, n("s")),
       Op("Div", Flip("div swapped", n("d"), n("s")), n("q"))>>
     \o (IF twist = "scale held" THEN <<Held(n("held"), Floats(<<2>>, <<3, 4>>))>> ELSE <<>>)
     \o <<Op("Mul", Flip("scale first", n("q"), scale), n("w"))>>
     \o (IF twist = "no bias" THEN <<>> ELSE <<Op("Add", Flip("bias first", n("w"), bias), n("y"))>>)

NormConstants ==
  [eps |-> Floats(<<1>>, <<1>>), two |-> Floats(<<>>, <<4>>), three |-> Floats(<<>>, <<6>>),
   scale |-> Floats(<<2>>, <<3, 4>>), bias |-> Floats(<<2>>, <<1, 5>>), one |-> Floats(<<1>>, <<3>>),
   axes |-> Whole64(<<1>>, <<-1>>)]

NormGiven == [x |-> Atoms("x", <<2, 2>>), free |-> Atoms("free", <<2>>)]

NormTwists ==
  {"none", "first axis", "axes given", "axes held", "dropped axis", "short scale", "scale held", "short bias",
   "given bias", "two eps", "sub swapped", "cubed", "eps first", "div swapped", "scale first",
   "bias first", "no bias"}

Norm(twist) ==
  GraphWith(NormNodes("", "x", twist), NormConstants, NormGiven,
            {IF twist = "no bias" THEN "w" ELSE "y"})

\* A value inside of the pattern that is read from outside, or is an output as well.
TappedNorm(name, op) ==
  GraphWith(NormNodes("", "x", "none") \o <<Op(op, <<name>>, "t")>>, NormConstants, NormGiven, {"y", "t"})
ShownNorm(name) == GraphWith(NormNodes("", "x", "none"), NormConstants, NormGiven, {"y", name})

\* One normalization after the other, and two that share a mean.
TwoNorms ==
  GraphWith(NormNodes("", "x", "none") \o NormNodes("b", "y", "scale first"), NormConstants, NormGiven, {"by"})
SharedMean ==
  GraphWith(NormNodes("", "x", "none") \o Tail([k \in 1 .. 9 |->
              LET node == NormNodes("b", "x", "none")[k] IN
              IF k = 2 THEN [node EXCEPT !.inputs = <<"x", "m">>] ELSE node]),
            NormConstants, NormGiven, {"y", "by"})

Norms ==
  {Norm(t) : t \in NormTwists} \cup {TappedNorm(n, "Abs") : n \in {"m", "d", "e", "q", "w"}}
    \cup {TappedNorm("v", "Foreign")} \cup {ShownNorm(n) : n \in {"m", "d", "p", "s", "w"}}
    \cup {TwoNorms, SharedMean}

----------------------------------------------------------------------------
(* Constants.                                                              *)

ByteTensor(shape, data) == New("UINT8", shape, [i \in 0 .. Len(data) - 1 |-> data[i + 1]])

\* Weights dequantized, converted there and back, and added; outputs says what is shown.
Weights(zero, outputs) ==
  GraphWith(
    <<With("DequantizeLinear", IF zero THEN <<"q", "step", "zero">> ELSE <<"q", "step">>, "a", <<>>),
      With("Cast", <<"a">>, "b", [to |-> "INT64"]), With("Cast", <<"b">>, "c", [to |-> "FLOAT"]),
      Op("Add", <<"x", "c">>, "y")>>,
    [q |-> ByteTensor(<<2>>, <<5, 2>>), step |-> Floats(<<>>, <<3>>), zero |-> ByteTensor(<<>>, <<3>>)],
    [x |-> Atoms("x", <<2>>)], outputs)

\* A constant in a shape that is put together from constants.
Shaped(first, rest, size) ==
  GraphWith(
    <<Held("rest", Whole64(<<Len(rest)>>, rest)), With("Concat", <<"first", "rest">>, "s", [axis |-> 0]),
      Op("Reshape", <<"table", "s">>, "r"), Op("Relu", <<"x">>, "z"), Op("Add", <<"z", "r">>, "y")>>,
    [first |-> Whole64(<<1>>, <<first>>),
     table |-> Floats(<<2, size \div 2>>, [k \in 1 .. size |-> k])],
    [x |-> Atoms("x", <<1>>)], {"y"})

\* The branches of an If read names of the graph around them: one that is folded, one
\* that only they read.
Branched(runs) ==
  GraphWith(
    <<With("Cast", <<"k">>, "b", [to |-> "FLOAT"]), Op("Abs", <<"x">>, "z"), Op("Neg", <<"x">>, "dead"),
      With("If", <<"x">>, "y", [branches |-> [reads |-> {"b", "z", "w"}, runs |-> runs]])>>,
    [k |-> Whole64(<<2>>, <<3, 1>>), w |-> Floats(<<1>>, <<5>>), unread |-> Floats(<<1>>, <<7>>)],
    [x |-> Atoms("x", <<2>>)], {"y"})

ConstantModels ==
  {Weights(zero, outputs) : zero \in BOOLEAN, outputs \in {{"y"}, {"y", "b"}, {"c", "y"}}}
    \cup {Shaped(0, <<-1>>, 4), Shaped(4, <<1>>, 4), Shaped(-1, <<3>>, 6), Shaped(-1, <<0>>, 4)}
    \cup {Branched(runs) : runs \in BOOLEAN}

----------------------------------------------------------------------------
(* A row of a table, picked by a constant that walks through Unsqueezes.   *)

PickGiven == [table |-> Atoms("t", <<2, 3, 2>>), idx |-> Whole64(<<1, 1, 1>>, <<1>>),
              wide |-> Whole64(<<1>>, <<2>>)]

Pick(step, twist) ==
  LET Lift(in, out) == IF twist = "axes held" THEN Op("Unsqueeze", <<in, "zero">>, out)
                       ELSE With("Unsqueeze", <<in>>, out, [axes |-> IF twist = "trailing" THEN <<-1>> ELSE <<0>>])
      shape == IF twist = "three rows" THEN <<2, 3, 2>> ELSE <<2, 1, 2>>
      axis  == IF twist = "other axis" THEN 2 ELSE 1
      to    == IF twist \in {"put together", "wide"} THEN "to" ELSE "shape"
      from  == IF twist = "given" THEN "idx" ELSE "c"
  IN GraphWith(
       <<Lift("step", "a"), Lift("a", "b"), Lift("b", "c"),
         With("Concat", <<IF twist = "wide" THEN "wide" ELSE "two", "one", "two">>, "to", [axis |-> 0]),
         Op("Expand", <<from, to>>, "e"),
         With("GatherElements", <<"table", "e">>, "g", [axis |-> axis]), Op("Abs", <<"g">>, "y")>>
         \o (CASE twist = "read twice" -> <<With("Cast", <<"e">>, "f", [to |-> "FLOAT"])>>
               [] twist = "b tapped" -> <<With("Cast", <<"b">>, "f", [to |-> "FLOAT"])>>
               [] OTHER -> <<>>),
       [step |-> Whole64(<<>>, <<step>>), zero |-> Whole64(<<1>>, <<0>>), one |-> Whole64(<<1>>, <<1>>),
        two |-> Whole64(<<1>>, <<2>>), shape |-> Whole64(<<3>>, shape)],
       PickGiven,
       CASE twist \in {"read twice", "b tapped"} -> {"y", "f"}
         [] twist = "shown" -> {"y", "e"}
         [] OTHER -> {"y"})

Picks ==
  {Pick(0, "none"), Pick(2, "none"), Pick(1, "other axis")}
    \cup {Pick(2, t) : t \in {"axes held", "trailing", "three rows", "put together", "wide", "given",
                              "read twice", "b tapped", "shown"}}

----------------------------------------------------------------------------
(* A lookup that is zeroed on the first of the steps.                      *)

Masked(step, twist) ==
  LET Flip(t, a, b) == IF twist = t THEN <<b, a>> ELSE <<a, b>>
      lookup == IF twist = "not a lookup" THEN "x" ELSE "l"
  IN GraphWith(
       (IF twist = "stacked" THEN <<Op("Gather", <<"tables", "zero">>, "table"), Op("Gather", <<"table", "ids">>, "l")>>
                             ELSE <<Op("Gather", <<"rows", "ids">>, "l")>>)
       \o <<Op("Equal", <<IF twist = "given" THEN "ids" ELSE "step", "zero">>, "eq"),
            With("Cast", <<"eq">>, "c", [to |-> "FLOAT"]), Op("Neg", <<"c">>, "n"),
            Op("Add", Flip("one last", "unit", "n"), "k"),
            With("Unsqueeze", <<"k">>, "u", [axes |-> <<0>>]),
            Op("Mul", Flip("mask first", lookup, "u"), "masked"),
            Op("Relu", <<"masked">>, "y")>>
       \o (CASE twist = "c tapped" -> <<Op("Abs", <<"c">>, "f")>>
             [] twist = "eq tapped" -> <<With("Cast", <<"eq">>, "f", [to |-> "FLOAT"])>>
             [] twist = "read twice" -> <<Op("Sub", <<"x", "masked">>, "f")>>
             [] OTHER -> <<>>),
       [rows |-> Floats(<<2, 2>>, <<3, 5, 7, 9>>),
        tables |-> Floats(<<1, 2, 2>>, <<3, 5, 7, 9>>),
        step |-> Whole64(<<>>, <<step>>), zero |-> Whole64(<<>>, <<0>>),
        unit |-> Floats(<<>>, <<IF twist = "two" THEN 4 ELSE 2>>)],
       [ids |-> Whole64(<<1>>, <<1>>), x |-> Atoms("x", <<1, 2>>)],
       CASE twist \in {"c tapped", "eq tapped", "read twice"} -> {"y", "f"}
         [] twist = "shown" -> {"y", "masked"}
         [] OTHER -> {"y"})

Masks ==
  {Masked(step, t) : step \in 0 .. 1,
     t \in {"none", "stacked", "not a lookup", "one last", "mask first", "read twice"}}
  \cup {Masked(0, t) : t \in {"given", "two", "c tapped", "eq tapped", "shown"}}

----------------------------------------------------------------------------
(* Queries and keys whose heads are transposed before the attention.       *)

Attention(twist) ==
  LET perm == IF twist = "other" THEN <<0, 1, 2, 3, 4>> ELSE <<0, 1, 2, 4, 3>>
      Leg(x, heads) ==
        <<With("Transpose", <<x>>, x \o "t", [perm |-> perm]),
          Op("Reshape", <<x \o "t", IF twist = "narrow" THEN "narrow" ELSE "heads">>, x \o "h"),
          Op("Reshape", <<x \o "h", "flat">>, x \o "r")>>
      pass == <<"v", "v", "v", "v", "v", "v">>
      legs == IF twist = "flat" THEN <<"q", "k">> ELSE <<"qr", "kr">>
  IN GraphWith(
       <<Held("heads", Whole64(<<4>>, <<1, 1, -1, HeadDim>>)),
         Held("narrow", Whole64(<<4>>, <<1, 1, -1, 2>>)), Held("flat", Whole64(<<3>>, <<1, 1, -1>>))>>
       \o Leg("q", 1) \o Leg("k", 1)
       \o <<NodeOf(IF twist = "foreign" THEN "" ELSE "com.microsoft", "GroupQueryAttention",
                   legs \o <<"v">> \o pass, <<"y", "pk", "pv">>, [num_heads |-> 1, kv_num_heads |-> 1])>>
       \o (CASE twist = "tapped" -> <<Op("Abs", <<"qt">>, "f"), Op("Abs", <<"kh">>, "g")>> [] OTHER -> <<>>),
       <<>>,
       [q |-> Atoms("q", <<1, 1, 1, HeadDim \div 2, 2>>), k |-> Atoms("k", <<1, 1, 1, HeadDim \div 2, 2>>),
        v |-> Atoms("v", <<1, 1, HeadDim>>)],
       IF twist = "tapped" THEN {"y", "pk", "pv", "f", "g"} ELSE {"y", "pk", "pv"})

Attentions == {Attention(t) : t \in {"none", "other", "narrow", "flat", "foreign", "tapped"}}

----------------------------------------------------------------------------
(* Graphs of nodes that the plugin claims and of others, "Foreign".        *)

Shape(n, wires, foreign) ==
  LET in(v) == SelectSeq([k \in 1 .. n |-> k], LAMBDA u : <<u, v>> \in wires)
      inputs(v) == IF in(v) = <<>> THEN <<"x">> ELSE [k \in DOMAIN in(v) |-> ToString(in(v)[k])]
      node(v) == Op(IF v \in foreign THEN "Foreign" ELSE "Where", inputs(v), ToString(v))
  IN GraphWith([v \in 1 .. n |-> node(v)],
               <<>>, [x |-> Atoms("x", <<1>>)],
               {ToString(v) : v \in {u \in 1 .. n : \A w \in wires : w[1] # u}})

\* Two pairs that may be joined, and two foreign nodes between them.
Between == {<<1, 4>>, <<4, 5>>, <<2, 3>>, <<3, 6>>}
PairsOf == {Shape(6, {<<1, 2>>, <<5, 6>>, <<2, 6>>} \cup wires, {3, 4}) : wires \in SUBSET Between}

\* Pairs p -> q in a ring: p of one leads, through a foreign node, to q of the next.
Ring(k) ==
  Shape(3 * k,
        {<<p, p + 2 * k>> : p \in 1 .. k} \cup {<<p, p + k>> : p \in 1 .. k}
          \cup {<<p + k, 2 * k + (p % k) + 1>> : p \in 1 .. k},
        k + 1 .. 2 * k)

----------------------------------------------------------------------------
AllModels == Norms \cup ConstantModels \cup Picks \cup Masks \cup Attentions \cup PairsOf \cup {Ring(2)}
Cycle     == {Ring(3)}

ModelGraphs(models) == {GraphOf(m) : m \in models}
AllGraphs   == ModelGraphs(AllModels)
CycleGraphs == ModelGraphs(Cycle)

\* The premise of the theorems about data.
ASSUME TensorsAreDecoded == TensorsDecoded

=============================================================================
