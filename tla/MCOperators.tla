----------------------------- MODULE MCOperators -----------------------------
(* Small operators with operands for TLC. *)
EXTENDS OperatorRun, OperatorTypes, TLC

\* Operands whose elements are all different, of both signs.
Filled(dtype, shape) ==
  New(dtype, shape, [i \in 0 .. Product(shape) - 1 |->
    CASE dtype = "BOOL" -> (i \div 2 + i) % 2
      [] dtype # "BOOL" -> IF i % 2 = 0 THEN i + 1 ELSE -(i + 2)])
Ints(values) == New("INT64", <<Len(values)>>, [i \in 0 .. Len(values) - 1 |-> values[i + 1]])
Grid(shape, values) == New("INT64", shape, [i \in 0 .. Len(values) - 1 |-> values[i + 1]])
Whole(n) == New("INT64", <<>>, [i \in {0} |-> n])
Halves(n) == New("FLOAT", <<>>, [i \in {0} |-> n])

Dtypes == {"FLOAT", "INT64", "INT32"}
Homes == {"host", "device"}
Permutation(n) == {p \in [1 .. n -> 1 .. n] : \A i, j \in 1 .. n : i # j => p[i] # p[j]}

Shapes(n) == {<<>>, <<3>>, <<1, 3>>, <<2, 1>>, <<2, 3>>, <<2, 0>>, <<2, 1, 3>>, <<2, 2, 2>>}

TransposeJobs ==
  {[op |-> "Transpose", x |-> <<Filled(t, s)>>, home |-> <<h>>, perm |-> p] :
     t \in Dtypes, s \in {<<2, 1, 3>>, <<2, 2, 3>>}, h \in Homes, p \in Permutation(3)}
  \cup {[op |-> "Transpose", x |-> <<Filled(t, s)>>, home |-> <<h>>, perm |-> p] :
     t \in Dtypes, s \in {<<2, 3>>, <<5, 3>>, <<2, 0>>}, h \in Homes, p \in Permutation(2)}

ConcatJobs ==
  {[op |-> "Concat", x |-> <<Filled(t, <<2, 1, 2>>), Filled(t, [<<2, 1, 2>> EXCEPT ![a] = n])>>,
    home |-> <<"host", "device">>, axis |-> IF back THEN a - 4 ELSE a - 1] :
     t \in Dtypes, a \in 1 .. 3, n \in 0 .. 3, back \in BOOLEAN}

GatherJobs ==
  {[op |-> "Gather", x |-> <<Filled(t, <<2, 3, 2>>), i>>, home |-> <<"host", "host">>, axis |-> a] :
     t \in Dtypes, a \in {0, 1, -1}, i \in {Whole(-1), Ints(<<1, 0, -2>>), Grid(<<2, 1>>, <<1, -1>>)}}
  \cup {[op |-> "Gather", x |-> <<Filled("INT64", <<2, 3>>), Ints(<<n>>)>>,
         home |-> <<"host", "host">>, axis |-> 1] : n \in -4 .. 3}
  \cup {[op |-> "GatherElements", x |-> <<Filled(t, <<2, 3>>), Grid(<<2, 2>>, <<0, -1, 1, 1>>)>>,
         home |-> <<"host", "host">>, axis |-> a] : t \in Dtypes, a \in {0, 1, -1}}
  \cup {[op |-> "ScatterND", x |-> <<Filled(t, <<3, 2>>), i, Filled(t, u)>>, home |-> <<"host", "host", "host">>] :
          t \in Dtypes, <<i, u>> \in {<<Grid(<<2, 1>>, <<2, 0>>), <<2, 2>>>>, <<Grid(<<3, 1>>, <<1, -1, 1>>), <<3, 2>>>>,
                                     <<Grid(<<2, 2>>, <<2, 1, -3, 0>>), <<2>>>>}}

PadJobs ==
  {[op |-> "Pad", x |-> <<Filled(t, <<2, 3>>)>>, home |-> <<"host">>, mode |-> "constant",
    pads |-> <<a, b, c, d>>, value |-> 7] :
     t \in Dtypes, a \in {0, 1}, b \in {-1, 0, 2}, c \in {0, -1}, d \in {0, -1, 1}}

Three == {<<>>, <<3>>, <<1, 3>>, <<2, 1>>, <<2, 3>>, <<2, 0>>, <<2>>}
WhereJobs ==
  {[op |-> "Where", x |-> <<Filled("BOOL", c), Filled(t, a), Filled(t, b)>>, home |-> <<"host", "host", "device">>] :
     t \in {"FLOAT", "INT64"}, c \in Three, a \in Three, b \in Three}

SliceJobs ==
  {[op |-> "Slice", x |-> <<Filled(t, <<2, 4>>)>>, home |-> <<"host">>,
    starts |-> <<s>>, ends |-> <<e>>, axes |-> <<1>>, steps |-> <<p>>] :
     t \in {"FLOAT", "INT64"}, s \in -6 .. 5, e \in -6 .. 5, p \in {-3, -2, -1, 1, 2, 3}}
  \cup {[op |-> "Slice", x |-> <<Filled(t, <<2, 3, 2>>)>>, home |-> <<"host">>,
         starts |-> <<1, -1>>, ends |-> <<9, 0>>, axes |-> <<1, -1>>, steps |-> <<1, -1>>] : t \in Dtypes}
  \cup {[op |-> "Split", x |-> <<Filled(t, <<2, 4>>)>>, home |-> <<"host">>, axis |-> -1,
         sizes |-> z, outputs |-> Len(m), meant |-> m] :
          t \in Dtypes, <<z, m>> \in {<<<<1, 3>>, <<1, 3>>>>, <<<<>>, <<2, 2>>>>, <<<<2, 0, 2>>, <<2, 0, 2>>>>}}

CastJobs ==
  {[op |-> "Cast", x |-> <<Filled(t, <<2, 3>>)>>, home |-> <<h>>, to |-> u] :
     t \in {"INT64", "INT32", "BOOL"}, u \in Dtypes \cup {"BOOL"}, h \in Homes}
  \cup {[op |-> "Cast", x |-> <<Filled("FLOAT", <<2, 3>>)>>, home |-> <<h>>, to |-> u] :
     u \in Dtypes, h \in Homes}

NonZero(x) == [x EXCEPT !.data = [i \in DOMAIN x.data |-> IF x.data[i] = 0 THEN 2 ELSE x.data[i]]]
BinaryJobs ==
  {[op |-> "Binary", x |-> <<Filled(t, a), Filled(t, b)>>, home |-> <<"device", "host">>, fn |-> f] :
     t \in {"FLOAT", "INT64"}, a \in Three, b \in Three, f \in {"Sub", "Div"}}
  \cup {[op |-> "Binary", x |-> <<Filled(t, <<2, 3>>), Filled(t, <<3>>)>>, home |-> <<"host", h>>, fn |-> f] :
     t \in {"FLOAT", "INT64"}, h \in Homes, f \in {"Add", "Mul", "Min", "Max"}}
  \cup {[op |-> "Binary", x |-> <<Ints(<<2, -3, 5>>), Ints(<<n>>)>>, home |-> <<"host", "host">>, fn |-> f] :
     n \in 0 .. 3, f \in {"Pow", "Div"}}
  \cup {[op |-> "Compare", x |-> <<Filled(t, a), Filled(t, <<2, 3>>)>>, home |-> <<"host", "host">>, fn |-> f] :
     t \in {"FLOAT", "INT64"}, a \in {<<>>, <<2, 3>>, <<2, 1>>}, f \in {"Equal", "Less", "Greater", "LessOrEqual", "And"}}
  \cup {[op |-> "Mod", x |-> <<Ints(<<7, -7, 6, 0>>), Ints(<<n>>)>>, home |-> <<"host", "host">>, fmod |-> f] :
     n \in {-5, -3, 0, 3, 5}, f \in BOOLEAN}

MetaJobs ==
  {[op |-> "Reshape", x |-> <<Filled(t, <<2, 3, 2>>)>>, home |-> <<h>>, target |-> p[1], meant |-> p[2]] :
     t \in Dtypes, h \in Homes,
     p \in {<<<<-1>>, <<12>>>>, <<<<0, -1>>, <<2, 6>>>>, <<<<4, -1, 1>>, <<4, 3, 1>>>>, <<<<0, 0, 0>>, <<2, 3, 2>>>>}}
  \cup {[op |-> "Flatten", x |-> <<Filled(t, <<2, 3, 2>>)>>, home |-> <<h>>, axis |-> p[1], meant |-> p[2]] :
     t \in Dtypes, h \in Homes, p \in {<<0, <<1, 12>>>>, <<1, <<2, 6>>>>, <<-1, <<6, 2>>>>, <<3, <<12, 1>>>>}}
  \cup {[op |-> "Unsqueeze", x |-> <<Filled(t, <<2, 3>>)>>, home |-> <<h>>, axes |-> p[1], meant |-> p[2]] :
     t \in Dtypes, h \in Homes, p \in {<<<<0>>, <<1, 2, 3>>>>, <<<<-1>>, <<2, 3, 1>>>>, <<<<3, 0>>, <<1, 2, 3, 1>>>>, <<<<1, -2>>, <<2, 1, 1, 3>>>>}}
  \cup {[op |-> "Squeeze", x |-> <<Filled(t, <<1, 2, 1>>)>>, home |-> <<h>>, axes |-> p[1], meant |-> p[2]] :
     t \in Dtypes, h \in Homes, p \in {<<<<>>, <<2>>>>, <<<<0>>, <<2, 1>>>>, <<<<-1>>, <<1, 2>>>>}}
  \cup {[op |-> "Shape", x |-> <<Filled("FLOAT", <<2, 3, 1>>)>>, home |-> <<"device">>, start |-> p[1], end |-> p[2], meant |-> p[3]] :
     p \in {<<0, 3, <<2, 3, 1>>>>, <<-2, 9, <<3, 1>>>>, <<2, 1, <<>>>>, <<-9, -1, <<2, 3>>>>}}
  \cup {[op |-> "Range", x |-> <<s, l, d>>, home |-> <<"host", "host", "host">>] :
     <<s, l, d>> \in {<<Whole(1), Whole(8), Whole(3)>>, <<Whole(5), Whole(0), Whole(-2)>>, <<Whole(2), Whole(1), Whole(1)>>,
                      <<Halves(1), Halves(6), Halves(3)>>}}
  \cup {[op |-> "Expand", x |-> <<Filled(t, a)>>, home |-> <<"host">>, target |-> b] : t \in Dtypes, a \in Three, b \in Three}
  \cup {[op |-> "Tile", x |-> <<Filled(t, <<2, 3>>)>>, home |-> <<"host">>, repeats |-> r] : t \in Dtypes, r \in {<<2, 1>>, <<1, 3>>, <<0, 2>>, <<2, 2>>}}

\* Small numbers of both signs, some of them equal.
Small(shape) == New("FLOAT", shape, [i \in 0 .. Product(shape) - 1 |-> ((i * 5) % 7) - 3])
\* Squares: not negative, and every value comes back.
Squares(shape) == New("FLOAT", shape, [i \in 0 .. Product(shape) - 1 |-> ((i + 1) * (i + 1)) % 5])
Device1 == <<"device">>

RowJobs ==
  {[op |-> "Reduce", x |-> <<Filled(t, <<2, 3, 2>>)>>, home |-> <<"host">>, axis |-> a, fn |-> f, keepdims |-> k] :
     t \in Dtypes, a \in -1 .. 2, f \in {"Sum", "Mean", "Max", "Min"}, k \in BOOLEAN}
  \cup {[op |-> "CumSum", x |-> <<Filled(t, <<2, 3, 2>>)>>, home |-> <<"host">>, axis |-> a, exclusive |-> e, reverse |-> r] :
     t \in Dtypes, a \in {0, 1, -1}, e \in BOOLEAN, r \in BOOLEAN}
  \cup {[op |-> "TopK", x |-> <<New(t, <<2, 3, 2>>, [i \in 0 .. 11 |-> ((i * 5) % 7) * 2])>>, home |-> <<"host">>, k |-> k, axis |-> a, largest |-> l] :
     t \in {"FLOAT", "INT64"}, k \in 0 .. 2, a \in {0, 1, -1}, l \in BOOLEAN}

TeamJobs ==
  {[op |-> "Softmax", x |-> <<Small(p[1])>>, home |-> Device1, axis |-> p[2]] :
     p \in {<<<<5>>, 0>>, <<<<2, 6>>, -1>>, <<<<1, 3, 2>>, 1>>, <<<<3, 2>>, 0>>, <<<<0, 2>>, 1>>}}
  \cup {[op |-> "ArgMax", x |-> <<Squares(s)>>, home |-> Device1, axis |-> -1, keepdims |-> FALSE] :
     s \in {<<9>>, <<2, 1, 5>>}}
  \cup {[op |-> "LayerNorm", x |-> <<Squares(<<2, 5>>), Small(<<5>>)>> \o b, home |-> Device1, axis |-> -1, eps |-> 2] :
     b \in {<<>>, <<Filled("FLOAT", <<5>>)>>}}
  \cup {[op |-> "RMSNorm", x |-> <<Small(<<2, 3>>), Filled("FLOAT", <<3>>)>>, home |-> Device1, eps |-> 1],
        [op |-> "SkipRMSNorm", x |-> <<Small(<<2, 3>>), Filled("FLOAT", <<2, 3>>), Small(<<3>>)>>, home |-> Device1, eps |-> 1]}

ElementJobs ==
  {[op |-> "BatchNorm", x |-> <<Small(s), Small(<<2>>), Filled("FLOAT", <<2>>), Small(<<2>>),
                                New("FLOAT", <<2>>, [i \in 0 .. 1 |-> 9 * i + 3])>>, home |-> Device1, eps |-> 1] :
     s \in {<<2, 2>>, <<2, 2, 3>>, <<1, 2, 2, 2>>}}
  \cup {[op |-> "Clip", x |-> <<Filled(t, <<2, 3>>)>>, home |-> Device1, low |-> l, high |-> h] :
     t \in {"FLOAT", "INT64"}, l \in {<<>>, <<-2>>}, h \in {<<>>, <<3>>}}
  \cup {[op |-> "Unary", x |-> <<Filled("FLOAT", s)>>, home |-> Device1, fn |-> f, alpha |-> 2] :
     s \in {<<>>, <<2, 3>>, <<0>>}, f \in {"Relu", "LeakyRelu", "Neg", "Abs"}}
  \cup {[op |-> f, x |-> <<Filled(t, <<2, 3>>)>>, home |-> Device1] : t \in {"INT64", "FLOAT"}, f \in {"Floor"}}
  \cup {[op |-> "Not", x |-> <<Filled("BOOL", <<2, 3>>)>>, home |-> Device1]}
  \cup {[op |-> "ConstantOfShape", shape |-> s, dtype |-> t, value |-> 5] : s \in Three, t \in Dtypes}

\* Queries, keys, values, the past of both, cosines and sines.
AttentionOf(batch, queries, past, heads, kvHeads, dim) ==
  LET kept == <<batch, kvHeads, past, dim>>
      angles == <<past + queries, dim \div 2>>
  IN <<Small(<<batch, queries, heads * dim>>), Squares(<<batch, queries, kvHeads * dim>>),
       Filled("FLOAT", <<batch, queries, kvHeads * dim>>), Small(kept), Squares(kept),
       New("FLOAT", angles, [i \in 0 .. Product(angles) - 1 |-> i % 3]),
       New("FLOAT", angles, [i \in 0 .. Product(angles) - 1 |-> (i % 2) + 1])>>

Attention(batch, queries, past, heads, kvHeads, dim, rotary, reorder) ==
  [op |-> "Attention", x |-> AttentionOf(batch, queries, past, heads, kvHeads, dim), home |-> Device1,
   qHeads |-> heads, kvHeads |-> kvHeads, scale |-> 1, rotary |-> rotary, reorder |-> reorder]

\* One position to attend to, and longer contexts on a device that runs the lanes of
\* a workgroup in lockstep.
AttentionJobs ==
  {Attention(2, 1, 0, 2, k, 2, r, FALSE) : k \in {1, 2}, r \in BOOLEAN}
  \cup {Attention(g[1], g[2], p, g[3], g[4], d[1], r, d[2]) @@ [lockstep |-> TRUE] :
     g \in {<<2, 1, 2, 1>>, <<1, 2, 2, 2>>, <<1, 1, 4, 2>>}, p \in {0, 3},
     d \in {<<2, FALSE>>, <<4, FALSE>>, <<4, TRUE>>}, r \in BOOLEAN}

\* Four positions, whose lanes interleave.
RacingJobs == {[Attention(1, 1, 3, 1, 1, 2, FALSE, FALSE) EXCEPT !.x[4] = Squares(<<1, 1, 3, 2>>)]}

\* Products of matrices: batches that are stretched, edges of tiles, a split of K.
MatrixJobs ==
  {[op |-> "MatMul", x |-> <<Small(p[1]), Filled("FLOAT", p[2])>>, home |-> <<"device", "host">>] :
     p \in {<<<<3, 2>>, <<2, 5>>>>, <<<<5, 3>>, <<3, 2>>>>, <<<<3, 5>>, <<5, 3>>>>, <<<<1, 3>>, <<3, 1>>>>,
            <<<<2, 1, 2, 2>>, <<3, 2, 1>>>>, <<<<2, 1, 3>>, <<3, 2>>>>, <<<<2, 3>>, <<2, 2>>>>,
            <<<<2, 2, 2>>, <<3, 2, 2>>>>, <<<<4, 1, 2>>, <<4, 2, 1>>>>, <<<<2, 0>>, <<0, 2>>>>,
            <<<<1, 4>>, <<4, 2>>>>, <<<<1, 7>>, <<7, 3>>>>, <<<<1, 5>>, <<5, 9>>>>, <<<<1, 1, 7>>, <<1, 7, 2>>>>}}
  \cup {[op |-> "Gemm", home |-> <<"device", "host", "host">>, transA |-> a, transB |-> b, alpha |-> 2, beta |-> 3,
         x |-> <<Small(IF a THEN <<5, 3>> ELSE <<3, 5>>), Filled("FLOAT", IF b THEN <<2, 5>> ELSE <<5, 2>>)>> \o c] :
          a \in BOOLEAN, b \in BOOLEAN,
          c \in {<<>>} \cup {<<Filled("FLOAT", s)>> : s \in {<<>>, <<2>>, <<1>>, <<3, 1>>, <<1, 2>>, <<3, 2>>}}}
  \cup {[op |-> "Gemm", x |-> <<Small(<<3, 2>>), Small(<<3, 2>>)>>, home |-> <<"device", "host">>,
         transA |-> FALSE, transB |-> FALSE, alpha |-> 1, beta |-> 1]}

NBitsEnv == [scalar |-> FALSE, cap |-> 0, chunks1 |-> 0, chunksM |-> 0, smallM |-> FALSE, kmajor |-> FALSE]
Bytes(shape) == New("UINT8", shape, [i \in 0 .. Product(shape) - 1 |-> (i * 37 + 11) % 256])
NBitsJobs ==
  {[op |-> "NBits", home |-> <<"device", "device", "device">>, k |-> k, n |-> n, init |-> i, env |-> e,
    x |-> <<Small(<<m, k>>), Bytes(<<n, k \div 2>>), Filled("FLOAT", <<n, k \div Block>>)>>] :
     m \in {1, 2}, k \in {8, 16}, n \in {1, 3}, i \in BOOLEAN,
     e \in {NBitsEnv, [NBitsEnv EXCEPT !.kmajor = TRUE], [NBitsEnv EXCEPT !.scalar = TRUE],
            [NBitsEnv EXCEPT !.cap = 2], [NBitsEnv EXCEPT !.chunks1 = 1, !.chunksM = 2],
            [NBitsEnv EXCEPT !.smallM = TRUE, !.kmajor = TRUE]}}

ByteTensor(dtype, shape) ==
  New(dtype, shape, [i \in 0 .. Product(shape) - 1 |->
    IF dtype = "INT8" THEN ((i * 91 + 50) % 256) - 128 ELSE (i * 91 + 50) % 256])
Scales(n) == New("FLOAT", <<n>>, [i \in 0 .. n - 1 |-> i + 2])
One0(dtype, v) == New(dtype, <<>>, [i \in {0} |-> v])
QuantizedJobs ==
  {[op |-> "DynamicQuantize", home |-> Device1,
    x |-> <<New("FLOAT", <<n>>, [i \in 0 .. n - 1 |-> (((i * 4) % 7) - d) * 51])>>] :
     n \in {1, 4, 9, 13}, d \in {-1, 3, 8}}
  \cup {[op |-> "DynamicQuantize", home |-> Device1, x |-> <<New("FLOAT", <<n>>, [i \in 0 .. n - 1 |-> 0])>>] : n \in {0, 2}}
  \cup {[op |-> "Dequantize", home |-> <<"device", "device", "device">>, axis |-> a,
         x |-> <<ByteTensor(t, s), Scales(s[Axis(a, 2)])>> \o z] :
          t \in {"UINT8", "INT8", "INT32"}, s \in {<<2, 5>>, <<3, 2>>}, a \in {0, 1, -1},
          z \in {<<>>} \cup {<<ByteTensor(t, <<5>>)>> : t \in {"UINT8"}}}
  \cup {[op |-> "Quantize", home |-> <<"device", "device", "device">>, axis |-> a, to |-> t,
         x |-> <<New("FLOAT", s, [i \in 0 .. 9 |-> ((i * 61) % 300) - 120]), Scales(s[Axis(a, 2)])>> \o z] :
          t \in {"UINT8", "INT8"}, s \in {<<2, 5>>, <<5, 2>>}, a \in {0, -1},
          z \in {<<>>, <<ByteTensor("INT8", <<5>>)>>, <<ByteTensor("UINT8", <<5>>)>>}}
  \cup {[op |-> f, home |-> <<"device", "device">>, axis |-> 1, to |-> "UINT8",
         x |-> <<IF f = "Quantize" THEN Small(<<2, 3>>) ELSE ByteTensor("UINT8", <<2, 3>>), Scales(n)>>] :
          f \in {"Quantize", "Dequantize"}, n \in {1, 2}}
  \cup {[op |-> "MatMulInteger", home |-> <<"device", "host", "device", "device">>, dot4 |-> d,
         x |-> <<ByteTensor(t, s), ByteTensor(u, <<Last(s), 3>>), One0(t, 7), One0(u, IF u = "INT8" THEN -5 ELSE 200)>>] :
          d \in BOOLEAN, t \in {"UINT8", "INT8"}, u \in {"UINT8", "INT8"}, s \in {<<3, 4>>, <<2, 1, 12>>}}

\* Geometries <<strides, dilations, pads, auto_pad>> of one and of two dimensions.
Lines == {<<<<1>>, <<1>>, <<0, 0>>, "NOTSET">>, <<<<2>>, <<1>>, <<1, 2>>, "NOTSET">>, <<<<1>>, <<2>>, <<2, 1>>, "NOTSET">>,
          <<<<2>>, <<1>>, <<0, 0>>, "SAME_UPPER">>, <<<<2>>, <<1>>, <<0, 0>>, "SAME_LOWER">>, <<<<3>>, <<1>>, <<1, 1>>, "VALID">>}
Planes == {<<<<1, 1>>, <<1, 1>>, <<0, 0, 0, 0>>, "NOTSET">>, <<<<2, 1>>, <<1, 2>>, <<1, 0, 0, 2>>, "NOTSET">>,
           <<<<1, 2>>, <<1, 1>>, <<0, 0, 0, 0>>, "SAME_UPPER">>, <<<<2, 2>>, <<1, 1>>, <<0, 0, 0, 0>>, "SAME_LOWER">>}

Sliding(op, x, group, geometry) ==
  [op |-> op, x |-> x, home |-> [i \in DOMAIN x |-> "device"], group |-> group,
   strides |-> geometry[1], dils |-> geometry[2], pads |-> geometry[3], auto |-> geometry[4]]

ConvJobs ==
  {Sliding("Conv", <<Small(s[1]), Filled("FLOAT", s[2])>> \o b, s[3], l) :
     l \in Lines, b \in {<<>>, <<Small(<<2>>)>>},
     s \in {<<<<1, 1, 4>>, <<2, 1, 2>>, 1>>, <<<<2, 2, 5>>, <<2, 1, 3>>, 2>>, <<<<2, 2, 4>>, <<2, 2, 3>>, 1>>,
            <<<<1, 4, 4>>, <<2, 4, 2>>, 1>>}}
  \cup {Sliding("Conv", <<Small(s[1]), Filled("FLOAT", s[2]), Small(<<s[2][1]>>)>>, s[3], p) :
     p \in Planes,
     s \in {<<<<1, 1, 3, 3>>, <<1, 1, 2, 2>>, 1>>, <<<<1, 2, 3, 4>>, <<4, 1, 2, 2>>, 2>>, <<<<1, 2, 3, 3>>, <<3, 2, 2, 2>>, 1>>}}
  \cup {Sliding("Conv", <<Small(<<1, 1, 2>>), Small(<<1, 1, 3>>)>>, 1, <<<<1>>, <<1>>, <<0, 0>>, "NOTSET">>)}

ConvTransposeJobs ==
  {Sliding("ConvTranspose", <<Small(s[1]), Filled("FLOAT", s[2])>> \o b, s[3], <<p[1], p[2], p[3], "NOTSET">>)
     @@ [outpad |-> p[4], init |-> i] :
     i \in BOOLEAN, b \in {<<>>, <<Small(<<2>>)>>},
     p \in {<<<<1>>, <<1>>, <<0, 0>>, <<0>>>>, <<<<2>>, <<2>>, <<1, 0>>, <<1>>>>, <<<<2>>, <<1>>, <<0, 0>>, <<0>>>>,
            <<<<3>>, <<1>>, <<0, 0>>, <<0>>>>, <<<<2>>, <<1>>, <<0, 0>>, <<1>>>>},
     s \in {<<<<1, 2, 3>>, <<2, 2, 2>>, 1>>, <<<<2, 2, 3>>, <<2, 1, 2>>, 2>>, <<<<1, 1, 2>>, <<1, 2, 2>>, 1>>}}
  \cup {Sliding("ConvTranspose", <<Small(<<1, 1, 2, 2>>), Filled("FLOAT", <<1, 2, 2, 1>>), Small(<<2>>)>>, 1,
                <<p, <<1, 1>>, <<0, 0, 0, 0>>, "NOTSET">>) @@ [outpad |-> <<0, 0>>, init |-> i] :
          i \in BOOLEAN, p \in {<<2, 1>>, <<2, 2>>, <<3, 1>>}}

ConvIntegerJobs ==
  {Sliding("ConvInteger", <<ByteTensor(t, s[1]), ByteTensor(u, s[2])>> \o z, s[3], s[4]) @@ [dot4 |-> d] :
     t \in {"UINT8", "INT8"}, u \in {"UINT8", "INT8"}, d \in BOOLEAN,
     z \in {<<>>, <<One0("UINT8", 9)>>, <<One0("UINT8", 100), One0("UINT8", 3)>>},
     s \in {<<<<1, 4, 3>>, <<3, 4, 1>>, 1, <<<<1>>, <<1>>, <<0, 0>>, "NOTSET">>>>,
            <<<<1, 4, 3>>, <<2, 2, 1>>, 2, <<<<1>>, <<1>>, <<0, 0>>, "NOTSET">>>>,
            <<<<1, 1, 3>>, <<2, 1, 2>>, 1, <<<<2>>, <<1>>, <<1, 1>>, "NOTSET">>>>,
            <<<<1, 1, 2, 3>>, <<1, 1, 2, 2>>, 1, <<<<1, 1>>, <<1, 1>>, <<0, 0, 0, 0>>, "SAME_UPPER">>>>}}

PoolJobs ==
  {Sliding("Pool", <<Filled("FLOAT", <<2, 2, 5>>)>>, 1, l) @@ [kind |-> k, ks |-> <<3>>, includePad |-> i] :
     l \in Lines, k \in {"Max", "Average"}, i \in BOOLEAN}
  \cup {Sliding("Pool", <<Filled("FLOAT", <<1, 2, 3, 4>>)>>, 1, p) @@ [kind |-> k, ks |-> <<2, 3>>, includePad |-> i] :
     p \in Planes, k \in {"Max", "Average"}, i \in BOOLEAN}
  \cup {Sliding("Pool", <<Filled("FLOAT", s)>>, 1, <<d, d, [i \in 1 .. 2 * Len(d) |-> 0], "NOTSET">>) @@ [kind |-> "GlobalAverage", includePad |-> FALSE] :
     <<s, d>> \in {<<<<2, 2, 3>>, <<1>>>>, <<<<1, 2, 2, 3>>, <<1, 1>>>>}}

ResizeJobs ==
  {[op |-> "Resize", x |-> <<Filled("FLOAT", <<1, 2, 3>>)>>, home |-> Device1, mode |-> m, coord |-> c, nearest |-> r, cubic |-> -3,
    scales |-> IF s[1] = 0 THEN <<>> ELSE <<<<1, 1>>, <<1, 1>>, s>>, sizes |-> IF s[1] = 0 THEN <<1, 2, s[2]>> ELSE <<>>] :
     s \in {<<2, 1>>, <<3, 2>>, <<2, 3>>, <<1, 4>>, <<0, 5>>, <<0, 2>>},
     c \in {"half_pixel", "asymmetric", "align_corners", "pytorch_half_pixel"},
     <<m, r>> \in {<<"nearest", "floor">>, <<"nearest", "ceil">>, <<"nearest", "round_prefer_floor">>,
                   <<"nearest", "round_prefer_ceil">>, <<"linear", "floor">>, <<"cubic", "floor">>}}
  \cup {[op |-> "Resize", x |-> <<Filled("FLOAT", <<1, 1, 2, 3>>)>>, home |-> Device1, mode |-> m, coord |-> "half_pixel",
         nearest |-> "round_prefer_floor", cubic |-> a, scales |-> <<<<1, 1>>, <<1, 1>>, <<2, 1>>, <<3, 2>>>>, sizes |-> <<>>] :
     m \in {"nearest", "linear", "cubic"}, a \in {-2, -3}}
  \cup {[op |-> "Resize", x |-> <<Filled("FLOAT", <<1, 2, 3>>)>>, home |-> Device1, mode |-> "nearest", coord |-> "asymmetric",
         nearest |-> "floor", cubic |-> -3, scales |-> <<<<1, 1>>, <<2, 1>>, <<2, 1>>>>, sizes |-> <<>>]}

Quarters(shape) == New("FLOAT", shape, [i \in 0 .. Product(shape) - 1 |-> ((i * 7) % 11) - 5])
GridSampleJobs ==
  {[op |-> "GridSample", x |-> <<Filled("FLOAT", <<n, 2, 2, 3>>), Quarters(<<n, h, 2, 2>>)>>, home |-> <<"device", "device">>,
    align |-> a, border |-> b] :
     n \in {1, 2}, h \in 0 .. 2, a \in BOOLEAN, b \in BOOLEAN}

WindowJobs == ConvJobs \cup ConvTransposeJobs \cup ConvIntegerJobs \cup PoolJobs \cup ResizeJobs \cup GridSampleJobs

AllJobs ==
  TransposeJobs \cup ConcatJobs \cup GatherJobs \cup PadJobs \cup WhereJobs \cup SliceJobs
    \cup CastJobs \cup BinaryJobs \cup MetaJobs \cup RowJobs
    \cup TeamJobs \cup ElementJobs \cup AttentionJobs \cup MatrixJobs \cup NBitsJobs \cup QuantizedJobs
    \cup WindowJobs
=============================================================================
