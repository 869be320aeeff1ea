----------------------------- MODULE WindowKernels -----------------------------
(***************************************************************************)
(* Operators that slide a window over one or two spatial dimensions        *)
(* (interp.rs): Conv, ConvTranspose, ConvInteger, pooling, Resize and      *)
(* GridSample, with their shaders (shaders/conv.rs, conv_transpose.rs,     *)
(* conv_integer.rs, pooling.rs, resize.rs, grid_sample.rs).                *)
(*                                                                         *)
(* One dimension is a plane of width one: pairs are <<height, width>>.     *)
(***************************************************************************)
EXTENDS QuantizedKernels, RowKernels

CONSTANTS
  WorkgroupFloor,  \* fewest workgroups of big tiles for a convolution
  SplitTarget, SplitCap, SplitMinK, SplitMinSlice,
  PhaseMinMacs     \* least work for a transposed convolution in phases

Plane == {1, 2}
Paired(v, unit) == IF Len(v) = 1 THEN <<v[1], unit>> ELSE v
Cells(k) == (0 .. k[1] - 1) \X (0 .. k[2] - 1)
Within(p, size) == \A d \in Plane : p[d] >= 0 /\ p[d] < size[d]

----------------------------------------------------------------------------
(* The geometry of a convolution or of pooling, for weights of shape w.    *)

SamePads(upper, in, k, stride, dil) ==
  LET needed == Max({0, (CeilDiv(in, stride) - 1) * stride + (k - 1) * dil + 1 - in})
      half == needed \div 2
  IN IF upper THEN <<half, needed - half>> ELSE <<needed - half, half>>

\* Padding before and after every spatial dimension.
ConvPads(job, ks) ==
  LET n == Len(ks)
      same(d) == SamePads(job.auto = "SAME_UPPER", job.x[1].shape[2 + d], ks[d], job.strides[d], job.dils[d])
  IN CASE job.auto = "NOTSET" -> job.pads
       [] job.auto = "VALID"  -> [d \in 1 .. 2 * n |-> 0]
       [] OTHER -> [d \in 1 .. 2 * n |-> IF d <= n THEN same(d)[1] ELSE same(d - n)[2]]

\* A window that slides over x, all but its output.
Window(job, x, w, pads, n) ==
  [n |-> x[1], cIn |-> x[2], cOut |-> w[1], group |-> job.group, gsi |-> w[2],
   in |-> Paired(SubSeq(x, 3, Len(x)), 1), k |-> Paired(SubSeq(w, 3, Len(w)), 1),
   s |-> Paired(job.strides, 1), d |-> Paired(job.dils, 1),
   begin |-> Paired(SubSeq(pads, 1, n), 0), end |-> Paired(SubSeq(pads, n + 1, 2 * n), 0)]

\* The same with an output, if that has pixels; n spatial dimensions are real.
WithOutput(g, out, n) ==
  IF out[1] <= 0 \/ out[2] <= 0 THEN Refused
  ELSE g @@ [out |-> out, pixels |-> out[1] * out[2], total |-> g.n * g.cOut * out[1] * out[2],
             shape |-> <<g.n, g.cOut>> \o SubSeq(out, 1, n)]

Slid(g, i) ==
  Truncated(g.in[i] + g.begin[i] + g.end[i] - (g.d[i] * (g.k[i] - 1) + 1), g.s[i]) + 1

Convolved(g, n) == WithOutput(g, [i \in Plane |-> Slid(g, i)], n)

ConvGeometry(job, w) ==
  LET x == job.x[1].shape
      n == Len(x) - 2
      ks == SubSeq(w, 3, Len(w))
  IN IF n \notin Plane \/ Len(ks) # n \/ Len(job.pads) # 2 * n THEN Refused
     ELSE Convolved(Window(job, x, w, ConvPads(job, ks), n), n)

\* Image, channel and pixel of output element o.
OfPixel(o, channels, out) ==
  LET t == (o \div out[2]) \div out[1] IN
  [n |-> t \div channels, m |-> t % channels, p |-> <<(o \div out[2]) % out[1], o % out[2]>>]

Under(g, p, tap) == [i \in Plane |-> p[i] * g.s[i] - g.begin[i] + tap[i] * g.d[i]]
InputAt(g, n, c, p) == ((n * g.cIn + c) * g.in[1] + p[1]) * g.in[2] + p[2]

\* Elements of the input and of the weights that meet in output element o.
TapsOf(g, o) ==
  LET e == OfPixel(o, g.cOut, g.out)
      first == (e.m \div (g.cOut \div g.group)) * g.gsi
      inside == {tap \in Cells(g.k) : Within(Under(g, e.p, tap), g.in)}
  IN {<<InputAt(g, e.n, first + t[1], Under(g, e.p, t[2])),
        ((e.m * g.gsi + t[1]) * g.k[1] + t[2][1]) * g.k[2] + t[2][2]>> :
        t \in (0 .. g.gsi - 1) \X inside}

\* Grids that are not launched for an output without elements.
Unless(empty, launches) == IF empty THEN <<>> ELSE launches

----------------------------------------------------------------------------
(* Conv.  One group is a product of matrices, W times columns that are     *)
(* found in the input when they are staged; several are summed directly.   *)

ConvBias(job, m) == IF Len(job.x) < 3 THEN 0 ELSE Load(job.x[3].data, m)

BigGroups(g) == CeilDiv(g.pixels, BigTile) * CeilDiv(g.cOut, BigTile)

ConvSplit(g) ==
  LET depth == g.gsi * g.k[1] * g.k[2]
      split == Min({CeilDiv(SplitTarget, AtLeastOne(BigGroups(g))), SplitCap, depth \div SplitMinSlice})
  IN IF depth < SplitMinK \/ split <= 1 THEN 1 ELSE split

\* Tile of the output that a workgroup computes.
ConvTile(g) == IF ConvSplit(g) > 1 \/ BigGroups(g) >= WorkgroupFloor THEN BigTile ELSE SmallTile

ConvLaunches(g) ==
  LET split == ConvSplit(g)
      gemm == Tiled(AtLeastOne(g.n) * split, g.cOut, g.pixels, ConvTile(g), ConvTile(g))
  IN IF g = Refused THEN Host(<<Refused>>)
     ELSE IF g.group # 1 THEN One("FLOAT", g.shape)
     ELSE Passes(<<Out("FLOAT", g.shape)>>, IF split = 1 THEN <<>> ELSE <<split * g.total>>,
                 Unless(g.total = 0, IF split = 1 THEN <<gemm>> ELSE <<gemm, Linear(g.total)>>))

ConvPlan(job) == ConvLaunches(ConvGeometry(job, job.x[2].shape))

\* Row kk of the column of pixel p in image n, zero outside of the input.
Im2col(g, x, n, kk, p) ==
  LET size == g.k[1] * g.k[2]
      tap == <<(kk % size) \div g.k[2], (kk % size) % g.k[2]>>
      at == Under(g, <<p \div g.out[2], p % g.out[2]>>, tap)
  IN IF Within(at, g.in) THEN Load(x, InputAt(g, n, kk \div size, at)) ELSE 0

\* The second pass over the sums of the slices.
ConvReduced(job, g, parts, o) ==
  Sum(0 .. ConvSplit(g) - 1, LAMBDA s : Load(parts, s * g.total + o))
    + ConvBias(job, (o \div g.pixels) % g.cOut)

Columns(g, x, n, depth) ==
  [i \in 0 .. depth * g.pixels - 1 |-> Im2col(g, x, n, i \div g.pixels, i % g.pixels)]

ConvMatrices(g, tile) ==
  [m |-> g.cOut, k |-> g.cIn * g.k[1] * g.k[2], n |-> g.pixels, tile |-> tile,
   step |-> IF tile = BigTile THEN KStep ELSE SmallTile,
   transA |-> FALSE, transB |-> FALSE, aBase |-> 0, bBase |-> 0]

\* The slices of K of part s of a split.
SlicesOf(p, split, s) ==
  LET part == CeilDiv(Cardinality(Slices(p)), split) IN {t \in Slices(p) : t \div part = s}

ConvSum(job, g, p, split, e) ==
  SliceProduct(job.x[2].data, Columns(g, job.x[1].data, e[1] \div split, p.k), p, e[2], e[3],
               SlicesOf(p, split, e[1] % split))

ConvItem(job, g, split, m, launch, e) ==
  LET place == ((e[1] \div split) * g.cOut + e[2]) * g.pixels + e[3]
      sum == ConvSum(job, g, ConvMatrices(g, ConvTile(g)), split, e)
  IN CASE g.group # 1 ->
            <<1, e, Sum(TapsOf(g, e), LAMBDA t : Load(job.x[1].data, t[1]) * Load(job.x[2].data, t[2]))
                      + ConvBias(job, OfPixel(e, g.cOut, g.out).m)>>
       [] launch = 2 ->
            <<1, e, ConvReduced(job, g, m[2], e)>>
       [] g.group = 1 /\ launch = 1 /\ split = 1 -> <<1, place, sum + ConvBias(job, e[2])>>
       [] OTHER -> <<2, (e[1] % split) * g.total + place, sum>>

ConvStored(job, m, launch, e) ==
  LET g == ConvGeometry(job, job.x[2].shape) IN ConvItem(job, g, ConvSplit(g), m, launch, e)

----------------------------------------------------------------------------
(* ConvTranspose.  W is indexed by the input channel first.                *)

Grown(g, i) ==
  (g.in[i] - 1) * g.s[i] - g.begin[i] - g.end[i] + g.d[i] * (g.k[i] - 1) + 1 + g.extra[i]

Transposed(g, n) == WithOutput(g, [i \in Plane |-> Grown(g, i)], n)

TransposeGeometry(job) ==
  LET x == job.x[1].shape
      w == job.x[2].shape
      n == Len(x) - 2
  IN IF n \notin Plane THEN Refused
     ELSE Transposed(Window(job, x, <<w[2] * job.group>> \o After(w, 1), job.pads, n)
                       @@ [gso |-> w[2], extra |-> Paired(job.outpad, 0)], n)

\* Every output pixel is fed by one place of the kernel at most.
InPhases(job, g) ==
  /\ g.n = 1 /\ g.group = 1 /\ g.total > 0 /\ job.init
  /\ \A d \in DOMAIN job.pads : job.pads[d] = 0
  /\ \A d \in DOMAIN job.outpad : job.outpad[d] = 0
  /\ \A i \in Plane : g.d[i] = 1 /\ g.s[i] >= g.k[i]
  /\ g.cIn * g.cOut * g.out[1] * g.out[2] >= PhaseMinMacs

\* The bias everywhere where the kernel leaves holes, then a product and its
\* scattering for every place of the kernel.
Stages(g) ==
  LET tap(i) == <<(i - 1) \div g.k[2], (i - 1) % g.k[2]>> IN
  (IF g.s[1] > g.k[1] \/ g.s[2] > g.k[2] THEN <<[kind |-> "fill"]>> ELSE <<>>)
    \o FlattenSeq([i \in 1 .. g.k[1] * g.k[2] |->
         <<[kind |-> "product", tap |-> tap(i)], [kind |-> "interleave", tap |-> tap(i)]>>])

\* Where the product's element i belongs.
Strewn(g, tap, i) ==
  LET e == OfPixel(i, g.cOut, g.in)
      p == [d \in Plane |-> e.p[d] * g.s[d] + tap[d]]
  IN [ch |-> e.m, p |-> p]

ConvTransposeLaunches(job, g) ==
  LET n == g.in[1] * g.in[2]
      grid(stage) ==
        CASE stage.kind = "fill" -> Linear(g.total)
          [] stage.kind = "product" -> Tiled(1, g.cOut, n, BigTile, BigTile)
          [] stage.kind = "interleave" ->
               [wg \in DOMAIN Linear(g.cOut * n) |->
                  {i \in Linear(g.cOut * n)[wg] : Within(Strewn(g, stage.tap, i).p, g.out)}]
  IN IF g = Refused THEN Host(<<Refused>>)
     ELSE IF ~InPhases(job, g) THEN One("FLOAT", g.shape)
     ELSE Passes(<<Out("FLOAT", g.shape)>>, <<g.cOut * n>>, [i \in DOMAIN Stages(g) |-> grid(Stages(g)[i])])

ConvTransposePlan(job) == ConvTransposeLaunches(job, TransposeGeometry(job))

\* The places of the input that land on pixel p through a tap, one or none.
Landing(g, p, tap) ==
  LET num == [i \in Plane |-> p[i] + g.begin[i] - tap[i] * g.d[i]] IN
  IF \E i \in Plane : num[i] < 0 \/ num[i] % g.s[i] # 0 THEN {}
  ELSE {at \in {[i \in Plane |-> num[i] \div g.s[i]]} : Within(at, g.in)}

\* One output element, gathered.
ConvTransposeThread(job, g, o) ==
  LET e == OfPixel(o, g.cOut, g.out)
      gsi == g.cIn \div g.group
      weight(c, tap) == Load(job.x[2].data, ((c * g.gso + (e.m % g.gso)) * g.k[1] + tap[1]) * g.k[2] + tap[2])
      through(tap) == Sum(Landing(g, e.p, tap), LAMBDA at :
        Sum((e.m \div g.gso) * gsi .. (e.m \div g.gso + 1) * gsi - 1, LAMBDA c :
          Load(job.x[1].data, InputAt(g, e.n, c, at)) * weight(c, tap)))
  IN Sum(Cells(g.k), through) + ConvBias(job, e.m)

\* PACK_PHASE: the weights of one place of the kernel.
PackedPhase(w, g, tap) ==
  [i \in 0 .. g.cIn * g.cOut - 1 |-> Load(w, i * (g.k[1] * g.k[2]) + tap[1] * g.k[2] + tap[2])]

ConvTransposeItem(job, g, m, launch, e) ==
  LET stage == Stages(g)[launch]
      n == g.in[1] * g.in[2]
      p == [m |-> g.cOut, k |-> g.cIn, n |-> n, tile |-> BigTile, step |-> KStep,
            transA |-> TRUE, transB |-> FALSE, aBase |-> 0, bBase |-> 0]
      to == Strewn(g, stage.tap, e)
  IN IF ~InPhases(job, g) THEN <<1, e, ConvTransposeThread(job, g, e)>>
     ELSE CASE stage.kind = "fill" -> <<1, e, ConvBias(job, e \div (g.out[1] * g.out[2]))>>
            [] stage.kind = "product" ->
                 <<2, e[2] * n + e[3],
                   TileProduct(PackedPhase(job.x[2].data, g, stage.tap), job.x[1].data, p, e[2], e[3])
                     + ConvBias(job, e[2])>>
            [] stage.kind = "interleave" ->
                 <<1, (to.ch * g.out[1] + to.p[1]) * g.out[2] + to.p[2], Load(m[2], e)>>

ConvTransposeStored(job, m, launch, e) ==
  ConvTransposeItem(job, TransposeGeometry(job), m, launch, e)

----------------------------------------------------------------------------
(* ConvInteger: one tap on every pixel is a product of byte matrices.      *)

OneTap(g) ==
  /\ g.group = 1 /\ g.n = 1 /\ g.cIn % WordBytes = 0 /\ g.total > 0
  /\ \A i \in Plane : g.k[i] = 1 /\ g.s[i] = 1 /\ g.d[i] = 1 /\ g.begin[i] = 0 /\ g.end[i] = 0

ConvIntegerLaunches(g) ==
  IF g = Refused THEN Host(<<Refused>>)
  ELSE IF ~OneTap(g) THEN One("INT32", g.shape)
  ELSE Passes(<<Out("INT32", g.shape)>>, <<g.pixels * g.cIn>>,
              <<Tiled(1, g.cIn, g.pixels, SmallTile * WordBytes, SmallTile), ByteTiles(g.cOut, g.pixels)>>)

ConvIntegerPlan(job) == ConvIntegerLaunches(ConvGeometry(job, job.x[2].shape))

\* Zero points, 0 where they are missing: of the input and of the weights.
ZeroPoint(job, i) == IF Len(job.x) < i THEN 0 ELSE Load(job.x[i].data, 0)

\* The weights become A, flipped beforehand if they have a sign, the input B.
ConvIntegerItem(job, g, m, launch, e) ==
  LET x == job.x[1]
      w == job.x[2]
      flipped == [i \in DOMAIN w.data |-> Byte(w.data[i], IsSigned(w))]
      p == [m |-> g.cOut, k |-> g.cIn, n |-> g.pixels, dot4 |-> job.dot4, aFlip |-> FALSE,
            aZero |-> Byte(ZeroPoint(job, 4), IsSigned(w)), bZero |-> Byte(ZeroPoint(job, 3), IsSigned(x))]
  IN CASE ~OneTap(g) ->
            <<1, e, Sum(TapsOf(g, e), LAMBDA t : (Load(x.data, t[1]) - ZeroPoint(job, 3))
                                                   * (Load(w.data, t[2]) - ZeroPoint(job, 4)))>>
       [] OneTap(g) /\ launch = 1 ->
            <<2, e[3] * g.cIn + e[2], Byte(Load(x.data, e[2] * g.pixels + e[3]), IsSigned(x))>>
       [] OTHER -> <<1, e[2] * g.pixels + e[3], ByteProduct(flipped, m[2], p, e[2], e[3])>>

ConvIntegerStored(job, m, launch, e) ==
  ConvIntegerItem(job, ConvGeometry(job, job.x[2].shape), m, launch, e)

----------------------------------------------------------------------------
(* Pooling: the geometry of a convolution of every channel with itself.    *)

PoolGeometry(job) ==
  LET x == job.x[1].shape
      n == Len(x) - 2
      whole == [job EXCEPT !.strides = [d \in 1 .. n |-> 1], !.pads = [d \in 1 .. 2 * n |-> 0]]
  IN IF Len(x) \notin {3, 4} THEN Refused
     ELSE IF job.kind = "GlobalAverage" THEN ConvGeometry([whole EXCEPT !.group = x[2]], <<x[2], 1>> \o After(x, 2))
     ELSE ConvGeometry([job EXCEPT !.group = x[2]], <<x[2], 1>> \o job.ks)

OneOrRefused(g) == IF g = Refused THEN Host(<<Refused>>) ELSE One("FLOAT", g.shape)

PoolPlan(job) == OneOrRefused(PoolGeometry(job))

Pooled(job, taps, cells) ==
  LET count == IF job.includePad THEN cells ELSE Cardinality(taps)
      v(t) == Load(job.x[1].data, t[1])
  IN IF job.kind = "Max" THEN Max({Lowest} \cup {v(t) : t \in taps})
     ELSE (Sum(taps, v) * Unit) \div AtLeastOne(count)

PoolThread(job, o) ==
  LET g == PoolGeometry(job) IN Pooled(job, TapsOf(g, o), g.k[1] * g.k[2])

----------------------------------------------------------------------------
(* Resize.  A coordinate is a quotient <<p, q>>.                           *)

\* Height and width of input and output, and their scales.
ResizeGeometry(job) ==
  LET x == job.x[1].shape
      in == IF Len(x) = 4 THEN <<x[3], x[4]>> ELSE <<1, x[3]>>
      ones == <<1, 1>>
      wide(v, h) == IF Len(x) = 4 THEN <<v[3], v[4]>> ELSE <<h, v[3]>>
      scale == IF job.scales # <<>> THEN wide(job.scales, ones)
               ELSE [i \in Plane |-> <<wide(job.sizes, 1)[i], in[i]>>]
      out == IF job.scales # <<>> THEN [i \in Plane |-> (in[i] * scale[i][1]) \div scale[i][2]] ELSE wide(job.sizes, 1)
  IN CASE Len(x) \notin {3, 4} \/ job.scales \o job.sizes = <<>> -> Refused
       [] job.scales # <<>> /\ (Len(job.scales) # Len(x) \/ job.scales[1] # ones \/ job.scales[2] # ones) -> Refused
       [] job.scales = <<>> /\ (Len(job.sizes) # Len(x) \/ SubSeq(job.sizes, 1, 2) # SubSeq(x, 1, 2)) -> Refused
       [] OTHER -> IF out[1] <= 0 \/ out[2] <= 0 THEN Refused
                   ELSE [in |-> in, scale |-> scale, out |-> out,
                         shape |-> SubSeq(x, 1, 2) \o (IF Len(x) = 4 THEN out ELSE <<out[2]>>)]

ResizePlan(job) == OneOrRefused(ResizeGeometry(job))

SourceAt(coord, o, scale, in, out) ==
  CASE coord = "asymmetric" -> <<o * scale[2], scale[1]>>
    [] coord = "align_corners" -> IF out <= 1 THEN <<0, 1>> ELSE <<o * (in - 1), out - 1>>
    [] coord = "pytorch_half_pixel" /\ out <= 1 -> <<-1, 2>>
    [] OTHER -> <<(2 * o + 1) * scale[2] - scale[1], 2 * scale[1]>>

RoundNearest(mode, v) ==
  CASE mode = "floor" -> v[1] \div v[2]
    [] mode = "ceil"  -> -((-v[1]) \div v[2])
    [] mode = "round_prefer_ceil" -> (2 * v[1] + v[2]) \div (2 * v[2])
    [] OTHER -> -((v[2] - 2 * v[1]) \div (2 * v[2]))

\* The weights of the four neighbours of t / q, in parts of 4 * q^3; a counts quarters.
CubicWeights(a, t, q) ==
  LET far(u) == a * (u * u * u - 5 * u * u * q + 8 * u * q * q - 4 * q * q * q)
      near(u) == (a + 8) * u * u * u - (a + 12) * u * u * q + 4 * q * q * q
  IN <<far(t + q), near(t), near(q - t), far(2 * q - t)>>

\* The element at coordinates v of a plane of the input.
Resampled(job, g, plane, v) ==
  LET low == [i \in Plane |-> v[i][1] \div v[i][2]]
      rest == [i \in Plane |-> v[i][1] % v[i][2]]
      X(y, x) == Load(job.x[1].data, plane + Clamp(y, 0, g.in[1] - 1) * g.in[2] + Clamp(x, 0, g.in[2] - 1))
      Mix(a, b, i) == a * (v[i][2] - rest[i]) + b * rest[i]
      c == [i \in Plane |-> CubicWeights(job.cubic, rest[i], v[i][2])]
      Line(r) == Sum(1 .. 4, LAMBDA s : c[2][s] * X(low[1] + r - 2, low[2] + s - 2))
      cube(i) == 4 * v[i][2] * v[i][2] * v[i][2]
  IN CASE job.mode = "nearest" -> X(RoundNearest(job.nearest, v[1]), RoundNearest(job.nearest, v[2]))
       [] job.mode = "linear" ->
            (Mix(Mix(X(low[1], low[2]), X(low[1], low[2] + 1), 2),
                 Mix(X(low[1] + 1, low[2]), X(low[1] + 1, low[2] + 1), 2), 1) * Unit) \div (v[1][2] * v[2][2])
       [] job.mode = "cubic" -> (Sum(1 .. 4, LAMBDA r : c[1][r] * Line(r)) * Unit) \div (cube(1) * cube(2))

ResizeItem(job, g, o) ==
  LET p == <<(o \div g.out[2]) % g.out[1], o % g.out[2]>> IN
  Resampled(job, g, ((o \div g.out[2]) \div g.out[1]) * g.in[1] * g.in[2],
            [i \in Plane |-> SourceAt(job.coord, p[i], g.scale[i], g.in[i], g.out[i])])

ResizeThread(job, o) == ResizeItem(job, ResizeGeometry(job), o)

----------------------------------------------------------------------------
(* GridSample: bilinear.  Coordinates of the grid count quarters.          *)

GridSamplePlan(job) ==
  LET x == job.x[1].shape
      grid == job.x[2].shape
  IN IF Len(x) # 4 \/ Len(grid) # 4 THEN Host(<<Refused>>)
     ELSE IF grid[4] # 2 \/ grid[1] # x[1] THEN Host(<<Refused>>)
     ELSE LET out == <<x[1], x[2], grid[2], grid[3]>> IN
          Device(<<Out("FLOAT", out)>>, Unless(Product(out) = 0, <<Folding(Product(out))>>))

\* In eighths of an element.
Unnormalized(align, v, len) == IF align THEN (v + 4) * (len - 1) ELSE (v + 4) * len - 4

GridSampleThread(job, o) ==
  LET x == job.x[1].shape
      in == <<x[3], x[4]>>
      out == <<job.x[2].shape[2], job.x[2].shape[3]>>
      e == OfPixel(o, x[2], out)
      first == ((e.n * out[1] + e.p[1]) * out[2] + e.p[2]) * 2
      f == <<Unnormalized(job.align, Load(job.x[2].data, first + 1), in[1]),
             Unnormalized(job.align, Load(job.x[2].data, first), in[2])>>
      Sample(at) ==
        LET to == [i \in Plane |-> IF job.border THEN Clamp(at[i], 0, in[i] - 1) ELSE at[i]] IN
        IF Within(to, in) THEN Load(job.x[1].data, ((e.n * x[2] + e.m) * in[1] + to[1]) * in[2] + to[2]) ELSE 0
      Corner(a, b) == Sample(<<(f[1] \div 8) + a, (f[2] \div 8) + b>>)
      Mix(a, b, i) == a * (8 - (f[i] % 8)) + b * (f[i] % 8)
  IN Mix(Mix(Corner(0, 0), Corner(0, 1), 2), Mix(Corner(1, 0), Corner(1, 1), 2), 1)

=============================================================================
