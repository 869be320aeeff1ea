---------------------------- MODULE MovementKernels ----------------------------
(***************************************************************************)
(* Operators that move, select, convert or combine single elements         *)
(* (interp.rs), on the host or on the device, and the shaders of the       *)
(* device path (shaders/movement.rs, shaders/elementwise.rs).              *)
(***************************************************************************)
EXTENDS DevicePlan

CONSTANTS
  SmallHost,   \* elements of a tensor on the host that is small
  TileRows, TileCols   \* of the tiled transpose on the host

----------------------------------------------------------------------------
(* Transpose.                                                              *)

Permuted(s, perm) == [d \in DOMAIN perm |-> s[perm[d]]]

TransposedFrom(x, perm, o) ==
  Dot(Walk(Permuted(x.shape, perm), o), Permuted(Strides(x.shape), perm))

\* The tile that element o of the result lies in, transposed by way of a small buffer.
TiledFrom(x, o) ==
  LET rows == x.shape[1]
      cols == x.shape[2]
      i == o % rows
      j == o \div rows
      i0 == (i \div TileRows) * TileRows
      j0 == (j \div TileCols) * TileCols
      tc == IF cols - j0 < TileCols THEN cols - j0 ELSE TileCols
      inTile == (i - i0) * tc + (j - j0)
  IN (i0 + inTile \div tc) * cols + j0 + (inTile % tc)

HostTransposed(x, perm) ==
  IF perm = <<2, 1>> THEN Moved(x, Permuted(x.shape, perm), LAMBDA o : TiledFrom(x, o))
  ELSE Moved(x, Permuted(x.shape, perm), LAMBDA o : TransposedFrom(x, perm, o))

TransposePlan(job) ==
  LET x == job.x[1]
      words == OnDevice(job, 1) /\ ElemSize(x.dtype) = 4
  IN CASE Len(job.perm) # Rank(x) \/ (words /\ Rank(x) > MaxRank) -> Host(<<Refused>>)
       [] Len(job.perm) = Rank(x) /\ words /\ Rank(x) <= MaxRank ->
            One(x.dtype, Permuted(x.shape, job.perm))
       [] OTHER -> Host(<<HostTransposed(x, job.perm)>>)

TransposeThread(job, o) == Load(job.x[1].data, TransposedFrom(job.x[1], job.perm, o))

----------------------------------------------------------------------------
(* Concat: one launch for each input that is not empty.                    *)

ConcatAxis(job)   == Axis(job.axis, Rank(job.x[1]))
ConcatOffset(job, j) == Total([i \in 1 .. j - 1 |-> job.x[i].shape[ConcatAxis(job)]])
ConcatShape(job) ==
  [job.x[1].shape EXCEPT ![ConcatAxis(job)] = ConcatOffset(job, Len(job.x) + 1)]

ConcatPlan(job) ==
  CASE IsFloat(job.x[1]) /\ ~IsAxis(job.axis, Rank(job.x[1])) -> Host(<<Refused>>)
    [] IsFloat(job.x[1]) /\ IsAxis(job.axis, Rank(job.x[1])) ->
         Device(<<Out("FLOAT", ConcatShape(job))>>,
                [j \in DOMAIN job.x |-> Linear(Size(job.x[j]))])
    [] OTHER -> Host(<<Concat(job.x, job.axis)>>)

\* Where element e of input j goes.
ConcatPlace(job, j, e) ==
  LET a == ConcatAxis(job)
      inner == Product(After(job.x[1].shape, a))
      length == job.x[j].shape[a]
      step == e \div inner
  IN (step \div length) * (ConcatShape(job)[a] * inner)
       + (ConcatOffset(job, j) + (step % length)) * inner + (e % inner)

----------------------------------------------------------------------------
(* Gather, Pad, Where, Slice, Split: f32 on the device, the rest on the host. *)

\* The device path normalizes the indices but does not look at their range.
GatherPlan(job) ==
  LET x == job.x[1]
      a == Axis(job.axis, Rank(x))
  IN CASE IsFloat(x) /\ ~IsAxis(job.axis, Rank(x)) -> Host(<<Refused>>)
       [] IsFloat(x) /\ IsAxis(job.axis, Rank(x)) ->
            One("FLOAT", Before(x.shape, a) \o job.x[2].shape \o After(x.shape, a))
       [] OTHER -> Host(<<Gather(x, job.x[2], job.axis)>>)

GatherThread(job, o) ==
  LET x == job.x[1]
      a == Axis(job.axis, Rank(x))
      inner == Inner(x, a)
      count == AtLeastOne(Size(job.x[2]))
      row == Indices(job.x[2], x.shape[a])[(o \div inner) % count]
  IN Load(x.data, (o \div (inner * count)) * (x.shape[a] * inner) + row * inner + (o % inner))

PadBegins(job) == SubSeq(job.pads, 1, Rank(job.x[1]))
PadEnds(job)   == SubSeq(job.pads, Rank(job.x[1]) + 1, Len(job.pads))

PadPlan(job) ==
  LET x == job.x[1] IN
  CASE job.mode # "constant" \/ Len(job.pads) # 2 * Rank(x) -> Host(<<Refused>>)
    [] job.mode = "constant" /\ Len(job.pads) = 2 * Rank(x) /\ IsFloat(x) ->
         One("FLOAT", [d \in DOMAIN x.shape |-> x.shape[d] + PadBegins(job)[d] + PadEnds(job)[d]])
    [] OTHER -> Host(<<Pad(x, PadBegins(job), PadEnds(job), job.value)>>)

PadThread(job, o) ==
  LET x == job.x[1]
      out == [d \in DOMAIN x.shape |-> x.shape[d] + PadBegins(job)[d] + PadEnds(job)[d]]
      inside == [d \in DOMAIN out |-> Walk(out, o)[d] - PadBegins(job)[d]]
  IN IF \E d \in DOMAIN out : inside[d] < 0 \/ inside[d] >= x.shape[d] THEN job.value
     ELSE Load(x.data, Dot(inside, Strides(x.shape)))

WhereShape(job) == Joined(Joined(job.x[1].shape, job.x[2].shape), job.x[3].shape)

WherePlan(job) ==
  LET cond == job.x[1]
      x == job.x[2]
      y == job.x[3]
  IN CASE \/ ~Broadcastable(cond.shape, x.shape)
          \/ ~Broadcastable(Joined(cond.shape, x.shape), y.shape) -> Host(<<Refused>>)
       [] Broadcastable(cond.shape, x.shape) /\ IsFloat(x)
            /\ Broadcastable(Joined(cond.shape, x.shape), y.shape) -> One("FLOAT", WhereShape(job))
       [] OTHER -> Host(<<Where(cond, x, y, WhereShape(job))>>)

WhereThread(job, o) ==
  LET out == WhereShape(job)
      At(t) == Dot(Walk(out, o), BcastStrides(t.shape, out))
  IN IF Load(job.x[1].data, At(job.x[1])) # 0 THEN Load(job.x[2].data, At(job.x[2]))
                                              ELSE Load(job.x[3].data, At(job.x[3]))

\* The element that thread o of the slice kernel reads.
SliceFrom(x, params, o) ==
  Dot([d \in DOMAIN x.shape |-> params.start[d] + Walk(params.out, o)[d] * params.step[d]],
      Strides(x.shape))

SliceOf(job) == SliceParams(job.x[1].shape, job.starts, job.ends, job.axes, job.steps)

SlicePlan(job) ==
  CASE SliceOf(job) = Refused -> Host(<<Refused>>)
    [] SliceOf(job) # Refused /\ IsFloat(job.x[1]) -> One("FLOAT", SliceOf(job).out)
    [] OTHER -> Host(<<Slice(job.x[1], SliceOf(job))>>)

SliceThread(job, o) == Load(job.x[1].data, SliceFrom(job.x[1], SliceOf(job), o))

\* Split: sizes given, or equal ones when the axis divides.
SplitSizes(job) ==
  IF job.sizes # <<>> THEN job.sizes
  ELSE [j \in 1 .. job.outputs |-> job.x[1].shape[Axis(job.axis, Rank(job.x[1]))] \div job.outputs]

SplitPart(job, j) ==
  LET shape == job.x[1].shape
      a == Axis(job.axis, Len(shape))
      sizes == SplitSizes(job)
  IN [out   |-> [shape EXCEPT ![a] = sizes[j]],
      start |-> [d \in DOMAIN shape |-> IF d = a THEN Total(SubSeq(sizes, 1, j - 1)) ELSE 0],
      step  |-> [d \in DOMAIN shape |-> 1]]

SplitPlan(job) ==
  LET x == job.x[1]
      dim == x.shape[Axis(job.axis, Rank(x))]
      sizes == SplitSizes(job)
  IN CASE \/ ~IsAxis(job.axis, Rank(x))
          \/ job.sizes = <<>> /\ sizes[1] * job.outputs # dim
          \/ Len(sizes) # job.outputs -> Host([j \in 1 .. job.outputs |-> Refused])
       [] OTHER ->
            IF IsFloat(x)
              THEN Device([j \in DOMAIN sizes |-> Out("FLOAT", SplitPart(job, j).out)],
                          [j \in DOMAIN sizes |-> Linear(Product(SplitPart(job, j).out))])
              ELSE Host([j \in DOMAIN sizes |-> Slice(x, SplitPart(job, j))])

SplitThread(job, j, o) == Load(job.x[1].data, SliceFrom(job.x[1], SplitPart(job, j), o))

----------------------------------------------------------------------------
(* Cast and the binary operators.                                          *)

\* Words on the device are converted there, or copied when the dtype stays.
CastPlan(job) ==
  LET x == job.x[1] IN
  IF OnDevice(job, 1) /\ {x.dtype, job.to} \subseteq {"FLOAT", "INT32"}
    THEN One(job.to, x.shape)
    ELSE Host(<<Cast(x, job.to)>>)

CastThread(job, o) ==
  LET x == job.x[1] IN
  CASE x.dtype = job.to  -> Load(x.data, o)
    [] x.dtype = "INT32" /\ job.to = "FLOAT" -> 2 * Load(x.data, o)
    [] x.dtype = "FLOAT" /\ job.to = "INT32" -> Truncated(Load(x.data, o), 2)

\* Floats go to the device, unless both are small and on the host: shape arithmetic.
BinaryPlan(job) ==
  LET a == job.x[1]
      b == job.x[2]
      small == \A i \in 1 .. 2 : ~OnDevice(job, i) /\ Size(job.x[i]) <= SmallHost
      device == IsFloat(a) /\ IsFloat(b) /\ ~small
  IN CASE device /\ (~Broadcastable(a.shape, b.shape) \/ Len(Joined(a.shape, b.shape)) > MaxRank) ->
            Host(<<Refused>>)
       [] device /\ Broadcastable(a.shape, b.shape) /\ Len(Joined(a.shape, b.shape)) <= MaxRank ->
            One("FLOAT", Joined(a.shape, b.shape))
       [] ~device -> Host(<<Binary(a, b, job.fn)>>)

BinaryItem(job, bc, c) ==
  Scalar(job.fn, TRUE, Load(job.x[1].data, Dot(c, bc.a)), Load(job.x[2].data, Dot(c, bc.b)))

BinaryThread(job, o) ==
  LET bc == Broadcast(job.x[1].shape, job.x[2].shape) IN BinaryItem(job, bc, Unwind(bc.strides, o))

----------------------------------------------------------------------------
(* Operators that change the shape and keep the elements: on the device the *)
(* buffer is copied, so that no two values share an owned one.             *)

ReshapeTo(shape, target) ==
  LET dim(d) == IF target[d] = 0 THEN shape[d] ELSE target[d]
      free == {d \in DOMAIN target : dim(d) = -1}
      known == Product([d \in DOMAIN target |-> IF d \in free THEN 1 ELSE dim(d)])
  IN CASE \/ \E d \in DOMAIN target : target[d] = 0 /\ d \notin DOMAIN shape
          \/ Cardinality(free) > 1
          \/ free # {} /\ (known = 0 \/ Product(shape) % known # 0) -> <<-1>>
       [] OTHER -> [d \in DOMAIN target |-> IF d \in free THEN Product(shape) \div known ELSE dim(d)]

FlattenTo(shape, axis) ==
  LET split == Wrapped(axis, Len(shape)) IN
  IF split \notin 0 .. Len(shape) THEN <<-1>>
  ELSE <<Product(SubSeq(shape, 1, split)), Product(SubSeq(shape, split + 1, Len(shape)))>>

\* Ones at the named places, the old dimensions at the others, in order.
UnsqueezeTo(shape, axes) ==
  LET rank == Len(shape) + Len(axes)
      ones == {Wrapped(axes[i], rank) + 1 : i \in DOMAIN axes}
      old(d) == d - Cardinality({e \in ones : e < d})
  IN IF \E d \in (1 .. rank) \ ones : old(d) > Len(shape) THEN <<-1>>
     ELSE [d \in 1 .. rank |-> IF d \in ones THEN 1 ELSE shape[old(d)]]

\* The named dimensions go, or all that are one when none is named.
SqueezeTo(shape, axes) ==
  LET rank == Len(shape)
      gone == IF axes = <<>> THEN {d \in DOMAIN shape : shape[d] = 1}
                             ELSE {Wrapped(axes[i], rank) + 1 : i \in DOMAIN axes}
      kept == SelectSeq([d \in DOMAIN shape |-> d], LAMBDA d : d \notin gone)
  IN [i \in DOMAIN kept |-> shape[kept[i]]]

NewShape(job) ==
  LET shape == job.x[1].shape IN
  CASE job.op = "Reshape"   -> ReshapeTo(shape, job.target)
    [] job.op = "Flatten"   -> FlattenTo(shape, job.axis)
    [] job.op = "Unsqueeze" -> UnsqueezeTo(shape, job.axes)
    [] job.op = "Squeeze"   -> SqueezeTo(shape, job.axes)

MetaPlan(job) ==
  LET x == job.x[1] IN
  CASE NewShape(job) = <<-1>> -> Host(<<Refused>>)
    [] NewShape(job) # <<-1>> /\ OnDevice(job, 1) ->
         Device(<<Out(x.dtype, NewShape(job))>>, <<Linear(Size(x))>>)
    [] OTHER -> Host(<<New(x.dtype, NewShape(job), x.data)>>)

\* Shape reads metadata only, wherever the tensor resides.
ShapeOf(shape, start, end) ==
  LET place(v) == Clamp(Wrapped(v, Len(shape)), 0, Len(shape))
      dims == SubSeq(shape, place(start) + 1, place(end))
  IN New("INT64", <<Len(dims)>>, [i \in 0 .. Len(dims) - 1 |-> dims[i + 1]])

\* Range counts in floating point; anything but floats comes out as INT64.
RangeOf(start, limit, delta) ==
  LET s == ToFloat(start)[0]
      l == ToFloat(limit)[0]
      d == ToFloat(delta)[0]
      count == IF d > 0 THEN CeilDiv(l - s, d) ELSE CeilDiv(s - l, -d)
      v == [i \in 0 .. count - 1 |-> s + i * d]
  IN CASE d = 0 -> Refused
       [] d # 0 /\ IsFloat(start) -> New("FLOAT", <<IF count > 0 THEN count ELSE 0>>, v)
       [] d # 0 /\ ~IsFloat(start) ->
            New("INT64", <<IF count > 0 THEN count ELSE 0>>, [i \in DOMAIN v |-> Truncated(v[i], 2)])

=============================================================================
