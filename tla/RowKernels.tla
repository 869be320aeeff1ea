------------------------------- MODULE RowKernels -------------------------------
(***************************************************************************)
(* Operators over rows (interp.rs): reductions, normalizations, ArgMax and *)
(* the attention of groups of queries, with their shaders                  *)
(* (shaders/reduction.rs, normalization.rs, argmax.rs,                     *)
(* group_query_attention.rs).                                              *)
(***************************************************************************)
EXTENDS DevicePlan

CONSTANTS
  MaxRows,       \* rows of a normalization, one workgroup each
  MaxContext,    \* positions that attention keeps in shared memory
  PairedDim      \* head dimension of the interleaved layout of queries and keys

Lowest == -99999

\* The first element of row r of rows of c elements that are inner apart.
RowBase(r, c, inner) == (r \div inner) * c * inner + (r % inner)

----------------------------------------------------------------------------
(* Reductions of f32, one thread per row; of other dtypes on the host.     *)

ReduceAxis(job) == Axis(job.axis, Rank(job.x[1]))

ReducePlan(job) ==
  LET x == job.x[1]
      rows == Size(x) \div AtLeastOne(x.shape[ReduceAxis(job)])
      shape == Reduced(x.shape, ReduceAxis(job), job.keepdims)
  IN CASE ~IsAxis(job.axis, Rank(x)) -> Host(<<Refused>>)
       [] IsAxis(job.axis, Rank(x)) /\ IsFloat(x) ->
            Device(<<Out("FLOAT", shape)>>, <<Folding(rows)>>)
       [] OTHER -> Host(<<Reduce(x, ReduceAxis(job), job.fn, job.keepdims)>>)

ReduceThread(job, r) ==
  LET x == job.x[1]
      c == x.shape[ReduceAxis(job)]
      inner == Inner(x, ReduceAxis(job))
  IN Folded(job.fn, [k \in 1 .. c |-> Load(x.data, RowBase(r, c, inner) + (k - 1) * inner)])

----------------------------------------------------------------------------
(* Softmax along any axis, ArgMax along the last: a workgroup per row.     *)

SoftmaxAxis(job) == Axis(job.axis, Rank(job.x[1]))

SoftmaxPlan(job) ==
  LET x == job.x[1] IN
  IF ~IsAxis(job.axis, Rank(x)) THEN Host(<<Refused>>)
  ELSE Teams(<<Out("FLOAT", x.shape)>>, Tree(1) \o <<Barrier>> \o Tree(2) \o <<Store>>,
             PerRow(IF x.shape[SoftmaxAxis(job)] = 0 THEN 0 ELSE Size(x) \div x.shape[SoftmaxAxis(job)]))

SoftmaxPlace(job, r, i) ==
  RowBase(r, job.x[1].shape[SoftmaxAxis(job)], Inner(job.x[1], SoftmaxAxis(job)))
    + i * Inner(job.x[1], SoftmaxAxis(job))

SoftmaxPart(job, r, pass, lane, taken) ==
  LET v(i) == Load(job.x[1].data, SoftmaxPlace(job, r, i))
      mine == Strided(job.x[1].shape[SoftmaxAxis(job)], lane)
  IN IF pass = 1 THEN Max({Lowest} \cup {v(i) : i \in mine})
                 ELSE Sum(mine, LAMBDA i : Exp(v(i) - taken[1]))

SoftmaxStores(job, r, lane, taken) ==
  {<<1, SoftmaxPlace(job, r, i),
     (Exp(Load(job.x[1].data, SoftmaxPlace(job, r, i)) - taken[1]) * Unit) \div taken[2]>> :
     i \in Strided(job.x[1].shape[SoftmaxAxis(job)], lane)}

\* Elements of the last dimension, and rows of them.
Width(x)  == IF x.shape = <<>> THEN 1 ELSE Last(x.shape)
Height(x) == Size(x) \div AtLeastOne(Width(x))

ArgMaxPlan(job) ==
  LET x == job.x[1] IN
  IF Rank(x) = 0 \/ Axis(job.axis, Rank(x)) # Rank(x) \/ job.keepdims \/ ~IsFloat(x)
    THEN Host(<<Refused>>)
    ELSE Teams(<<Out("INT64", Front(x.shape))>>, Tree(1) \o <<Store>>, PerRow(Height(x)))

\* The first largest of the elements that a lane visits, in its order.
ArgMaxPart(job, r, lane) ==
  LET v(k) == Load(job.x[1].data, r * Width(job.x[1]) + k)
      mine == Strided(Width(job.x[1]), lane)
      best == Max({Lowest} \cup {v(k) : k \in mine})
  IN <<best, Min({k \in mine : v(k) = best} \cup IF best = Lowest THEN {0} ELSE {})>>

\* Mutant: the merge keeps its own of two equal ones.
ArgMaxMergeOwn(a, b) == IF b[1] > a[1] THEN b ELSE a

ArgMaxMerge(a, b) ==
  IF b[1] > a[1] \/ (b[1] = a[1] /\ b[2] < a[2]) THEN b ELSE a

----------------------------------------------------------------------------
(* Normalizations of the last dimension.                                   *)

Normalized(job) ==
  Teams(<<Out("FLOAT", job.x[1].shape)>>, Tree(1) \o <<Store>>, PerRow(Height(job.x[1])))

LayerNormPlan(job) ==
  LET x == job.x[1] IN
  IF Axis(job.axis, Rank(x)) # Rank(x) \/ Height(x) > MaxRows \/ Size(job.x[2]) # Width(x)
    THEN Host(<<Refused>>) ELSE Normalized(job)

RMSNormPlan(job) ==
  IF Height(job.x[1]) > MaxRows \/ Size(job.x[2]) # Width(job.x[1])
    THEN Host(<<Refused>>) ELSE Normalized(job)

SkipRMSNormPlan(job) ==
  IF \/ job.x[2].shape # job.x[1].shape \/ Height(job.x[1]) > MaxRows
     \/ Size(job.x[3]) # Width(job.x[1])
    THEN Host(<<Refused>>) ELSE Normalized(job)

\* What a row is normalized by: the sums of its elements and of their squares.
RowValue(job, r, i) ==
  LET at == r * Width(job.x[1]) + i IN
  IF job.op = "SkipRMSNorm" THEN Load(job.x[1].data, at) + Load(job.x[2].data, at)
                            ELSE Load(job.x[1].data, at)
NormPart(job, r, lane) ==
  LET mine == Strided(Width(job.x[1]), lane)
      v(i) == RowValue(job, r, i)
  IN <<Sum(mine, v), Sum(mine, LAMBDA i : v(i) * v(i))>>
NormMerge(a, b) == <<a[1] + b[1], a[2] + b[2]>>

\* Mutant: the mean of the squares alone, without the square of the mean.
SpreadOfSquares(c, sums) == c * sums[2]

\* c times c the variance, in one pass: the mean of squares less the squared mean.
Spread(c, sums) == c * sums[2] - sums[1] * sums[1]

LayerNormStores(job, r, lane, sums) ==
  LET c == Width(job.x[1])
      bias(i) == IF Len(job.x) > 2 THEN Load(job.x[3].data, i) ELSE 0
      v(i) == ((c * RowValue(job, r, i) - sums[1]) * Unit) \div Root(Spread(c, sums) + job.eps)
  IN {<<1, r * c + i, v(i) * Load(job.x[2].data, i) + bias(i)>> : i \in Strided(c, lane)}

RMSNormStores(job, r, lane, sums) ==
  LET c == Width(job.x[1])
      scale == job.x[IF job.op = "SkipRMSNorm" THEN 3 ELSE 2]
      v(i) == (RowValue(job, r, i) * Unit) \div Root((sums[2] \div c) + job.eps)
  IN {<<1, r * c + i, v(i) * Load(scale.data, i)>> : i \in Strided(c, lane)}

\* Batch normalization: x, scale, bias, mean, variance; one thread per element.
BatchNormPlan(job) ==
  LET x == job.x[1] IN
  IF Rank(x) < 2 \/ \E i \in 2 .. 5 : Size(job.x[i]) # x.shape[2]
    THEN Host(<<Refused>>) ELSE One("FLOAT", x.shape)

BatchNormThread(job, o) ==
  LET x == job.x[1]
      c == (o \div Product(SubSeq(x.shape, 3, Rank(x)))) % x.shape[2]
      p(i) == Load(job.x[i].data, c)
  IN (((Load(x.data, o) - p(4)) * Unit) \div Root(p(5) + job.eps)) * p(2) + p(3)

----------------------------------------------------------------------------
(* Clip and the functions of one element.                                  *)

\* Bounds travel as scalars; anything but floats is bounded on the host.
Bounded(x, bound, dtype, op) ==
  IF bound = <<>> THEN x ELSE Binary(x, New(dtype, <<>>, [i \in {0} |-> bound[1]]), op)

ClipPlan(job) ==
  LET x == job.x[1] IN
  IF IsFloat(x) THEN One("FLOAT", x.shape)
  ELSE Host(<<Bounded(Bounded(x, job.low, x.dtype, "Max"), job.high, x.dtype, "Min")>>)

ClipThread(job, o) ==
  LET x == Load(job.x[1].data, o)
      above == IF job.low = <<>> \/ x > job.low[1] THEN x ELSE job.low[1]
  IN IF job.high = <<>> \/ above < job.high[1] THEN above ELSE job.high[1]

\* The expression of an operator, of which order and sign are kept.
Function(fn, v, alpha) ==
  CASE fn = "Relu"      -> IF v > 0 THEN v ELSE 0
    [] fn = "LeakyRelu" -> IF v >= 0 THEN v ELSE alpha * v
    [] fn = "Neg"       -> -v
    [] fn = "Abs"       -> Magnitude(v)
    [] fn = "Sqrt"      -> Root(v)
    [] fn = "Exp"       -> Exp(v)

UnaryPlan(job) == One("FLOAT", job.x[1].shape)
UnaryThread(job, o) == Function(job.fn, Load(job.x[1].data, o), job.alpha)

=============================================================================
