-------------------------------- MODULE HostOps --------------------------------
(***************************************************************************)
(* The operators that run on the host (host_ops.rs): conversions, shape    *)
(* arithmetic, comparison, and the movement of elements of any dtype.      *)
(* An operator returns a tensor, or is Refused: by an error or a panic.     *)
(***************************************************************************)
EXTENDS Tensors

\* Bytes of an element, 0 for a dtype whose elements have no fixed size here.
ElemSize(dtype) ==
  CASE dtype \in {"BOOL", "UINT8", "INT8"} -> 1
    [] dtype = "FLOAT16" -> 2
    [] dtype \in {"FLOAT", "INT32"} -> 4
    [] dtype = "INT64" -> 8
    [] OTHER -> 0

Integral(dtype) == dtype \in {"INT64", "INT32", "BOOL"}

Numeric(x) == x.dtype \in {"INT64", "INT32", "BOOL", "UINT8", "INT8", "FLOAT"}

\* HostTensor::validate: the storage is as long as dtype and shape say.
Valid(x) == Concrete(x.shape) /\ ElemSize(x.dtype) > 0 /\ Size(x) = Count(x)

\* to_i64 truncates floats; to_f32 keeps them and widens the rest.
ToInt(x) ==
  [i \in DOMAIN x.data |->
     CASE x.dtype = "FLOAT" -> Truncated(x.data[i], 2)
       [] x.dtype = "BOOL"  -> IF x.data[i] # 0 THEN 1 ELSE 0
       [] OTHER -> x.data[i]]
ToFloat(x) == [i \in DOMAIN x.data |-> IF x.dtype = "FLOAT" THEN x.data[i] ELSE 2 * ToInt(x)[i]]

Cast(x, to) ==
  IF ~Valid(x) THEN Refused
  ELSE IF x.dtype = to THEN x
  ELSE IF ~Numeric(x) THEN Refused
  ELSE CASE to = "FLOAT" -> New(to, x.shape, ToFloat(x))
         [] to \in {"INT64", "INT32"} -> New(to, x.shape, ToInt(x))
         [] to = "BOOL" -> New(to, x.shape, [i \in DOMAIN x.data |-> IF ToInt(x)[i] # 0 THEN 1 ELSE 0])
         [] OTHER -> Refused

----------------------------------------------------------------------------
(* Along one axis.                                                         *)

\* The elements of row r: the rows of the axes before and after are numbered together.
Row(x, a, r) ==
  LET c == x.shape[a]
      inner == AtLeastOne(Product(After(x.shape, a)))
  IN [k \in 1 .. c |-> (r \div inner) * c * inner + (r % inner) + (k - 1) * inner]

Rows(x, a)    == Size(x) \div AtLeastOne(x.shape[a])
Inner(x, a)   == AtLeastOne(Product(After(x.shape, a)))
RowOf(x, a, i)  == (i \div (x.shape[a] * Inner(x, a))) * Inner(x, a) + (i % Inner(x, a))
StepOf(x, a, i) == ((i \div Inner(x, a)) % x.shape[a]) + 1

Reduced(shape, a, keepdims) ==
  IF keepdims THEN [shape EXCEPT ![a] = 1] ELSE Before(shape, a) \o After(shape, a)

\* What a reduction makes of a row of integers.
Folded(op, row) ==
  CASE op = "Sum"  -> Total(row)
    [] op = "Mean" -> Truncated(Total(row), AtLeastOne(Len(row)))
    [] op = "Max"  -> Max(ToSet(row))
    [] op = "Min"  -> Min(ToSet(row))

\* Reductions of tensors that are not f32; a points at an axis already.
Reduce(x, a, op, keepdims) ==
  IF a \notin 1 .. Rank(x) \/ ~Valid(x) \/ ~Numeric(x) THEN Refused
  ELSE LET v == ToInt(x)
           Value(r) == Folded(op, [k \in 1 .. x.shape[a] |-> v[Row(x, a, r)[k]]])
       IN Cast(New("INT64", Reduced(x.shape, a, keepdims), Tabulate(Rows(x, a), Value)), x.dtype)

CumSum(x, axis, exclusive, reverse) ==
  IF ~Valid(x) \/ ~IsAxis(axis, Rank(x)) \/ ~Numeric(x) THEN Refused
  ELSE LET a == Axis(axis, Rank(x))
           v == IF x.dtype = "FLOAT" THEN x.data ELSE ToInt(x)
           Value(i) ==
             LET row == Row(x, a, RowOf(x, a, i))
                 at == StepOf(x, a, i)
                 walked == IF reverse THEN at + 1 .. x.shape[a] ELSE 1 .. at - 1
             IN MapThenSumSet(LAMBDA k : v[row[k]], walked)
                  + (IF exclusive THEN 0 ELSE v[i])
           sums == Tabulate(Size(x), Value)
       IN IF x.dtype = "FLOAT" THEN New("FLOAT", x.shape, sums)
                               ELSE Cast(New("INT64", x.shape, sums), x.dtype)

\* Equal values in the order of their positions: sort by value, then by index.
Ranked(row, largest) ==
  SortSeq([k \in DOMAIN row |-> k],
          LAMBDA i, j : \/ row[i] # row[j] /\ (row[i] > row[j]) = largest
                        \/ row[i] = row[j] /\ i < j)

\* TopK returns values and indices; its rows are produced one after the other and
\* put back where they belong.  The number of rows is divided by an axis of no length.
TopK(x, k, axis, largest) ==
  IF ~Valid(x) \/ ~IsAxis(axis, Rank(x)) \/ ~Numeric(x)
     \/ k > x.shape[Axis(axis, Rank(x))] \/ x.shape[Axis(axis, Rank(x))] = 0
    THEN <<Refused, Refused>>
    ELSE LET a == Axis(axis, Rank(x))
             v == ToFloat(x)
             shape == [x.shape EXCEPT ![a] = k]
             best(r) == Ranked([j \in 1 .. x.shape[a] |-> v[Row(x, a, r)[j]]], largest)
             order == [r \in 0 .. Rows(x, a) - 1 |-> best(r)]
             inner == Inner(x, a)
             RowAt(i) == (i \div (k * inner)) * inner + (i % inner)
             Chosen(i) == order[RowAt(i)][((i \div inner) % k) + 1]
             Value(i) == v[Row(x, a, RowAt(i))[Chosen(i)]]
             Index(i) == Chosen(i) - 1
         IN <<Cast(New("FLOAT", shape, Tabulate(Product(shape), Value)), x.dtype),
              New("INT64", shape, Tabulate(Product(shape), Index))>>

----------------------------------------------------------------------------
(* Elementwise.                                                            *)

Power(x, n) == FoldLeft(LAMBDA p, m : p * x, 1, [i \in 1 .. n |-> i])

\* Two numbers of one domain; a product of two counts of halves is a count of quarters.
Scalar(op, float, x, y) ==
  CASE op = "Add" -> x + y
    [] op = "Sub" -> x - y
    [] op = "Mul" -> IF float THEN Truncated(x * y, 2) ELSE x * y
    [] op = "Div" -> IF float THEN Truncated(2 * x, y) ELSE Truncated(x, y)
    [] op = "Pow" -> Power(x, y)
    [] op = "Min" -> IF x < y THEN x ELSE y
    [] op = "Max" -> IF x < y THEN y ELSE x

Compared(op, x, y) ==
  CASE op = "Equal"       -> x = y
    [] op = "Less"        -> x < y
    [] op = "Greater"     -> x > y
    [] op = "LessOrEqual" -> x <= y
    [] op = "And"         -> x # 0 /\ y # 0

\* Pairs of elements of two tensors that are stretched to one shape.
Matched(x, y, bc) ==
  [i \in 0 .. Product(bc.out) - 1 |->
     <<x[Dot(Unwind(bc.strides, i), bc.a)], y[Dot(Unwind(bc.strides, i), bc.b)]>>]

Pairs(a, b, float) ==
  Matched(IF float THEN ToFloat(a) ELSE ToInt(a), IF float THEN ToFloat(b) ELSE ToInt(b),
          Broadcast(a.shape, b.shape))

Float(a, b) == ~(Integral(a.dtype) /\ Integral(b.dtype))

Operable(a, b) ==
  Broadcast(a.shape, b.shape) # Refused /\ Valid(a) /\ Valid(b) /\ Numeric(a) /\ Numeric(b)

Combined(op, float, pairs, out) ==
  IF ~float /\ \E i \in DOMAIN pairs : \/ op = "Div" /\ pairs[i][2] = 0
                                       \/ op = "Pow" /\ pairs[i][2] < 0
    THEN Refused
    ELSE New(IF float THEN "FLOAT" ELSE "INT64", out,
             [i \in DOMAIN pairs |-> Scalar(op, float, pairs[i][1], pairs[i][2])])

\* Two integral operands give INT64, whatever their width; anything else floats.
Binary(a, b, op) ==
  IF ~Operable(a, b) THEN Refused
  ELSE Combined(op, Float(a, b), Pairs(a, b, Float(a, b)), Joined(a.shape, b.shape))

AllCompared(op, pairs) ==
  [i \in DOMAIN pairs |-> IF Compared(op, pairs[i][1], pairs[i][2]) THEN 1 ELSE 0]

Compare(a, b, op) ==
  IF ~Operable(a, b) THEN Refused
  ELSE New("BOOL", Joined(a.shape, b.shape), AllCompared(op, Pairs(a, b, Float(a, b))))

\* The remainder of C, and what fmod = 0 makes of it: the sign of the divisor.
Remainder(x, y) == x - y * Truncated(x, y)
Mod(x, y, fmod) ==
  LET r == Remainder(x, y) IN
  IF ~fmod /\ r # 0 /\ (r < 0) # (y < 0) THEN r + y ELSE r

Rests(pairs, fmod) == [i \in DOMAIN pairs |-> Mod(pairs[i][1], pairs[i][2], fmod)]

ModuloOf(float, fmod, pairs, out, dtype) ==
  CASE float /\ ~fmod -> Refused
    [] float /\ fmod -> New("FLOAT", out, Rests(pairs, fmod))
    [] ~float -> IF \E i \in DOMAIN pairs : pairs[i][2] = 0 THEN Refused
                 ELSE Cast(New("INT64", out, Rests(pairs, fmod)), dtype)

Modulo(a, b, fmod) ==
  IF ~Operable(a, b) THEN Refused
  ELSE ModuloOf(Float(a, b), fmod, Pairs(a, b, Float(a, b)), Joined(a.shape, b.shape), a.dtype)

Floor(x) ==
  CASE ~Valid(x) -> Refused
    [] Valid(x) /\ Integral(x.dtype) -> x
    [] Valid(x) /\ ~Integral(x.dtype) ->
         New("FLOAT", x.shape, [i \in DOMAIN x.data |-> (ToFloat(x)[i] \div 2) * 2])

Not(x) ==
  IF ~Valid(x) THEN Refused
  ELSE New("BOOL", x.shape, [i \in DOMAIN x.data |-> IF ToInt(x)[i] = 0 THEN 1 ELSE 0])

ConstantOfShape(shape, dtype, value) ==
  IF ElemSize(dtype) = 0 \/ ~Concrete(shape) THEN Refused
  ELSE New(dtype, shape, [i \in 0 .. Product(shape) - 1 |-> value])

----------------------------------------------------------------------------
(* Movement: out[o] is the element of x at some place that depends on o.   *)

Moved(x, shape, From(_)) ==
  New(x.dtype, shape, [o \in 0 .. Product(shape) - 1 |-> x.data[From(o)]])

Movable(x) == Valid(x)

\* Steps of a tensor stretched to a shape: none along what is stretched or absent.
BcastStrides(shape, out) ==
  LET x == Aligned(shape, Len(out)) IN
  [d \in DOMAIN out |-> IF d > Len(out) - Len(shape) /\ x[d] = out[d] /\ x[d] # 1
                          THEN Product(After(x, d)) ELSE 0]

Expand(x, target) ==
  IF ~Movable(x) \/ Broadcast(x.shape, target) = Refused THEN Refused
  ELSE LET out == Joined(x.shape, target) IN
       Moved(x, out, LAMBDA o : Dot(Walk(out, o), BcastStrides(x.shape, out)))

Tile(x, repeats) ==
  IF ~Movable(x) \/ Len(repeats) # Rank(x) \/ ~Concrete(repeats) THEN Refused
  ELSE LET out == [d \in DOMAIN repeats |-> x.shape[d] * repeats[d]] IN
       Moved(x, out, LAMBDA o :
         Dot([d \in DOMAIN out |-> Walk(out, o)[d] % AtLeastOne(x.shape[d])], Strides(x.shape)))

\* Constant padding; negative pads cut.
Pad(x, begins, ends, value) ==
  IF ~Movable(x) \/ Len(begins) # Rank(x) \/ Len(ends) # Rank(x) THEN Refused
  ELSE LET out == [d \in DOMAIN begins |-> x.shape[d] + begins[d] + ends[d]]
           Inside(o) == [d \in DOMAIN out |-> Walk(out, o)[d] - begins[d]]
           Padding(o) == \E d \in DOMAIN out : Inside(o)[d] \notin 0 .. x.shape[d] - 1
       IN IF ~Concrete(out) THEN Refused
          ELSE New(x.dtype, out, [o \in 0 .. Product(out) - 1 |->
                 IF Padding(o) THEN value ELSE x.data[Dot(Inside(o), Strides(x.shape))]])

Where(cond, x, y, out) ==
  IF \/ ~Movable(cond) \/ ~Movable(x) \/ ~Movable(y) \/ x.dtype # y.dtype
     \/ Broadcast(x.shape, y.shape) = Refused
     \/ Broadcast(cond.shape, Joined(x.shape, y.shape)) = Refused
     \/ out # Joined(cond.shape, Joined(x.shape, y.shape))
    THEN Refused
    ELSE LET At(t, o) == Dot(Walk(out, o), BcastStrides(t.shape, out)) IN
         New(x.dtype, out, [o \in 0 .. Product(out) - 1 |->
           IF ToInt(cond)[At(cond, o)] # 0 THEN x.data[At(x, o)] ELSE y.data[At(y, o)]])

\* Mutant: an end before the first element is not told from the first.
SliceBoundsShort(dim, start, end, step) ==
  IF step > 0 THEN <<Clamp(Wrapped(start, dim), 0, dim), Clamp(Wrapped(end, dim), 0, dim)>>
              ELSE <<Clamp(Wrapped(start, dim), 0, dim - 1), Clamp(Wrapped(end, dim), 0, dim - 1)>>

\* First element and the one that is not reached any more.
SliceBounds(dim, start, end, step) ==
  IF step > 0 THEN <<Clamp(Wrapped(start, dim), 0, dim), Clamp(Wrapped(end, dim), 0, dim)>>
              ELSE <<Clamp(Wrapped(start, dim), 0, dim - 1), Clamp(Wrapped(end, dim), -1, dim - 1)>>

SliceCount(bounds, step) ==
  CASE step > 0 /\ bounds[2] > bounds[1] -> CeilDiv(bounds[2] - bounds[1], step)
    [] step < 0 /\ bounds[1] > bounds[2] -> CeilDiv(bounds[1] - bounds[2], -step)
    [] OTHER -> 0

\* slice_params: for every axis the count, the start and the step; the last entry
\* that names an axis decides.
SliceParams(shape, starts, ends, axes, steps) ==
  LET on(d) == {i \in DOMAIN axes : Axis(axes[i], Len(shape)) = d}
      bounds(d) == LET i == Max(on(d)) IN SliceBounds(shape[d], starts[i], ends[i], steps[i])
  IN IF \/ Len(starts) # Len(ends) \/ Len(axes) # Len(starts) \/ Len(steps) # Len(starts)
        \/ \E i \in DOMAIN axes : ~IsAxis(axes[i], Len(shape)) \/ steps[i] = 0
       THEN Refused
       ELSE [out   |-> [d \in DOMAIN shape |-> IF on(d) = {} THEN shape[d]
                                               ELSE SliceCount(bounds(d), steps[Max(on(d))])],
             start |-> [d \in DOMAIN shape |-> IF on(d) = {} THEN 0 ELSE bounds(d)[1]],
             step  |-> [d \in DOMAIN shape |-> IF on(d) = {} THEN 1 ELSE steps[Max(on(d))]]]

Slice(x, params) ==
  IF ~Movable(x) \/ params = Refused THEN Refused
  ELSE Moved(x, params.out, LAMBDA o :
         Dot([d \in DOMAIN x.shape |-> params.start[d] + Walk(params.out, o)[d] * params.step[d]],
             Strides(x.shape)))

\* Indices count from the end when negative; one out of range refuses the whole.
Indices(indices, dim) == [i \in DOMAIN indices.data |-> Wrapped(ToInt(indices)[i], dim)]
InRange(indices, dim) == \A i \in DOMAIN indices.data : Indices(indices, dim)[i] \in 0 .. dim - 1

\* An operand of no elements counts for one before and after the axis: an index into
\* it is out of range, or reads past its data.
Gather(x, indices, axis) ==
  IF ~Movable(x) \/ ~Valid(indices) \/ ~IsAxis(axis, Rank(x)) THEN Refused
  ELSE LET a == Axis(axis, Rank(x))
           inner == Inner(x, a)
           count == Size(indices)
           out == Before(x.shape, a) \o indices.shape \o After(x.shape, a)
       IN IF ~InRange(indices, x.shape[a]) \/ (count # 0 /\ Size(x) = 0) THEN Refused
          ELSE Moved(x, out, LAMBDA o :
                 (o \div (inner * count)) * (x.shape[a] * inner)
                   + Indices(indices, x.shape[a])[(o \div inner) % count] * inner + (o % inner))

GatherElements(x, indices, axis) ==
  IF ~Movable(x) \/ ~Valid(indices) \/ Rank(indices) # Rank(x) \/ ~IsAxis(axis, Rank(x)) THEN Refused
  ELSE LET a == Axis(axis, Rank(x))
           to == Strides(indices.shape)
       IN IF ~InRange(indices, x.shape[a]) THEN Refused
          ELSE Moved(x, indices.shape, LAMBDA o :
                 Dot([Unwind(to, o) EXCEPT ![a] = Indices(indices, x.shape[a])[o]], Strides(x.shape)))

\* The last dimension of indices says how many coordinates an entry fixes; a later
\* entry overwrites an earlier one.
ScatterND(x, indices, updates) ==
  IF \/ ~Movable(x) \/ ~Valid(indices) \/ ~Valid(updates) \/ x.dtype # updates.dtype
     \/ Rank(indices) = 0 THEN Refused
  ELSE LET k == Last(indices.shape)
           slice == AtLeastOne(Product(SubSeq(x.shape, k + 1, Rank(x))))
           rows == Size(indices) \div AtLeastOne(k)
           coordinate(r, d) == Wrapped(ToInt(indices)[r * k + d - 1], x.shape[d])
           base(r) == Total([d \in 1 .. k |-> coordinate(r, d) * Strides(x.shape)[d]])
           writers(i) == {r \in 0 .. rows - 1 : i \in base(r) .. base(r) + slice - 1}
       IN IF \/ k > Rank(x) \/ Size(updates) # rows * slice
             \/ \E r \in 0 .. rows - 1, d \in 1 .. k : coordinate(r, d) \notin 0 .. x.shape[d] - 1
            THEN Refused
            ELSE New(x.dtype, x.shape, [i \in DOMAIN x.data |->
                   IF writers(i) = {} THEN x.data[i]
                   ELSE LET r == Max(writers(i)) IN updates.data[r * slice + (i - base(r))]])

Concat(inputs, axis) ==
  LET base == inputs[1].shape
      a == Axis(axis, Len(base))
      offset(j) == Total([i \in 1 .. j - 1 |-> inputs[i].shape[a]])
      length == offset(Len(inputs) + 1)
      inner == Product(After(base, a))
      out == [base EXCEPT ![a] = length]
      Source(o) ==     \* the input that owns position p along the axis
        LET p == (o \div inner) % length
            j == Max({j \in DOMAIN inputs : offset(j) <= p /\ inputs[j].shape[a] > 0})
        IN inputs[j].data[(o \div (inner * length)) * (inputs[j].shape[a] * inner)
                            + (p - offset(j)) * inner + (o % inner)]
  IN IF \/ inputs = <<>> \/ \E j \in DOMAIN inputs : ~Valid(inputs[j])
        \/ ~IsAxis(axis, Len(base))
        \/ \E j \in DOMAIN inputs :
             \/ inputs[j].dtype # inputs[1].dtype \/ Rank(inputs[j]) # Len(base)
             \/ \E d \in DOMAIN base : d # a /\ inputs[j].shape[d] # base[d]
       THEN Refused
       ELSE New(inputs[1].dtype, out, Tabulate(Product(out), Source))

\* Per tensor only: one scale, one zero point.
DequantizeLinear(x, scale, zero) ==
  IF \/ ~Valid(x) \/ ~Valid(scale) \/ ~Valid(zero) \/ zero.dtype # x.dtype
     \/ Size(scale) # 1 \/ Size(zero) # 1 THEN Refused
  ELSE New("FLOAT", x.shape, [i \in DOMAIN x.data |->
         (ToInt(x)[i] - ToInt(zero)[0]) * ToFloat(scale)[0]])

=============================================================================
