-------------------------------- MODULE Tensors --------------------------------
(***************************************************************************)
(* Tensors in row-major order and the shape arithmetic of the engine       *)
(* (shape.rs).  Elements are numbered from 0, axes from 1.                 *)
(*                                                                         *)
(* An element of dtype FLOAT is a whole number of halves, so that truncation *)
(* is not the identity; elements of the other types are whole numbers.     *)
(***************************************************************************)
EXTENDS Integers, Sequences, SequencesExt, FiniteSetsExt

CONSTANT MaxWord   \* the largest value of a 32-bit word

\* An operation that the code refuses with an error.
Refused == [refused |-> TRUE]

Product(shape) == FoldLeft(LAMBDA n, d : n * d, 1, shape)
Before(s, a)   == SubSeq(s, 1, a - 1)
After(s, a)    == SubSeq(s, a + 1, Len(s))

New(dtype, shape, data) == [dtype |-> dtype, shape |-> shape, data |-> data]
Tabulate(n, Value(_))   == [i \in 0 .. n - 1 |-> Value(i)]
Rank(x)  == Len(x.shape)
Count(x) == Product(x.shape)
Size(x)  == Cardinality(DOMAIN x.data)

Total(f)  == FoldLeft(LAMBDA m, n : m + n, 0, f)
Dot(f, g) == Total([d \in DOMAIN f |-> f[d] * g[d]])

AtLeastOne(n)   == IF n < 1 THEN 1 ELSE n
Magnitude(n)    == IF n < 0 THEN -n ELSE n
CeilDiv(m, n)   == (m + n - 1) \div n
Truncated(m, n) == IF (m < 0) = (n < 0) THEN Magnitude(m) \div Magnitude(n) ELSE -(Magnitude(m) \div Magnitude(n))
Clamp(n, low, high) == IF n < low THEN low ELSE IF n > high THEN high ELSE n

\* A negative axis counts from the end.
Wrapped(n, bound) == IF n < 0 THEN n + bound ELSE n
IsAxis(axis, rank) == Wrapped(axis, rank) \in 0 .. rank - 1
Axis(axis, rank)   == Wrapped(axis, rank) + 1

Concrete(shape) == \A d \in DOMAIN shape : shape[d] >= 0

\* Row-major strides of a shape.
Strides(shape) == [d \in DOMAIN shape |-> Product(After(shape, d))]

\* The coordinates of element o as the loops over dimensions find them, which
\* divide the number of elements that is left by every dimension in turn.
Walk(dims, o) ==
  LET n == Product(dims) IN
  [d \in DOMAIN dims |->
     (o \div AtLeastOne(n \div Product(SubSeq(dims, 1, d)))) % AtLeastOne(dims[d])]

\* The coordinates as the loops find them that take the remainder by strides.
Unwind(strides, o) ==
  [d \in DOMAIN strides |->
     (IF d = 1 THEN o ELSE o % AtLeastOne(strides[d - 1])) \div AtLeastOne(strides[d])]

----------------------------------------------------------------------------
(* Real arithmetic in whole numbers: a quotient is taken of a multiple of  *)
(* Unit and rounded down, a root is rounded down, and Exp stands for the   *)
(* exponential: positive, increasing, and the same at every place of use.  *)

Unit    == 16
Exp(d)  == 2^Clamp(d + 8, 0, 16)
Root(n) == CHOOSE r \in 1 .. 200 : (r * r <= n \/ r = 1) /\ (r + 1) * (r + 1) > n

----------------------------------------------------------------------------
(* Broadcasting.                                                           *)

\* A shape with ones put before it, to the given rank.
Aligned(shape, rank) ==
  [d \in 1 .. rank |-> IF d <= rank - Len(shape) THEN 1 ELSE shape[d - (rank - Len(shape))]]

\* Mutant: a dimension is stretched only by the first operand.
JoinedLeft(a, b) ==
  LET rank == IF Len(a) > Len(b) THEN Len(a) ELSE Len(b)
  IN [d \in 1 .. rank |-> Aligned(a, rank)[d]]

Joined(a, b) ==
  LET rank == IF Len(a) > Len(b) THEN Len(a) ELSE Len(b)
      x == Aligned(a, rank)
      y == Aligned(b, rank)
  IN [d \in 1 .. rank |-> IF x[d] = 1 THEN y[d] ELSE x[d]]

\* No step along the dimensions that are stretched.
StretchedStrides(shape, out) ==
  LET x == Aligned(shape, Len(out)) IN
  [d \in DOMAIN out |-> IF x[d] = 1 /\ out[d] # 1 THEN 0 ELSE Product(After(x, d))]

FitsWord(shape) == \A d \in 1 .. Len(shape) : Product(SubSeq(shape, d, Len(shape))) <= MaxWord

\* Shapes of one rank that stretch to a third.
Stretch(x, y, out) ==
  /\ \A d \in DOMAIN out : x[d] >= 0 /\ y[d] >= 0 /\ (x[d] = y[d] \/ x[d] = 1 \/ y[d] = 1)
  /\ FitsWord(x) /\ FitsWord(y) /\ FitsWord(out)

Broadcastable(a, b) ==
  LET rank == Max({Len(a), Len(b)}) IN
  Stretch(Aligned(a, rank), Aligned(b, rank), Joined(a, b))

\* What the kernels are told of a broadcast to a shape.
BroadcastTo(a, b, out) ==
  [out |-> out, strides |-> Strides(out),
   a |-> StretchedStrides(a, out), b |-> StretchedStrides(b, out)]

Broadcast(a, b) ==
  IF ~Broadcastable(a, b) THEN Refused ELSE BroadcastTo(a, b, Joined(a, b))

=============================================================================
