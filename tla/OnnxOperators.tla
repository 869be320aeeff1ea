----------------------------- MODULE OnnxOperators -----------------------------
(***************************************************************************)
(* What the operators mean: the definitions of ONNX, element by element in *)
(* terms of coordinates, without the arithmetic of linear indices that the *)
(* engine uses.  An operator applied outside of its definition is Refused. *)
(***************************************************************************)
EXTENDS HostOps

\* The place of a coordinate in row-major order, and the coordinate at a place.
Place(shape, c) == FoldLeft(LAMBDA n, d : n * shape[d] + c[d], 0, [d \in DOMAIN shape |-> d])
CoordAt(shape, i) == [d \in DOMAIN shape |-> (i \div Product(After(shape, d))) % shape[d]]

At(x, c) == x.data[Place(x.shape, c)]
Make(dtype, shape, Element(_)) ==
  New(dtype, shape, [i \in 0 .. Product(shape) - 1 |-> Element(CoordAt(shape, i))])

Put(c, a, k) == [c EXCEPT ![a] = k]

\* The coordinate of a stretched operand: the trailing ones, 0 where it has one element.
Shrunk(shape, c) ==
  [d \in DOMAIN shape |-> IF shape[d] = 1 THEN 0 ELSE c[d + Len(c) - Len(shape)]]

Stretched(shapes) ==
  LET rank == Max({Len(shapes[i]) : i \in DOMAIN shapes})
      dims(d) == {Aligned(shapes[i], rank)[d] : i \in DOMAIN shapes} \ {1}
  IN IF \E d \in 1 .. rank : Cardinality(dims(d)) > 1 THEN <<-1>>
     ELSE [d \in 1 .. rank |-> IF dims(d) = {} THEN 1 ELSE CHOOSE n \in dims(d) : TRUE]

----------------------------------------------------------------------------
\* The integers that truncation makes of floats; a BOOL is nonzero or not.
MeantCast(x, to) ==
  LET whole(v) == IF x.dtype = "FLOAT" THEN Truncated(v, 2) ELSE v IN
  IF to = x.dtype THEN x
  ELSE New(to, x.shape, [i \in DOMAIN x.data |->
         CASE to = "BOOL"  -> IF x.data[i] = 0 THEN 0 ELSE 1
           [] to = "FLOAT" -> 2 * x.data[i]
           [] OTHER -> whole(x.data[i])])

\* The largest whole number that is not above.
MeantFloor(x) ==
  New(x.dtype, x.shape, [i \in DOMAIN x.data |->
    IF x.dtype # "FLOAT" THEN x.data[i]
    ELSE Max({n \in x.data[i] - 1 .. x.data[i] : n % 2 = 0})])

Ones(dtype) == New(dtype, <<>>, [i \in {0} |-> 1])

MeantReduce(x, axis, op, keepdims) ==
  LET a == Axis(axis, Rank(x))
      full(c) == IF keepdims THEN c ELSE Before(c, a) \o <<0>> \o SubSeq(c, a, Len(c))
      Element(c) == Folded(op, [k \in 1 .. x.shape[a] |-> At(x, Put(full(c), a, k - 1))])
  IN Make(x.dtype, Reduced(x.shape, a, keepdims), Element)

MeantCumSum(x, axis, exclusive, reverse) ==
  LET a == Axis(axis, Rank(x))
      Summed(c) == {k \in 0 .. x.shape[a] - 1 :
                      \/ k = c[a] /\ ~exclusive
                      \/ k < c[a] /\ ~reverse
                      \/ k > c[a] /\ reverse}
  IN Make(x.dtype, x.shape, LAMBDA c : MapThenSumSet(LAMBDA k : At(x, Put(c, a, k)), Summed(c)))

\* The k-th of the chosen is the element that k others come before.
MeantTopK(x, k, axis, largest) ==
  LET a == Axis(axis, Rank(x))
      ks == 0 .. x.shape[a] - 1
      v(c, j) == At(x, Put(c, a, j))
      Earlier(c, j) == {i \in ks : \/ v(c, i) # v(c, j) /\ (v(c, i) > v(c, j)) = largest
                                   \/ v(c, i) = v(c, j) /\ i < j}
      Picked(c) == CHOOSE j \in ks : Cardinality(Earlier(c, j)) = c[a]
      shape == Put(x.shape, a, k)
  IN <<Make(x.dtype, shape, LAMBDA c : v(c, Picked(c))), Make("INT64", shape, Picked)>>

Elementwise(dtype, x, y, Op(_, _)) ==
  LET out == Stretched(<<x.shape, y.shape>>) IN
  Make(dtype, out, LAMBDA c : Op(At(x, Shrunk(x.shape, c)), At(y, Shrunk(y.shape, c))))

MeantBinary(x, y, fn) ==
  LET divides == fn = "Div" /\ x.dtype # "FLOAT" /\ \E i \in DOMAIN y.data : y.data[i] = 0 IN
  IF Stretched(<<x.shape, y.shape>>) = <<-1>> \/ divides THEN Refused
  ELSE Elementwise(x.dtype, x, y, LAMBDA m, n : Scalar(fn, (x.dtype = "FLOAT"), m, n))

MeantCompare(x, y, fn) ==
  Elementwise("BOOL", x, y, LAMBDA m, n : IF Compared(fn, m, n) THEN 1 ELSE 0)

\* The remainder of the quotient rounded down, or of the one rounded to zero.
MeantMod(x, y, fmod) ==
  LET floored(m, n) == IF n > 0 THEN m % n ELSE -((-m) % (-n))
      signed(m, n) == LET r == Magnitude(m) % Magnitude(n) IN IF m < 0 THEN -r ELSE r
  IN IF \E i \in DOMAIN y.data : y.data[i] = 0 THEN Refused
     ELSE Elementwise(x.dtype, x, y, LAMBDA m, n : IF fmod THEN signed(m, n) ELSE floored(m, n))

----------------------------------------------------------------------------
MeantTranspose(x, perm) ==
  LET shape == [d \in DOMAIN perm |-> x.shape[perm[d]]] IN
  Make(x.dtype, shape, LAMBDA c :
    At(x, [d \in DOMAIN perm |-> c[CHOOSE e \in DOMAIN perm : perm[e] = d]]))

MeantConcat(xs, axis) ==
  LET a == Axis(axis, Rank(xs[1]))
      start(j) == Total([i \in 1 .. j - 1 |-> xs[i].shape[a]])
      Owner(k) == CHOOSE j \in DOMAIN xs : k \in start(j) .. start(j + 1) - 1
      shape == Put(xs[1].shape, a, start(Len(xs) + 1))
  IN Make(xs[1].dtype, shape, LAMBDA c :
       At(xs[Owner(c[a])], Put(c, a, c[a] - start(Owner(c[a])))))

MeantGather(x, indices, axis) ==
  LET a == Axis(axis, Rank(x))
      q == Rank(indices)
      Index(c) == Wrapped(At(indices, SubSeq(c, a, a + q - 1)), x.shape[a])
  IN IF \E i \in DOMAIN indices.data : indices.data[i] \notin -x.shape[a] .. x.shape[a] - 1
       THEN Refused
       ELSE Make(x.dtype, Before(x.shape, a) \o indices.shape \o After(x.shape, a), LAMBDA c :
              At(x, Before(c, a) \o <<Index(c)>> \o SubSeq(c, a + q, Len(c))))

MeantGatherElements(x, indices, axis) ==
  LET a == Axis(axis, Rank(x)) IN
  Make(x.dtype, indices.shape, LAMBDA c :
    At(x, Put(c, a, Wrapped(At(indices, c), x.shape[a]))))

\* Entry by entry, in order.
MeantScatterND(x, indices, updates) ==
  LET k == Last(indices.shape)
      entries == Product(Front(indices.shape))
      Target(r) == [d \in 1 .. k |-> Wrapped(indices.data[r * k + d - 1], x.shape[d])]
      Hits(c) == {r \in 0 .. entries - 1 : Target(r) = SubSeq(c, 1, k)}
      rest == SubSeq(x.shape, k + 1, Rank(x))
  IN Make(x.dtype, x.shape, LAMBDA c :
       IF Hits(c) = {} THEN At(x, c)
       ELSE updates.data[Max(Hits(c)) * Product(rest) + Place(rest, SubSeq(c, k + 1, Len(c)))])

MeantExpand(x, target) ==
  LET out == Stretched(<<x.shape, target>>) IN
  IF out = <<-1>> THEN Refused ELSE Make(x.dtype, out, LAMBDA c : At(x, Shrunk(x.shape, c)))

MeantTile(x, repeats) ==
  Make(x.dtype, [d \in DOMAIN repeats |-> x.shape[d] * repeats[d]], LAMBDA c :
    At(x, [d \in DOMAIN c |-> c[d] % x.shape[d]]))

MeantPad(x, pads, value) ==
  LET rank == Rank(x)
      Old(c) == [d \in 1 .. rank |-> c[d] - pads[d]]
  IN Make(x.dtype, [d \in 1 .. rank |-> x.shape[d] + pads[d] + pads[d + rank]], LAMBDA c :
       IF \A d \in 1 .. rank : Old(c)[d] \in 0 .. x.shape[d] - 1 THEN At(x, Old(c)) ELSE value)

MeantWhere(cond, x, y) ==
  LET out == Stretched(<<cond.shape, x.shape, y.shape>>) IN
  IF out = <<-1>> THEN Refused
  ELSE Make(x.dtype, out, LAMBDA c :
         IF At(cond, Shrunk(cond.shape, c)) # 0 THEN At(x, Shrunk(x.shape, c))
                                                 ELSE At(y, Shrunk(y.shape, c)))

\* The positions along a dimension that a slice visits: from its first one, in steps, while
\* they are in the dimension and before the end.
Visited(dim, start, end, step) ==
  LET first == IF step > 0 THEN Max({0, Wrapped(start, dim)})
                           ELSE Min({dim - 1, Max({0, Wrapped(start, dim)})})
      Position(k) == first + k * step
      Goes(k) == /\ Position(k) \in 0 .. dim - 1
                 /\ IF step > 0 THEN Position(k) < Wrapped(end, dim) ELSE Position(k) > Wrapped(end, dim)
      count == CHOOSE n \in 0 .. dim : ~Goes(n) /\ \A k \in 0 .. n - 1 : Goes(k)
  IN [k \in 1 .. count |-> Position(k - 1)]

MeantSlice(x, starts, ends, axes, steps) ==
  LET on(d) == {i \in DOMAIN axes : Axis(axes[i], Rank(x)) = d}
      picks == [d \in DOMAIN x.shape |->
                  IF on(d) = {} THEN [k \in 1 .. x.shape[d] |-> k - 1]
                  ELSE LET i == CHOOSE i \in on(d) : TRUE
                       IN Visited(x.shape[d], starts[i], ends[i], steps[i])]
  IN Make(x.dtype, [d \in DOMAIN x.shape |-> Len(picks[d])], LAMBDA c :
       At(x, [d \in DOMAIN c |-> picks[d][c[d] + 1]]))

MeantSplit(x, axis, sizes) ==
  LET a == Axis(axis, Rank(x))
      start(j) == Total(SubSeq(sizes, 1, j - 1))
  IN [j \in DOMAIN sizes |->
        Make(x.dtype, Put(x.shape, a, sizes[j]), LAMBDA c : At(x, Put(c, a, c[a] + start(j))))]

\* The same elements in row-major order under another shape.
Reshaped(x, shape) == New(x.dtype, shape, x.data)

MeantRange(dtype, start, limit, delta) ==
  LET n == Cardinality({k \in 0 .. 20 : IF delta > 0 THEN start + k * delta < limit
                                                     ELSE start + k * delta > limit})
  IN New(dtype, <<n>>, [i \in 0 .. n - 1 |-> start + i * delta])

=============================================================================
