-------------------------------- MODULE OnnxRows --------------------------------
(***************************************************************************)
(* What the operators over rows mean.                                      *)
(***************************************************************************)
EXTENDS OnnxOperators, RowKernels

\* The row of x along axis a that coordinate c lies on.
RowAt(x, a, c) == [k \in 1 .. x.shape[a] |-> At(x, Put(c, a, k - 1))]

MeantSoftmax(x, axis) ==
  LET a == Axis(axis, Rank(x))
      Element(c) ==
        LET row == RowAt(x, a, c)
            top == Max(ToSet(row))
        IN (Exp(At(x, c) - top) * Unit) \div Total([k \in DOMAIN row |-> Exp(row[k] - top)])
  IN Make("FLOAT", x.shape, Element)

MeantArgMax(x) ==
  LET row(c) == RowAt(x, Rank(x), c \o <<0>>) IN
  Make("INT64", Front(x.shape), LAMBDA c :
    Min({k \in DOMAIN row(c) : row(c)[k] = Max(ToSet(row(c)))}) - 1)

\* In two passes: the deviations from the mean, then their squares.
MeantLayerNorm(x, scale, bias, eps) ==
  LET n == Last(x.shape)
      Deviation(row) == [k \in DOMAIN row |-> n * row[k] - Total(row)]
      Element(c) ==
        LET dev == Deviation(RowAt(x, Rank(x), c))
            spread == Total([k \in DOMAIN dev |-> dev[k] * dev[k]]) \div n
        IN ((dev[Last(c) + 1] * Unit) \div Root(spread + eps)) * scale.data[Last(c)]
             + (IF bias = <<>> THEN 0 ELSE bias[1].data[Last(c)])
  IN Make("FLOAT", x.shape, Element)

MeantRMSNorm(x, scale, eps) ==
  LET Element(c) ==
        LET row == RowAt(x, Rank(x), c)
            mean == Total([k \in DOMAIN row |-> row[k] * row[k]]) \div Len(row)
        IN ((At(x, c) * Unit) \div Root(mean + eps)) * scale.data[Last(c)]
  IN Make("FLOAT", x.shape, Element)

MeantBatchNorm(x, scale, bias, mean, variance, eps) ==
  Make("FLOAT", x.shape, LAMBDA c :
    (((At(x, c) - mean.data[c[2]]) * Unit) \div Root(variance.data[c[2]] + eps)) * scale.data[c[2]]
      + bias.data[c[2]])

MeantClip(x, low, high) ==
  New(x.dtype, x.shape, [i \in DOMAIN x.data |->
    LET above == Max({x.data[i]} \cup ToSet(low)) IN Min({above} \cup ToSet(high))])

MeantUnary(x, fn, alpha) == New("FLOAT", x.shape, [i \in DOMAIN x.data |-> Function(fn, x.data[i], alpha)])

----------------------------------------------------------------------------
(* Attention, head by head: the rotation turns pairs of dimensions half a  *)
(* head apart, a query attends to what is not after it.                    *)

\* Head h of projection x at (b, s), deinterleaved when it was left interleaved.
HeadAt(x, heads, reorder, b, s, h) ==
  LET dim == x.shape[3] \div heads
      raw == [d \in 0 .. dim - 1 |-> At(x, <<b, s, h * dim + d>>)]
  IN IF ~reorder THEN raw
     ELSE [d \in 0 .. dim - 1 |-> raw[CHOOSE e \in 0 .. dim - 1 :
                                        /\ e \div 2 = d % (dim \div 2)
                                        /\ e % 2 = d \div (dim \div 2)]]

Rotated(head, cos, sin, position) ==
  LET half == Cardinality(DOMAIN head) \div 2
      angle(d) == position * half + (d % half)
  IN [d \in DOMAIN head |->
        IF d < half THEN head[d] * cos.data[angle(d)] - head[d + half] * sin.data[angle(d)]
                    ELSE head[d] * cos.data[angle(d)] + head[d - half] * sin.data[angle(d)]]

MeantAttention(j) ==
  LET past == j.x[4].shape[3]
      seq == j.x[1].shape[2]
      dims == 0 .. j.x[4].shape[4] - 1
      turned(head, s) == IF j.rotary THEN Rotated(head, j.x[6], j.x[7], past + s) ELSE head
      Query(b, s, h) == turned(HeadAt(j.x[1], j.qHeads, j.reorder, b, s, h), s)
      keys == Make("FLOAT", [j.x[4].shape EXCEPT ![3] = past + seq], LAMBDA c :
        IF c[3] < past THEN At(j.x[4], c)
        ELSE turned(HeadAt(j.x[2], j.kvHeads, j.reorder, c[1], c[3] - past, c[2]), c[3] - past)[c[4]])
      values == Make("FLOAT", [j.x[4].shape EXCEPT ![3] = past + seq], LAMBDA c :
        IF c[3] < past THEN At(j.x[5], c)
        ELSE HeadAt(j.x[3], j.kvHeads, FALSE, c[1], c[3] - past, c[2])[c[4]])
      Answer(b, s, h, d) ==
        LET kh == CHOOSE k \in 0 .. j.kvHeads - 1 : h \in k * (j.qHeads \div j.kvHeads) .. (k + 1) * (j.qHeads \div j.kvHeads) - 1
            score == [p \in 0 .. past + s |->
              j.scale * MapThenSumSet(LAMBDA e : Query(b, s, h)[e] * At(keys, <<b, kh, p, e>>), dims)]
            top == Max({score[p] : p \in DOMAIN score})
        IN (MapThenSumSet(LAMBDA p : Exp(score[p] - top) * At(values, <<b, kh, p, d>>), DOMAIN score) * Unit)
             \div MapThenSumSet(LAMBDA p : Exp(score[p] - top), DOMAIN score)
      dim == Cardinality(dims)
  IN <<Make("FLOAT", j.x[1].shape, LAMBDA c : Answer(c[1], c[2], c[3] \div dim, c[3] % dim)), keys, values>>

=============================================================================
