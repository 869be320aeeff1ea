------------------------------ MODULE OnnxMatrices ------------------------------
(***************************************************************************)
(* What the products of matrices and the operators on quantized tensors    *)
(* mean.                                                                   *)
(***************************************************************************)
EXTENDS OnnxOperators

\* The coordinate of an operand of a product: its batch, shrunk, then r and c.
InBatch(x, batch, r, c) == Shrunk(Front(Front(x.shape)), batch) \o <<r, c>>

MeantProduct(dtype, a, b, Value(_, _), Other(_, _)) ==
  LET batch == Stretched(<<Front(Front(a.shape)), Front(Front(b.shape))>>)
      Element(c) ==
        LET z == Front(Front(c)) IN
        MapThenSumSet(LAMBDA k : Value(a, At(a, InBatch(a, z, c[Len(c) - 1], k)))
                                   * Other(b, At(b, InBatch(b, z, k, Last(c)))),
                      0 .. Last(a.shape) - 1)
  IN IF Last(a.shape) # b.shape[Len(b.shape) - 1] \/ batch = <<-1>> THEN Refused
     ELSE Make(dtype, batch \o <<a.shape[Len(a.shape) - 1], Last(b.shape)>>, Element)

MeantMatMul(a, b) == MeantProduct("FLOAT", a, b, LAMBDA x, v : v, LAMBDA x, v : v)

MeantGemm(job) ==
  LET a == job.x[1]
      b == job.x[2]
      A(i, k) == At(a, IF job.transA THEN <<k, i>> ELSE <<i, k>>)
      B(k, j) == At(b, IF job.transB THEN <<j, k>> ELSE <<k, j>>)
      inner == a.shape[IF job.transA THEN 1 ELSE 2]
      Element(c) ==
        job.alpha * MapThenSumSet(LAMBDA k : A(c[1], k) * B(k, c[2]), 0 .. inner - 1)
          + (IF Len(job.x) < 3 THEN 0 ELSE job.beta * At(job.x[3], Shrunk(job.x[3].shape, c)))
  IN IF inner # b.shape[IF job.transB THEN 2 ELSE 1] THEN Refused
     ELSE Make("FLOAT", <<a.shape[IF job.transA THEN 2 ELSE 1], b.shape[IF job.transB THEN 1 ELSE 2]>>, Element)

\* Weights of four bits, eight the zero point, a scale for every block of a column.
MeantNBits(job, block) ==
  LET Bits(col, k) == (At(job.x[2], <<col, k \div 2>>) \div (IF k % 2 = 0 THEN 1 ELSE 16)) % 16
      Value(col, k) == (Bits(col, k) - 8) * At(job.x[3], <<col, k \div block>>)
      Element(c) == MapThenSumSet(LAMBDA k : At(job.x[1], Front(c) \o <<k>>) * Value(Last(c), k),
                                  0 .. job.k - 1)
  IN Make("FLOAT", Front(job.x[1].shape) \o <<job.n>>, Element)

----------------------------------------------------------------------------
\* The whole number nearest to p / q, the even one of two.
Rounded(p, q) ==
  CHOOSE n \in -300 .. 300 :
    LET off == Magnitude(2 * (p - n * q)) IN off < q \/ (off = q /\ n % 2 = 0)

Saturate(dtype, v) ==
  LET low == IF dtype = "UINT8" THEN 0 ELSE -128 IN
  Max({low, Min({low + 255, v})})

\* The range of the elements and zero becomes the range of a byte.
MeantDynamicQuantize(x) ==
  LET values == ToSet([i \in 1 .. Count(x) |-> x.data[i - 1]]) \cup {0}
      scale == ((Max(values) - Min(values)) * Unit) \div 255
      zero == Saturate("UINT8", Rounded(-Min(values) * Unit, scale))
      one(dtype, v) == New(dtype, <<>>, [i \in {0} |-> v])
  IN IF x.data = <<>> THEN <<Refused>>
     ELSE IF scale = 0
       THEN <<Make("UINT8", x.shape, LAMBDA c : 0), one("FLOAT", Unit), one("UINT8", 0)>>
       ELSE <<Make("UINT8", x.shape, LAMBDA c : Saturate("UINT8", Rounded(At(x, c) * Unit, scale) + zero)),
              one("FLOAT", scale), one("UINT8", zero)>>

\* Scale and zero point of a coordinate: one for the tensor, or one for its place on the axis.
ForChannel(p, x, axis, c) == p.data[IF Count(p) = 1 THEN 0 ELSE c[Axis(axis, Rank(x))]]
ZeroOf(job, c) == IF Len(job.x) < 3 THEN 0 ELSE ForChannel(job.x[3], job.x[1], job.axis, c)

Channels(job, Element(_), dtype) ==
  IF Count(job.x[2]) # 1 /\ (~IsAxis(job.axis, Rank(job.x[1]))
                              \/ job.x[1].shape[Axis(job.axis, Rank(job.x[1]))] # Count(job.x[2]))
    THEN Refused
  ELSE Make(dtype, job.x[1].shape, Element)

MeantDequantize(job) ==
  Channels(job, LAMBDA c : (At(job.x[1], c) - ZeroOf(job, c)) * ForChannel(job.x[2], job.x[1], job.axis, c),
           "FLOAT")

MeantQuantize(job) ==
  LET dtype == IF Len(job.x) < 3 THEN job.to ELSE job.x[3].dtype
      Element(c) == Saturate(dtype, Rounded(At(job.x[1], c), ForChannel(job.x[2], job.x[1], job.axis, c))
                                      + ZeroOf(job, c))
  IN Channels(job, Element, dtype)

\* Every factor less its zero point.
MeantMatMulInteger(job) ==
  MeantProduct("INT32", job.x[1], job.x[2], LAMBDA x, v : v - job.x[3].data[0],
               LAMBDA x, v : v - job.x[4].data[0])

=============================================================================
