--------------------------- MODULE QuantizedKernels ---------------------------
(***************************************************************************)
(* Operators on quantized tensors (interp.rs): DynamicQuantizeLinear,      *)
(* QuantizeLinear, DequantizeLinear, MatMulInteger and the products that   *)
(* ConvInteger makes of its pointwise form, with their shaders             *)
(* (shaders/dynamic_quantize.rs, quantize_linear.rs, matmul_integer.rs).   *)
(*                                                                         *)
(* Bytes are packed four to a word; an element of the model is a byte, and *)
(* a thread that owns a word owns its four elements.                       *)
(***************************************************************************)
EXTENDS MatrixKernels

CONSTANT MaxPartials   \* workgroups that look for the extremes

WordBytes == 4

\* Threads of one word each: their bytes up to the last element.
Words(n) ==
  [g \in 0 .. CeilDiv(CeilDiv(n, WordBytes), Local) - 1 |->
     {e \in g * Local * WordBytes .. (g + 1) * Local * WordBytes - 1 : e < n}]

\* The nearest whole number to p / q, the even one of two.
Nearest(p, q) ==
  LET low == p \div q
      rest == p % q
  IN IF 2 * rest > q \/ (2 * rest = q /\ low % 2 = 1) THEN low + 1 ELSE low

\* The sign bit of a byte flipped: 128 more than the signed number.
Flipped(v) == (v + 128) % 256
Byte(v, flip) == IF flip THEN Flipped(v) ELSE v

IsByte(x)   == x.dtype \in {"UINT8", "INT8"}
IsSigned(x) == x.dtype = "INT8"
Saturated(v, signed) == IF signed THEN Clamp(v, -128, 127) ELSE Clamp(v, 0, 255)

----------------------------------------------------------------------------
(* DynamicQuantizeLinear in three passes: the extremes of what every       *)
(* workgroup visits, scale and zero point of them all, the bytes.          *)

Groups(n) == Min({CeilDiv(n, Local), MaxPartials})

DynamicPlan(job) ==
  LET x == job.x[1]
      n == Size(x)
  IN IF n = 0 THEN Host(<<Refused>>)
     ELSE Passes(<<Out("UINT8", x.shape), Out("FLOAT", <<>>), Out("UINT8", <<>>)>>, <<2 * Groups(n)>>,
                 <<[g \in 0 .. Groups(n) - 1 |-> {2 * g, 2 * g + 1}],
                   [g \in {0} |-> {2, 3}],
                   Words(n)>>)

\* The elements that a workgroup visits.
Visits(n, g) == {i \in 0 .. n - 1 : (i \div Local) % Groups(n) = g}

Extreme(which, values) == IF which = 0 THEN Min(values \cup {0}) ELSE Max(values \cup {0})

\* The 255th part of the range.
ScaleOf(low, high) ==
  LET scale == ((high - low) * Unit) \div 255 IN IF scale = 0 THEN Unit ELSE scale

DynamicStored(job, m, launch, e) ==
  LET x == job.x[1]
      parts(which) == {Load(m[4], 2 * g + which) : g \in 0 .. Groups(Size(x)) - 1}
      low == Extreme(0, parts(0))
      scale == ScaleOf(low, Extreme(1, parts(1)))
  IN CASE launch = 1 ->
            <<4, e, Extreme(e % 2, {Load(x.data, i) : i \in Visits(Size(x), e \div 2)})>>
       [] launch = 2 /\ e = 2 -> <<2, 0, scale>>
       [] launch = 2 /\ e = 3 -> <<3, 0, Clamp(Nearest(-low * Unit, scale), 0, 255)>>
       [] launch = 3 ->
            <<1, e, Clamp(Nearest(Load(x.data, e) * Unit, Load(m[2], 0)) + Load(m[3], 0), 0, 255)>>

----------------------------------------------------------------------------
(* QuantizeLinear and DequantizeLinear, per tensor or along an axis.       *)

\* Stride below the quantized axis and number of scales, or Refused.
QdqLayout(job) ==
  LET x == job.x[1].shape
      scale == job.x[2].shape
      len == AtLeastOne(Product(scale))
  IN CASE scale = <<>> \/ len = 1 -> [inner |-> 1, len |-> 1]
       [] scale # <<>> /\ len # 1 /\ (Len(scale) # 1 \/ ~IsAxis(job.axis, Len(x))) -> Refused
       [] OTHER -> IF x[Axis(job.axis, Len(x))] # len THEN Refused
                   ELSE [inner |-> AtLeastOne(Product(After(x, Axis(job.axis, Len(x))))), len |-> len]

Channel(job, i) == (i \div QdqLayout(job).inner) % QdqLayout(job).len
ZeroAt(job, i) == IF Len(job.x) < 3 THEN 0 ELSE Load(job.x[3].data, Channel(job, i))

DequantizePlan(job) ==
  LET x == job.x[1] IN
  IF QdqLayout(job) = Refused \/ (~IsByte(x) /\ x.dtype # "INT32") THEN Host(<<Refused>>)
  ELSE One("FLOAT", x.shape)

DequantizeThread(job, i) ==
  (Load(job.x[1].data, i) - ZeroAt(job, i)) * Load(job.x[2].data, Channel(job, i))

\* The dtype of the zero point, or else the one asked for.
QuantizedType(job) == IF Len(job.x) = 3 THEN job.x[3].dtype ELSE job.to

QuantizePlan(job) ==
  IF QdqLayout(job) = Refused \/ QuantizedType(job) \notin {"UINT8", "INT8"} THEN Host(<<Refused>>)
  ELSE Device(<<Out(QuantizedType(job), job.x[1].shape)>>, <<Words(Size(job.x[1]))>>)

QuantizeThread(job, i) ==
  Saturated(Nearest(Load(job.x[1].data, i), Load(job.x[2].data, Channel(job, i))) + ZeroAt(job, i),
            QuantizedType(job) = "INT8")

----------------------------------------------------------------------------
(* Products of byte matrices.  p.m rows of A of p.k bytes, p.n columns of  *)
(* B; B was packed to rows of p.k bytes, its sign flipped on the way where *)
(* it has one; the kernel sees unsigned bytes and zero points.             *)

\* PACK_B: rows of a column's bytes.
PackedB(raw, p) == [i \in 0 .. p.n * p.k - 1 |-> Byte(Load(raw, (i % p.k) * p.n + i \div p.k), p.bSigned)]

\* Words are staged in tiles, the zero point in the bytes beyond the edges.
ByteA(a, p, row, k) ==
  IF row < p.m /\ k < p.k THEN Byte(Load(a, row * p.k + k), p.aFlip) ELSE p.aZero
ByteB(packed, p, col, k) == IF col < p.n /\ k < p.k THEN Load(packed, col * p.k + k) ELSE p.bZero

\* The bytes that the loop over tiles of words visits, with the ones beyond the edges.
TiledK(k) == CeilDiv(k \div WordBytes, SmallTile) * SmallTile * WordBytes

\* Byte by byte, or with the dot product of words, from which the zero points are
\* taken afterwards.
ByteProduct(a, packed, p, row, col) ==
  LET ks == 0 .. TiledK(p.k) - 1
      u(k) == ByteA(a, p, row, k)
      v(k) == ByteB(packed, p, col, k)
  IN IF p.dot4
       THEN Sum(ks, LAMBDA k : u(k) * v(k)) - p.aZero * Sum(ks, v) - p.bZero * Sum(ks, u)
              + TiledK(p.k) * p.aZero * p.bZero
       ELSE Sum(ks, LAMBDA k : (u(k) - p.aZero) * (v(k) - p.bZero))

ByteTiles(m, n) == Tiled(1, m, n, SmallTile, SmallTile)

MatMulIntegerPlan(job) ==
  LET a == job.x[1]
      b == job.x[2]
      m == Product(Front(a.shape))
  IN CASE Rank(a) < 2 \/ Last(a.shape) % WordBytes # 0 -> Host(<<Refused>>)
       [] Rank(b) # 2 \/ b.shape[1] # Last(a.shape) \/ ~IsByte(b) -> Host(<<Refused>>)
       [] OTHER -> Device(<<Out("INT32", Front(a.shape) \o <<b.shape[2]>>)>>,
                          <<ByteTiles(m, b.shape[2])>>)

MatMulIntegerStored(job, e) ==
  LET a == job.x[1]
      b == job.x[2]
      p == [m |-> Product(Front(a.shape)), k |-> Last(a.shape), n |-> b.shape[2], dot4 |-> job.dot4,
            aFlip |-> IsSigned(a), bSigned |-> IsSigned(b),
            aZero |-> Byte(Load(job.x[3].data, 0), IsSigned(a)),
            bZero |-> Byte(Load(job.x[4].data, 0), IsSigned(b))]
  IN <<1, e[2] * p.n + e[3], ByteProduct(a.data, PackedB(b.data, p), p, e[2], e[3])>>

=============================================================================
