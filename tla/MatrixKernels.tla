----------------------------- MODULE MatrixKernels -----------------------------
(***************************************************************************)
(* Products of matrices of floats (interp.rs): MatMul, Gemm, and           *)
(* MatMulNBits, whose weights are packed two to a byte, with their shaders *)
(* (shaders/matmul_fp32.rs, gemm.rs, matmul_nbits.rs).                     *)
(*                                                                         *)
(* A thread sums what it and the lanes of its column contribute: the lanes *)
(* add integers in the model, and the order of the additions is left out.  *)
(***************************************************************************)
EXTENDS DevicePlan

CONSTANTS
  BigTile, SmallTile,   \* sides of the output tile of a workgroup
  KStep,                \* slice of K that is staged in shared memory
  MaxBatch,             \* largest batch of MatMul
  GemvCols,             \* columns of a workgroup of the vector kernel
  GemvGroups, GemvMaxSplit, GemvMinPerSplit, GemvMinK,
  Block,                \* weights under one scale of MatMulNBits
  KLanes,               \* lanes that share a column
  ColTile, RowTile,     \* output tile of the MatMulNBits kernels
  DeepCols              \* fewest columns for its two-pass kernel

----------------------------------------------------------------------------
(* Staging.  Slots of shared memory hold a slice of A of p.step columns and *)
(* one of B of p.tile columns, zeros beyond the edges of the matrices.     *)

StagedA(a, p, row0, k0, slot) ==
  LET r == row0 + slot \div p.step
      k == k0 + (slot % p.step)
  IN IF r < p.m /\ k < p.k
       THEN Load(a, p.aBase + IF p.transA THEN k * p.m + r ELSE r * p.k + k) ELSE 0

StagedB(b, p, col0, k0, slot) ==
  LET k == k0 + slot \div p.tile
      c == col0 + (slot % p.tile)
  IN IF k < p.k /\ c < p.n
       THEN Load(b, p.bBase + IF p.transB THEN c * p.k + k ELSE k * p.n + c) ELSE 0

\* What the thread of an output accumulates over some slices of K, or over all.
SliceProduct(a, b, p, row, col, slices) ==
  LET r == row % p.tile
      c == col % p.tile
      Added(t) == Sum(0 .. p.step - 1, LAMBDA kk :
                    StagedA(a, p, row - r, t * p.step, r * p.step + kk)
                      * StagedB(b, p, col - c, t * p.step, kk * p.tile + c))
  IN Sum(slices, Added)

Slices(p) == 0 .. CeilDiv(p.k, p.step) - 1
TileProduct(a, b, p, row, col) == SliceProduct(a, b, p, row, col, Slices(p))

----------------------------------------------------------------------------
(* Gemm: transposition by indexing, a third operand stretched over rows or *)
(* columns.                                                                *)

GemmDims(job) ==
  LET a == job.x[1].shape
      b == job.x[2].shape
  IN [m |-> IF job.transA THEN a[2] ELSE a[1], k |-> IF job.transA THEN a[1] ELSE a[2],
      kb |-> IF job.transB THEN b[2] ELSE b[1], n |-> IF job.transB THEN b[1] ELSE b[2]]

\* Rows and columns of the third operand; its dimensions are not compared with the output.
GemmAdded(shape) ==
  CASE Len(shape) = 0 -> <<1, 1>>
    [] Len(shape) = 1 -> <<1, shape[1]>>
    [] OTHER -> shape

GemmPlan(job) ==
  LET d == GemmDims(job) IN
  IF \/ Rank(job.x[1]) # 2 \/ Rank(job.x[2]) # 2 \/ d.k # d.kb
     \/ Len(job.x) = 3 /\ Rank(job.x[3]) > 2
    THEN Host(<<Refused>>)
    ELSE Device(<<Out("FLOAT", <<d.m, d.n>>)>>, <<Tiled(1, d.m, d.n, BigTile, BigTile)>>)

GemmThread(job, row, col) ==
  LET d == GemmDims(job)
      p == [m |-> d.m, k |-> d.k, n |-> d.n, tile |-> BigTile, step |-> KStep,
            transA |-> job.transA, transB |-> job.transB, aBase |-> 0, bBase |-> 0]
      c == GemmAdded(job.x[3].shape)
      added == Load(job.x[3].data, (IF c[1] > 1 THEN row ELSE 0) * AtLeastOne(c[2])
                                     + (IF c[2] > 1 THEN col ELSE 0))
  IN job.alpha * TileProduct(job.x[1].data, job.x[2].data, p, row, col)
       + (IF Len(job.x) = 3 THEN job.beta * added ELSE 0)

----------------------------------------------------------------------------
(* MatMul: a tile of one of two sizes per workgroup and batch, or for one  *)
(* row a split of K among workgroups and a second pass over their sums.    *)

MatMulDims(job) ==
  LET a == job.x[1].shape
      b == job.x[2].shape
  IN [m |-> a[Len(a) - 1], k |-> a[Len(a)], kb |-> b[Len(b) - 1], n |-> b[Len(b)],
      bc |-> Broadcast(Front(Front(a)), Front(Front(b)))]

PreferBlocked(m, n) ==
  LET padded(t) == CeilDiv(m, t) * t * CeilDiv(n, t) * t IN
  padded(BigTile) <= 3 * padded(SmallTile)

\* In how many ways K is split, 0 for shapes that stay with the tiles.
GemvSplit(m, k, n, batch) ==
  IF m # 1 \/ batch > 1 \/ k < GemvMinK \/ n < GemvCols THEN 0
  ELSE AtLeastOne(Min({CeilDiv(GemvGroups, CeilDiv(n, GemvCols)), GemvMaxSplit, k \div GemvMinPerSplit}))

MatMulSplit(d) == GemvSplit(d.m, d.k, d.n, AtLeastOne(Product(d.bc.out)))

MatMulTile(d) == IF PreferBlocked(d.m, d.n) THEN BigTile ELSE SmallTile

MatMulLaunches(job, d) ==
  LET batch == Product(d.bc.out)
      split == MatMulSplit(d)
      tile == MatMulTile(d)
      out == <<Out("FLOAT", d.bc.out \o <<d.m, d.n>>)>>
      slices == Tiled(split, 1, d.n, 1, GemvCols)
  IN CASE \/ Rank(job.x[1]) < 2 \/ Rank(job.x[2]) < 2 -> Host(<<Refused>>)
       [] d.k # d.kb \/ d.bc = Refused -> Host(<<Refused>>)
       [] Len(d.bc.out) > MaxRank \/ batch > MaxBatch -> Host(<<Refused>>)
       [] split = 0 -> Device(out, <<Tiled(AtLeastOne(batch), d.m, d.n, tile, tile)>>)
       [] split = 1 -> Device(out, <<slices>>)
       [] OTHER -> Passes(out, <<split * d.n>>, <<slices, Linear(d.n)>>)

MatMulPlan(job) == MatMulLaunches(job, MatMulDims(job))

\* The slice of K of one workgroup of the vector kernel.
GemvSlice(k, split, s) ==
  LET part == CeilDiv(k, split) IN s * part .. Min({(s + 1) * part, k}) - 1

MatMulThread(job, d, z, row, col) ==
  LET c == Unwind(d.bc.strides, z)
      tile == MatMulTile(d)
      p == [m |-> d.m, k |-> d.k, n |-> d.n, tile |-> tile,
            step |-> IF tile = BigTile THEN KStep ELSE SmallTile,
            transA |-> FALSE, transB |-> FALSE,
            aBase |-> Dot(c, d.bc.a) * d.m * d.k, bBase |-> Dot(c, d.bc.b) * d.k * d.n]
  IN TileProduct(job.x[1].data, job.x[2].data, p, row, col)

GemvReduced(parts, n, split, col) == Sum(0 .. split - 1, LAMBDA s : Load(parts, s * n + col))

MatMulItem(job, d, m, launch, e) ==
  LET split == MatMulSplit(d)
      part == Sum(GemvSlice(d.k, split, e[1]), LAMBDA k :
                Load(job.x[1].data, k) * Load(job.x[2].data, k * d.n + e[3]))
  IN CASE launch = 2 -> <<1, e, GemvReduced(m[2], d.n, split, e)>>
       [] launch = 1 /\ split = 0 ->
            <<1, (e[1] * d.m + e[2]) * d.n + e[3], MatMulThread(job, d, e[1], e[2], e[3])>>
       [] OTHER -> <<IF split > 1 THEN 2 ELSE 1, e[1] * d.n + e[3], part>>

MatMulStored(job, m, launch, e) == MatMulItem(job, MatMulDims(job), m, launch, e)

----------------------------------------------------------------------------
(* MatMulNBits.  job.env holds the variables of the environment that pick  *)
(* a kernel (cap 0 and chunks 0 where they are unset), job.init whether    *)
(* weights and scales are both initializers.                               *)

NBitsRows(job) == Size(job.x[1]) \div job.k

NBitsKernel(job) ==
  LET m == NBitsRows(job)
      splitK == /\ ~job.env.scalar
                /\ job.env.cap = 0 \/ m <= job.env.cap
                /\ job.k % Block = 0
      chunks == IF m = 1 THEN (IF job.env.chunks1 = 0 THEN KLanes ELSE job.env.chunks1)
                         ELSE AtLeastOne(job.env.chunksM)
      smallM == m > 1 /\ splitK /\ job.env.smallM
      deep == /\ splitK /\ chunks > 1
              /\ m = 1 \/ job.env.chunksM # 0
              /\ job.n >= DeepCols
              /\ (job.k \div Block) % chunks = 0
  IN [chunks |-> chunks, kmajor |-> splitK /\ ~smallM /\ job.env.kmajor /\ job.init,
      kind |-> CASE deep -> "deep"
                 [] ~deep /\ job.env.scalar -> "scalar"
                 [] ~deep /\ smallM -> "smallM"
                 [] ~deep /\ ~smallM /\ splitK -> "splitK"
                 [] OTHER -> "tiled"]

\* A workgroup for every output, though each has the threads for Local of them.
PerElement(n) == [g \in 0 .. n - 1 |-> {e \in g * Local .. (g + 1) * Local - 1 : e < n}]

NBitsLaunches(job, which) ==
  LET x == job.x[1]
      m == NBitsRows(job)
      out == <<Out("FLOAT", Front(x.shape) \o <<job.n>>)>>
      bytes == (job.n * job.k) \div 2
      scales == (job.n * job.k) \div Block
  IN CASE \/ x.shape = <<>> \/ Last(x.shape) # job.k -> Host(<<Refused>>)
       [] job.x[2].dtype # "UINT8" \/ job.x[3].dtype # "FLOAT" -> Host(<<Refused>>)
       [] Size(job.x[2]) # bytes \/ Size(job.x[3]) # scales -> Host(<<Refused>>)
       [] which.kind = "deep" ->
            Passes(out, <<m * job.n * which.chunks>>,
                   <<Tiled(which.chunks, m, job.n, 1, ColTile), Linear(m * job.n)>>)
       [] which.kind = "scalar" -> Device(out, <<Linear(m * job.n)>>)
       [] which.kind = "tiled"  -> Device(out, <<PerElement(m * job.n)>>)
       [] which.kind = "splitK" -> Device(out, <<Tiled(1, m, job.n, 1, ColTile)>>)
       [] which.kind = "smallM" -> Device(out, <<Tiled(1, m, job.n, RowTile, ColTile)>>)

NBitsPlan(job) == NBitsLaunches(job, NBitsKernel(job))

\* The cache's copy of weights or scales, transposed: rows of n.
ByColumns(f, n) ==
  LET width == Cardinality(DOMAIN f) \div n IN
  [i \in DOMAIN f |-> f[(i % n) * width + i \div n]]

\* A weight is eight less than a half of its byte, times the scale of its block.
Dequantized(byte, scale, kk) == ((IF kk % 2 = 0 THEN byte % 16 ELSE byte \div 16) - 8) * scale

RowWeight(job, col, kk) ==
  Dequantized(Load(job.x[2].data, col * (job.k \div 2) + kk \div 2),
              Load(job.x[3].data, col * (job.k \div Block) + kk \div Block), kk)

ColumnWeight(job, col, kk) ==
  Dequantized(Load(ByColumns(job.x[2].data, job.n), (kk \div 2) * job.n + col),
              Load(ByColumns(job.x[3].data, job.n), (kk \div Block) * job.n + col), kk)

Weight(job, kmajor, col, kk) == IF kmajor THEN ColumnWeight(job, col, kk) ELSE RowWeight(job, col, kk)

\* Terms of K that one lane adds, in whole steps of four.
InFours(from, until) == {kk \in from .. until - 1 : from + ((kk - from) \div 4 + 1) * 4 <= until}

\* One thread alone adds the terms left over as well.
SerialTerms(job) == InFours(0, job.k) \cup {kk \in 0 .. job.k - 1 : kk >= (job.k \div 4) * 4}

\* Blocks of weights staged one after the other.
StagedTerms(job) == 0 .. (job.k \div Block) * Block - 1

\* The terms that the lanes of a column add in the span of one workgroup.
LaneTerms(from, span) ==
  LET share == span \div KLanes IN
  UNION {InFours(from + l * share, from + (l + 1) * share) : l \in 0 .. KLanes - 1}

\* One of several workgroups that share a column.
ChunkTerms(job, which, chunk) ==
  LET slice == job.k \div which.chunks IN LaneTerms(chunk * slice, slice)

NBitsTerms(job, which, chunk) ==
  CASE which.kind \in {"scalar", "tiled"} -> SerialTerms(job)
    [] which.kind = "smallM" -> StagedTerms(job)
    [] which.kind = "splitK" -> LaneTerms(0, job.k)
    [] which.kind = "deep"   -> ChunkTerms(job, which, chunk)

ChunksReduced(parts, n, chunks, i) ==
  Sum(0 .. chunks - 1, LAMBDA c : Load(parts, ((i \div n) * chunks + c) * n + (i % n)))

NBitsItem(job, which, m, launch, e) ==
  LET Total3(chunk, row, col) == Sum(NBitsTerms(job, which, chunk), LAMBDA kk :
          Load(job.x[1].data, row * job.k + kk) * Weight(job, which.kmajor, col, kk))
  IN CASE launch = 2 ->
            <<1, e, ChunksReduced(m[2], job.n, which.chunks, e)>>
       [] launch = 1 /\ which.kind = "deep" ->
            <<2, (e[2] * which.chunks + e[1]) * job.n + e[3], Total3(e[1], e[2], e[3])>>
       [] launch = 1 /\ which.kind \in {"scalar", "tiled"} ->
            <<1, e, Total3(0, e \div job.n, e % job.n)>>
       [] OTHER -> <<1, e[2] * job.n + e[3], Total3(0, e[2], e[3])>>

NBitsStored(job, m, launch, e) == NBitsItem(job, NBitsKernel(job), m, launch, e)

=============================================================================
