------------------------------- MODULE Operators -------------------------------
(***************************************************************************)
(* The operators of the engine in one table: how the handler of each plans *)
(* its computation, what its threads and lanes store, and what it means.   *)
(* They are the values of the constant operators of OperatorRun.           *)
(***************************************************************************)
EXTENDS MovementKernels, AttentionKernel, WindowKernels, OnnxRows, OnnxWindows

\* exec_dispatch: the handler of an operator, by its name.
OperatorPlan(j) ==
  CASE j.op = "Transpose" -> TransposePlan(j)
    [] j.op = "Concat" -> ConcatPlan(j)
    [] j.op = "Gather" -> GatherPlan(j)
    [] j.op = "Pad" -> PadPlan(j)
    [] j.op = "Where" -> WherePlan(j)
    [] j.op = "Slice" -> SlicePlan(j)
    [] j.op = "Split" -> SplitPlan(j)
    [] j.op = "Cast" -> CastPlan(j)
    [] j.op = "Binary" -> BinaryPlan(j)
    [] j.op \in {"Reshape", "Flatten", "Unsqueeze", "Squeeze"} -> MetaPlan(j)
    [] j.op = "Shape" -> Host(<<ShapeOf(j.x[1].shape, j.start, j.end)>>)
    [] j.op = "Range" -> Host(<<RangeOf(j.x[1], j.x[2], j.x[3])>>)
    [] j.op = "Expand" -> Host(<<Expand(j.x[1], j.target)>>)
    [] j.op = "Tile" -> Host(<<Tile(j.x[1], j.repeats)>>)
    [] j.op = "GatherElements" -> Host(<<GatherElements(j.x[1], j.x[2], j.axis)>>)
    [] j.op = "ScatterND" -> Host(<<ScatterND(j.x[1], j.x[2], j.x[3])>>)
    [] j.op = "TopK" -> Host(TopK(j.x[1], j.k, j.axis, j.largest))
    [] j.op = "CumSum" -> Host(<<CumSum(j.x[1], j.axis, j.exclusive, j.reverse)>>)
    [] j.op = "Compare" -> Host(<<Compare(j.x[1], j.x[2], j.fn)>>)
    [] j.op = "Mod" -> Host(<<Modulo(j.x[1], j.x[2], j.fmod)>>)
    [] j.op = "Reduce" -> ReducePlan(j)
    [] j.op = "Softmax" -> SoftmaxPlan(j)
    [] j.op = "ArgMax" -> ArgMaxPlan(j)
    [] j.op = "LayerNorm" -> LayerNormPlan(j)
    [] j.op = "RMSNorm" -> RMSNormPlan(j)
    [] j.op = "SkipRMSNorm" -> SkipRMSNormPlan(j)
    [] j.op = "BatchNorm" -> BatchNormPlan(j)
    [] j.op = "Clip" -> ClipPlan(j)
    [] j.op = "Unary" -> UnaryPlan(j)
    [] j.op = "Attention" -> AttentionPlan(j)
    [] j.op = "MatMul" -> MatMulPlan(j)
    [] j.op = "Gemm" -> GemmPlan(j)
    [] j.op = "NBits" -> NBitsPlan(j)
    [] j.op = "DynamicQuantize" -> DynamicPlan(j)
    [] j.op = "Dequantize" -> DequantizePlan(j)
    [] j.op = "Quantize" -> QuantizePlan(j)
    [] j.op = "MatMulInteger" -> MatMulIntegerPlan(j)
    [] j.op = "Conv" -> ConvPlan(j)
    [] j.op = "ConvTranspose" -> ConvTransposePlan(j)
    [] j.op = "ConvInteger" -> ConvIntegerPlan(j)
    [] j.op = "Pool" -> PoolPlan(j)
    [] j.op = "Resize" -> ResizePlan(j)
    [] j.op = "GridSample" -> GridSamplePlan(j)
    [] j.op = "Floor" -> Host(<<Floor(j.x[1])>>)
    [] j.op = "Not" -> Host(<<Not(j.x[1])>>)
    [] j.op = "ConstantOfShape" -> Host(<<ConstantOfShape(j.shape, j.dtype, j.value)>>)

\* What the thread of item e stores in launch k, as <<output, element, value>>.
OperatorStored(j, m, k, e) ==
  CASE j.op = "Transpose" -> <<1, e, TransposeThread(j, e)>>
    [] j.op = "Concat" -> <<1, ConcatPlace(j, k, e), Load(j.x[k].data, e)>>
    [] j.op = "Gather" -> <<1, e, GatherThread(j, e)>>
    [] j.op = "Pad" -> <<1, e, PadThread(j, e)>>
    [] j.op = "Where" -> <<1, e, WhereThread(j, e)>>
    [] j.op = "Slice" -> <<1, e, SliceThread(j, e)>>
    [] j.op = "Split" -> <<k, e, SplitThread(j, k, e)>>
    [] j.op = "Cast" -> <<1, e, CastThread(j, e)>>
    [] j.op = "Binary" -> <<1, e, BinaryThread(j, e)>>
    [] j.op \in {"Reshape", "Flatten", "Unsqueeze", "Squeeze"} -> <<1, e, Load(j.x[1].data, e)>>
    [] j.op = "Reduce" -> <<1, e, ReduceThread(j, e)>>
    [] j.op = "BatchNorm" -> <<1, e, BatchNormThread(j, e)>>
    [] j.op = "Clip" -> <<1, e, ClipThread(j, e)>>
    [] j.op = "Unary" -> <<1, e, UnaryThread(j, e)>>
    [] j.op = "MatMul" -> MatMulStored(j, m, k, e)
    [] j.op = "Gemm" -> <<1, e[2] * GemmDims(j).n + e[3], GemmThread(j, e[2], e[3])>>
    [] j.op = "NBits" -> NBitsStored(j, m, k, e)
    [] j.op = "DynamicQuantize" -> DynamicStored(j, m, k, e)
    [] j.op = "Dequantize" -> <<1, e, DequantizeThread(j, e)>>
    [] j.op = "Quantize" -> <<1, e, QuantizeThread(j, e)>>
    [] j.op = "MatMulInteger" -> MatMulIntegerStored(j, e)
    [] j.op = "Conv" -> ConvStored(j, m, k, e)
    [] j.op = "ConvTranspose" -> ConvTransposeStored(j, m, k, e)
    [] j.op = "ConvInteger" -> ConvIntegerStored(j, m, k, e)
    [] j.op = "Pool" -> <<1, e, PoolThread(j, e)>>
    [] j.op = "Resize" -> <<1, e, ResizeThread(j, e)>>
    [] j.op = "GridSample" -> <<1, e, GridSampleThread(j, e)>>

----------------------------------------------------------------------------
(* The programs of workgroups that share memory.                           *)

\* What a lane puts into shared memory, from what it took out of it before.
OperatorPart(j, g, pass, lane, taken) ==
  CASE j.op = "Softmax" -> SoftmaxPart(j, g, pass, lane, taken)
    [] j.op = "ArgMax" -> ArgMaxPart(j, g, lane)
    [] j.op \in {"LayerNorm", "RMSNorm", "SkipRMSNorm"} -> NormPart(j, g, lane)
    [] j.op = "Attention" -> AttentionPart(j, g, pass, lane, taken)

OperatorMerged(j, pass, a, b) ==
  CASE j.op \in {"Softmax", "Attention"} -> IF pass = 1 THEN Max({a, b}) ELSE a + b
    [] j.op = "ArgMax" -> ArgMaxMerge(a, b)
    [] j.op \in {"LayerNorm", "RMSNorm", "SkipRMSNorm"} -> NormMerge(a, b)

OperatorLaneStores(j, g, lane, taken) ==
  CASE j.op = "Softmax" -> SoftmaxStores(j, g, lane, taken[lane])
    [] j.op = "ArgMax" -> IF lane = 0 THEN {<<1, g, taken[0][1][2]>>} ELSE {}
    [] j.op = "LayerNorm" -> LayerNormStores(j, g, lane, taken[lane][1])
    [] j.op \in {"RMSNorm", "SkipRMSNorm"} -> RMSNormStores(j, g, lane, taken[lane][1])
    [] j.op = "Attention" -> AttentionStores(j, g, lane, taken)

----------------------------------------------------------------------------
\* What ONNX says of a job.
OperatorMeaning(j) ==
  CASE j.op = "Transpose" -> <<MeantTranspose(j.x[1], j.perm)>>
    [] j.op = "Concat" -> <<MeantConcat(j.x, j.axis)>>
    [] j.op = "Gather" -> <<MeantGather(j.x[1], j.x[2], j.axis)>>
    [] j.op = "Pad" -> <<MeantPad(j.x[1], j.pads, j.value)>>
    [] j.op = "Where" -> <<MeantWhere(j.x[1], j.x[2], j.x[3])>>
    [] j.op = "Slice" -> <<MeantSlice(j.x[1], j.starts, j.ends, j.axes, j.steps)>>
    [] j.op = "Split" -> MeantSplit(j.x[1], j.axis, j.meant)
    [] j.op = "Cast" -> <<MeantCast(j.x[1], j.to)>>
    [] j.op = "Binary" -> <<MeantBinary(j.x[1], j.x[2], j.fn)>>
    [] j.op \in {"Reshape", "Flatten", "Unsqueeze", "Squeeze"} -> <<Reshaped(j.x[1], j.meant)>>
    [] j.op = "Shape" -> <<New("INT64", <<Len(j.meant)>>, [i \in 0 .. Len(j.meant) - 1 |-> j.meant[i + 1]])>>
    [] j.op = "Range" -> <<MeantRange(j.x[1].dtype, j.x[1].data[0], j.x[2].data[0], j.x[3].data[0])>>
    [] j.op = "Expand" -> <<MeantExpand(j.x[1], j.target)>>
    [] j.op = "Tile" -> <<MeantTile(j.x[1], j.repeats)>>
    [] j.op = "GatherElements" -> <<MeantGatherElements(j.x[1], j.x[2], j.axis)>>
    [] j.op = "ScatterND" -> <<MeantScatterND(j.x[1], j.x[2], j.x[3])>>
    [] j.op = "TopK" -> MeantTopK(j.x[1], j.k, j.axis, j.largest)
    [] j.op = "CumSum" -> <<MeantCumSum(j.x[1], j.axis, j.exclusive, j.reverse)>>
    [] j.op = "Reduce" -> <<MeantReduce(j.x[1], j.axis, j.fn, j.keepdims)>>
    [] j.op = "Compare" -> <<MeantCompare(j.x[1], j.x[2], j.fn)>>
    [] j.op = "Mod" -> <<MeantMod(j.x[1], j.x[2], j.fmod)>>
    [] j.op = "Softmax" -> <<MeantSoftmax(j.x[1], j.axis)>>
    [] j.op = "ArgMax" -> <<MeantArgMax(j.x[1])>>
    [] j.op = "LayerNorm" -> <<MeantLayerNorm(j.x[1], j.x[2], SubSeq(j.x, 3, Len(j.x)), j.eps)>>
    [] j.op = "RMSNorm" -> <<MeantRMSNorm(j.x[1], j.x[2], j.eps)>>
    [] j.op = "SkipRMSNorm" -> <<MeantRMSNorm(MeantBinary(j.x[1], j.x[2], "Add"), j.x[3], j.eps)>>
    [] j.op = "BatchNorm" -> <<MeantBatchNorm(j.x[1], j.x[2], j.x[3], j.x[4], j.x[5], j.eps)>>
    [] j.op = "Clip" -> <<MeantClip(j.x[1], j.low, j.high)>>
    [] j.op = "Unary" -> <<MeantUnary(j.x[1], j.fn, j.alpha)>>
    [] j.op = "Attention" -> MeantAttention(j)
    [] j.op = "MatMul" -> <<MeantMatMul(j.x[1], j.x[2])>>
    [] j.op = "Gemm" -> <<MeantGemm(j)>>
    [] j.op = "NBits" -> <<MeantNBits(j, Block)>>
    [] j.op = "DynamicQuantize" -> MeantDynamicQuantize(j.x[1])
    [] j.op = "Dequantize" -> <<MeantDequantize(j)>>
    [] j.op = "Quantize" -> <<MeantQuantize(j)>>
    [] j.op = "MatMulInteger" -> <<MeantMatMulInteger(j)>>
    [] j.op = "Conv" -> <<MeantConv(j)>>
    [] j.op = "ConvTranspose" -> <<MeantConvTranspose(j)>>
    [] j.op = "ConvInteger" -> <<MeantConvInteger(j)>>
    [] j.op = "Pool" -> <<MeantPool(j)>>
    [] j.op = "Resize" -> <<MeantResize(j)>>
    [] j.op = "GridSample" -> <<MeantGridSample(j)>>
    [] j.op = "Floor" -> <<MeantFloor(j.x[1])>>
    [] j.op = "Not" -> <<MeantCompare(j.x[1], Ones("BOOL"), "Less")>>
    [] j.op = "ConstantOfShape" -> <<Make(j.dtype, j.shape, LAMBDA c : j.value)>>

=============================================================================
