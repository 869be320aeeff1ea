# A TLA+ development of onnx-vulkan-rs-edge

The engine runs ONNX graphs on a Vulkan compute device.  This directory models
what decides what is computed, when, and in whose memory: how a model is loaded,
rewritten and partitioned, how a graph is executed and its values released, what
every operator computes and how its launches are laid out on the device, who owns
device memory across runs, and the deferred command stream under all of it.
Paths below are relative to `src/crates/`.

## 1. The system

```
 vulkan-ep (ONNX Runtime EP)      onnx-vulkan (standalone Session, Run)
      |  device_mem, ort_io            |  onnx-vulkan-frontend (protobuf -> GraphIr)
      +---------------+----------------+
              onnx-vulkan-core
      rewrite / fusion -> executor -> interp -> ExecutionEnv
                                           |          |
                                      KernelCache (per session)
              vk-compute
      stream (record, flush, wait)  buffers/pools  descriptors  context
                       |
                   the GPU queue
```

| component | state | operations | interacts with |
|---|---|---|---|
| deferred command stream, `vk-compute/src/stream.rs` | open command buffer, commands recorded in it, ring of submissions in flight with fence and deferred releases, releases that wait for the next submission | upload, dispatch, copy, flush, flush_wait, finish_stream, download, defer_destroy | pools, descriptor arena, queue; all threads through one mutex |
| buffers and pools, `buffer.rs` | storage pool, staging pool | create, recycle, drain, release of staging | stream |
| descriptor arena, `descriptor.rs` | pools, the current one, its used slots | acquire, reset | stream |
| context, `context.rs` | device, queue, `submit_lock` | one-shot submissions | stream |
| executor and interpreter, `onnx-vulkan-core/src/{executor,interp}.rs` | kept nodes, last readers, position in the graph | run, run_wanted, execution of nodes and of `If` | environment, kernel cache |
| execution environment, `execution.rs` | values by name (host, owned, borrowed), memoized host copies | set, host, ensure_device_dtype, move_value, release, take_device, finish | stream, kernel cache |
| kernel cache, `cache.rs` | pipelines, packed weights, resident initializers | get-or-build, Drop | stream |
| fusion, rewrites, `fusion.rs`, `rewrite.rs` | a graph | convex groups, folding, pruning, pattern fusions | executor, EP |
| host operators, shapes, `host_ops.rs`, `shape.rs` | none | pure functions | interpreter |
| frontend, `onnx-vulkan-frontend/` | a model | decoding, shape inference | session |
| execution provider, `vulkan-ep/` | map of live allocations, kernels, fused subgraphs | alloc, free, copy tensors, capability, compile, run | ONNX Runtime, core, stream |
| applications, `stt-app`, `model-runner` | decoder state | greedy TDT decoding | session |

What is hard in this code is first *when memory may be reused*.  A dispatch is
recorded now and executed later, perhaps after other operations have released,
recycled or reset what it refers to; the stream is one for the whole process and
drops its mutex while it waits; an executor frees a value at its last reader,
which it must compute for readers hidden in the branches of an `If` and for
nodes that are pruned.  Second, *what a graph may be turned into*: a node fused,
folded, claimed or dropped changes what its neighbours may rely on.  Third, *how
an index is computed*: every operator has a path on the host and one or more on
the device, with grids rounded up, folded, tiled and split, and all of them have
to agree.  Correctness of the parts:

* stream: nothing that a command buffer still to be executed refers to is
  destroyed, recycled into an upload, or reset; recorded work reaches the queue,
  once, in order; no more submissions than the cap are outstanding; what waits
  ends; a release runs exactly once;
* executor and environment: no kept node reads a value that is pruned, released
  or stale; every wanted output is there at the end; no more is kept or held than
  is needed;
* operators: host and device compute what ONNX defines, inside their buffers, each
  element once, whatever the order of workgroups and lanes;
* session memory: a buffer has one owner, keeps what it holds until its owner lets
  go of it, and is not destroyed under work outstanding;
* kernel cache: an entry, once there, stays; what it hands out lives as long as it
  is used and is what was asked for;
* rewrites: the transformed graph computes the same outputs and carries nothing dead;
* partition: a group can run as one node, is as large as it can be, and is accepted
  once it was claimed;
* inference: what is told of a value is true of it;
* EP memory: an interior pointer resolves to the one live allocation around it.

## 2. Modules

A module is named below the part it models.  Modules without a theorem or a run
of their own are extended by the ones that have.

| part | modules |
|---|---|
| command stream | `CommandStream`; `DeviceWork`, what it promises; `MCCommandStream`; proofs `CommandStreamSafety`, `CommandStreamDelivery` |
| a run of a graph | `GraphExecution`; `MCGraphExecution`; proofs `GraphExecutionProofs` |
| memory across runs | `KernelCache` over `DeviceWork`, `SessionMemory` over `KernelCache`, `ProviderMemory` over `SessionMemory`; `MCSession`; proofs `SessionMemoryProofs` |
| loading a graph | `OnnxGraph`, `GraphRewrites`, `Partition`, composed in `GraphLoad`; what graphs mean, `GraphMeaning`; `MCGraphLoad`; proofs `GraphLoadProofs` |
| operators | `Tensors`, `HostOps`, `DevicePlan`, `MovementKernels`, `RowKernels`, `AttentionKernel`, `MatrixKernels`, `QuantizedKernels`, `WindowKernels`, collected in `Operators` and run by `OperatorRun`; what ONNX says of them, `OnnxOperators`, `OnnxRows`, `OnnxMatrices`, `OnnxWindows`; `MCOperators`; proofs `TensorProofs`, `OperatorProofs`, `AxisOperatorProofs` |
| type and shape inference | `ShapeInference`; the operators of `OperatorRun` as nodes to infer, `OperatorTypes` |

### CommandStream

One action is one critical section of `StreamState`'s mutex, or one stretch of
code without it; `pc[t]` names the section thread `t` is about to enter and
`back[t]` where `wait_and_reap` returns to.

| model | code |
|---|---|
| `opened`, `open` | `StreamState.buffer` (its length, and the handle `last()`) and `open` |
| `dispatches`, `deferred`, `pending` | `pending_dispatches`, `pending_deferred`, `pending` |
| `refers[c]`, `binds[c]` | memory and descriptor sets that command buffer `c` refers to |
| `queue`, `executed` | the device queue and how far the GPU has come; the fence of submission `f` is signaled when `f <= executed` |
| `place[m]` | nowhere, with its owner, in a pool, or on a deferred list |
| `arena` | `DescriptorArena` |
| `StreamUpload`, `StreamDispatch`, `StreamCopy` | `stream_upload_at`, `stream_dispatch_slices`, `stream_copy_range`; when the chunk is full the thread goes on to `flush` |
| `FlushEmpty`, `FlushSubmit`, `FlushBackPressure`, `FlushResubmit` | the paths of `flush`: nothing open; submit under the first lock; take the oldest, unlock and wait; relock and submit |
| `PopLast`, `DrainNewest`, `DrainDone` | `flush_wait` and `finish_stream`, which take the *newest* submission |
| `WaitFence`, `RunCompletion`, `CheckIdle`, `ResetDescriptors`, `FreeSubmission` | `wait_and_reap` and `run_completion`, cut at their locks |
| `Download`, `CopyOut`, `CopyWait`, `RunCommands` | readback and one-shot submissions under `submit_lock` |
| `GpuExecute` | the device, external: it executes its queue in order |

What a dispatch computes, its barriers, the sizes of buffers and the profiling
pools are left out: no property is about them.  Of the Vulkan calls only
`vkQueueSubmit` in `flush` may fail (`SubmitOutcomes`).

`DeviceWork` is the abstract specification: no ring, fence, lock or thread, one
step per operation.  Memory that was given up is overwritten or destroyed at some
moment when no command still to be executed refers to it.  `Promise` in
`CommandStream` maps the detailed state to it (what is still to execute is what
was recorded and not yet executed; a submission in the ring still holds what it
defers), and `KeepsPromise` is `DeviceWork`'s specification under that mapping.
`stream_drop` shows a client for whom the code breaks the promise.  The modules of
memory across runs take from `DeviceWork` how commands are recorded and executed, but
not the promise: what a client lets go of follows `stream.rs` there too (below).

### GraphExecution

A value is where it resides (`home`) and which execution produced it (`from`).
`Mark` is one turn of the worklist of `kept_nodes`; `Planned` ends it.
`ExecNode`, `SkipPruned`, `EnterIf`, `ExecBranchNode` and `LeaveIf` are the loop
of `execute_nodes` with `if_op` cut at every node of the branch; `ReadOutput`
and `Finish` are what the host does with `Outputs`.  The environment's methods
are operators from an environment to an environment (`Set`, `Release`,
`MoveValue`, `EnsureDevice`, `HostCopies`), used by the actions in the order of
the code.  An operator reads all its inputs on the device or all on the host,
and host copies are memoized or not: which of these happens depends on dtype and
size, and is left open.  `Fail` is the error of a read of a missing value.

A graph is data: nodes with the names they read and bind, and for an `If` the
branches with their initializers, nodes and result (one result per branch; the
code moves several in the order of the node's outputs).  `Step.captured` is what an
`If` *inside* a branch reads in its own branches.

### KernelCache, SessionMemory, ProviderMemory

Here memory has contents: `holds[m]` is what a buffer contains once the commands
recorded so far have run, and a kernel that reads anything but what it was meant
to read writes `Garbage`.  A value is the run and the name it belongs to.

`KernelCache` is `cache.rs`: the tables of pipelines, packed weights, uploaded and
transposed initializers and the zero scalar.  A thread looks an entry up (`Miss`),
builds with the lock released (`Build`), and looks again (`Insert`), where the
second of two threads destroys its own copy.  `KeyOf` is the key under which the
code caches, which may say less than what was asked for.
Under it is the stream as its clients meet it: the ring `pending`, in which every
submission has the memory it releases, and `deferred`, what is carried to the next
one.  `DeferDestroy` hangs a buffer on the newest submission in flight *whatever the
open command buffer refers to*, or carries it when there is none; `Submit` closes the
command buffer if the ring is below `MaxInFlight`; `BackPressure` reaps the oldest
submission when its commands have executed, and `FinishStream` all of them.  Reaping
destroys buffers and pools staging buffers, and no guard asks whether something still
refers to them.  `CommandStream` has the threads, locks and fences in between.

`SessionMemory` runs a fixed sequence of nodes, several runs after and beside one
another: `EnsureDevice` and `RunNode` create buffers, release what dies with a node
and read what the cache holds; `Take` detaches an output, `CloneHandle`,
`DropHandle` and `Begin` are what a client does with it; `Finish` and `Fail` end an
environment and let go of its buffers and of all that is pooled (`Given`,
`ReleaseOwned`).  Wherever something is let go of, `MayDrop` says what kind of client
it is: an ordinary one does not while the open command buffer refers to it and older
submissions are in flight; one of kind `recorded` does, as nothing in the code keeps
it from doing so.  Which names die where is the subject of `GraphExecution` and is
given here.

`ProviderMemory` adds the plugin: `Alloc` and `Free` keep the map of address ranges
(`LIVE`), `Resolve` is `region_from_ptr`, `CopyIn`, `CopyAcross`, `ReadInput`,
`WriteOutput` and `Return` are `copy_tensors`, `read_input`, `write_output` and the
end of a fused run; inputs are read one per step, and nodes run when all are bound.
ORT is external: it puts tensors anywhere inside a range it
was given, and frees no range that a run borrows.

### Operators

A *job* is an operator with its operands, its attributes and, for every operand,
whether it resides on the host or the device.  `OperatorPlan` is the handler: the
choice of the path, and on the device path the outputs, the temporary buffers and
the launches, each with the items of every workgroup.  `OperatorRun` lets the
workgroups of a launch run in any order and, where a workgroup shares memory,
lets its lanes interleave between barriers; a launch begins when the one before is
complete.  `OperatorStored` is what the thread of an item reads, computes and
stores: the index arithmetic of the shader, with its early returns.  `Computes`
compares the result with the `Onnx*` modules, which define an operator element by
element in terms of coordinates and share nothing with the kernels but the
numbering of elements.

Elements of dtype FLOAT are whole numbers of halves, so truncation, casts and
rounding are seen; kernels that use `exp`, `sqrt` or a division compute with exact
stand-ins, chosen so that every order of evaluation in the code gives the same
(`Unit`, `Exp`, `Root`; interpolation in rational coordinates).  Rounding of floats
is not modelled.  In the kernels for products of matrices, where the lanes of a
column add partial sums, the sum is taken at once; the lanes of reductions,
normalizations and attention do interleave.

The constants are the sizes of the code made small: `LogLocal` and `MaxGroups` for
the workgroup and the longest grid, `MaxRows` and `MaxRank` for the limits of
kernels, tile sizes, split factors and the thresholds that choose between kernels.
Every kernel that `interp.rs` can choose is chosen by some job.

### Loading

A graph is nodes, initializers, inputs and outputs.  `GraphRewrites` translates
every rewrite of `rewrite.rs`, each an operator from graphs to graphs that follows
the code's search (which node it starts from, which inputs it tries, which readers
it counts) and its edit (where the new node goes, what is deleted).
`Partition` is `convex_groups`: `Merge` looks at one wire, `NextPass` starts over
when the pass changed something, `Collect` returns the groups.  `GraphLoad` puts
them together: the standalone host lowers the whole model (`Lower`); the plugin
claims nodes, groups them and compiles the block that ORT makes of a group
(`Claim`, `Group`, `Compile`); then either goes through the rewrites in the order of
`Executor::new`, with the choices that environment variables make, prunes, and
admits or refuses.  The blocks ORT builds are external.

`GraphMeaning` says what a graph computes: floats are terms, and the operators a
rewrite is about are expanded to the terms of their definitions, so that a fused
node equals its pattern only if it is the same arithmetic on the same values.

### Inference

`ShapeInference` translates `shape.rs` of the frontend: `InferNode` is `infer_node`
with a rule per operator, `TypedAfter` one turn of the loop of `infer`, `Infer` the
whole of it, `Disagree` what is reported as a conflict.  A dimension is a number,
a symbol or unknown.  A symbol carries the size it stands for so that what is
inferred can be compared with a result; no rule looks at it.
`OperatorTypes` turns every job of `OperatorRun` into a node, with several views of
what a file may say of its operands: everything, nothing of one shape, of one dtype
or of one dimension, symbols for sizes, and lists (axes, pads, bounds) that are
constants or are computed.

## 3. Runs

| run | question | instance |
|---|---|---|
| `stream_overlap` | types, the invariant of the proofs, memory, staging, descriptors, ring, releases, `finish_stream`, readback, and the refinement of `DeviceWork` | one thread, cap 2, one storage and two staging buffers, three command buffers and submissions, every orderly call |
| `stream_threads` | releases and termination under interleaving | two threads, cap 1, one command per chunk, fair |
| `stream_drop`, `stream_race` | findings | the calls that show them, cap 1, with one and with two threads |
| `graph_small` | pruning, release, memo, the invariant of the proofs | every graph of the family: three nodes, one input, one initializer, up to two `If` nodes, four choices of declared outputs and every wanted subset |
| `graph_nested` | finding | graphs with an `If` inside an `If` |
| `session_own` | contents, ownership and lifetime of memory, address ranges, cache entries | two threads, two nodes, two runs of a session or one of the provider, two handles, six buffers, two pipelines, one staging buffer, two tensors of ORT; cap 2, four command buffers of a session |
| `session_alpha` | finding | two nodes that differ in an attribute |
| `operators` | results of every operator and path, bounds, one store per element, inferred types | some 4,250 jobs in the families of `MCOperators` |
| `operators_race` | finding | attention over four positions, lanes interleaving |
| `load` | meaning through every rewrite, outputs, dead parts, groups, acceptance, termination, types | some 90 models: every pattern, and every twist that changes it or should keep the rewrite from applying, two models side by side, a ring of two; both hosts |
| `load_cycle` | finding | three pairs of nodes in a ring |

Why the bounds are enough.  The stream's code distinguishes: no command buffer
open, one open, a full chunk, a ring below and at the cap, and the idle stream;
three command buffers over a cap of 1 or 2 reach each of these with older work on
both sides.  The arena moves to another pool with two sets per pool; that
descriptor sets are safe at a cap of one too, where back-pressure empties the ring
with a command buffer open, is the theorem `DescriptorsStaySafe`.  Two threads are
enough for a race on the one open command buffer, the one ring and the one arena.
For graphs, three nodes let a value be produced, captured by one node and read by
another in every order, before and after a pruned one; both branch shapes (a value
of its own passed on, an initializer of its own) occur first, second and last.
For memory across runs, two runs let a handle of the first be read by the second
while its buffer is given up, two handles let one be dropped while the other lives,
and six buffers are as many as the program can own at a time.  At a cap
of 2 there is an older submission than the one that memory hangs on, and four command
buffers fill the ring, go through back-pressure and leave one open.  For operators, the
sizes of the jobs lie below, at and above every tile, workgroup and threshold, with
remainders, empty dimensions and broadcasts.  For loading, a pattern has every
member swapped, shared with another reader, given by the caller, or of another
shape at least once.

`MaxOpened`, `MaxSubmissions`, `MaxRuns` and `MaxTensors` bound histories; the
guards that use them are those of the calls that begin new work, so an operation
once begun always finishes.  Runs of graphs, operators and loads are finite and
stop, which is why those configurations do not check deadlock; the one of a session
does not since it stops at its bounds.

What the instances leave out, because the code is known not to hold there
(section 6) or refuses: in `session_own`, the uses `cold`, `busy`,
`transposed` and `recorded` of the constant `Uses` (two threads that upload the same
initializer at once; a session dropped with work outstanding; one dropped after it
transposed an initializer; memory let go of while the open command buffer refers to it
and older submissions are in flight: the first finding of section 6).  In
`operators`, operands the code rejects with an error for a limit of the engine; a
kernel of a convolution that is wider than the padded input; cubic
`pytorch_half_pixel` with one output.  The jobs of attention run their lanes in
lockstep, but for `operators_race`.  In `load`, a pattern with a value that an `If`
captures, a reader that has a masked value twice, masks one behind the other, one
leg of an attention transposed and not the other, and a step of −1 in a pick.
In the views of `OperatorTypes`, what `Misread` and `MisreadUnknown` name.

Symmetry over buffers, staging buffers, handles and threads is used only in runs
without liveness; the buffers of a session are not symmetric, since which of the
new ones is created is fixed to save states.

**Fairness.**  `FairSpec` of `CommandStream` assumes that the GPU executes what is in
its queue and that a thread that has entered an operation takes its next step when
it can.  No fairness is assumed of the clients: they may stop calling.  The code has
no lock that a thread holds while it waits for a fence other than `submit_lock`,
whose holder waits only for the GPU, so weak fairness of each thread is what an
operating system's scheduler gives.  `FairSpec` of `GraphLoad` assumes that the call
that groups the nodes, a loop on one thread, goes on while it can.

## 4. Proofs

`CommandStreamSafety` proves `TypeCorrect`: `Spec => []TypeOK`, for any number
of threads, any calls and any outcome of submissions.  It goes on to prove, from
`Orderly` (one thread; no client drops a buffer the open command buffer refers
to; the queue accepts what it is given), for every cap, chunk length, pool size,
set of buffers and bound:

* `Inductive`: `StreamInv` is an invariant;
* `StagingStaysSafe`, `BuffersStaySafe`, `DescriptorsStaySafe`, `ReapedStaysDone`.

The safety properties are not inductive: they say nothing of what will be
released by a submission still in the ring.  `StreamInv` adds it.  `QueueInv`:
command buffers are queued in the order of recording, so that a signaled fence
tells of every older command buffer.  `CoverInv`: what may still execute is open,
in the ring, or being waited for, so that an empty ring and no open buffer is an
idle stream.  `Outlives`, in `RingInv` and `ThreadInv`: no command buffer *after*
a submission refers to what that submission releases, which is why its fence is
enough to release it.  `ReleasedInv` and `SetsInv` are the goals.  Each action
has a lemma of its own; `Submit`, `TakeInv` (taking a submission out of the ring)
and `GpuInv` carry the argument.  The premise is not for convenience: the runs
`stream_drop` and `stream_race` are counterexamples without it.

`CommandStreamDelivery` proves `PromiseIsKept`: `Spec => KeepsPromise` from
`Orderly` and from `Closing` (the stream is finished when nothing is being recorded).
A call that records maps to the abstract operation of its kind (`ClientStep`),
a submission to `Close`, a completion to `Release`, one step of the GPU to
`Execute`, and everything else to a stutter; `StreamInv` supplies what the abstract
guards ask: that what is released is not in use.

It goes on to what is about order and number.  `HeldOnceAlways`
holds of any number of threads, any calls and refused submissions: a release moves
from `deferred` to one submission, to one thread, and away.  From `Closing` follow
`RecordedWorkIsQueued`, `RingStaysBounded`, `FinishAlwaysDrains` and
`ReadbackSeesItsProducer`; `DeliveryInv` adds to `StreamInv` what was sent in which
order (`SentInv`), that a thread that waits for a submission has taken it out of the
ring and so made room (`RoomInv`), and where `finish_stream` and the copy of a readback
stand (`FinishInv`, `CopyInv`).

`GraphExecutionProofs` proves, for graphs of any size with any number of `If`
nodes, any choice of wanted outputs and any branch taken:

* `RunsAreInvariant`, `RunsNeverFail`, `WantedStayPresent`, `KeptStaysNeeded` and
  `RunTypes`, from `WellScopedGraphs`: every graph is `WellScoped` (a name has one
  producer, nodes read what is bound before them, branches bind names of their
  own and produce their result, no `If` stands inside a branch).  The first three
  of these are ONNX's rules, the last is the one the code does not enforce
  (`graph_nested`).  TLC checks that the graphs of `graph_small` are well scoped;
* `LiveSetStaysHeld`, from `OwnNames`: well scoped, and no branch binds a name that
  the graph around it has (`LocalNames`);
* `MemoStaysCurrent`, from nothing.

The argument joins two analyses that the code runs apart.  `WorklistInv`, at the
end of the plan, says that every producer of what a kept node reads is kept.
`AvailableInv` says that a name bound before the current node and needed from it
on is there; a release cannot break it because `Dead` holds no name needed later,
and skipping a pruned node cannot because nothing kept reads what it would bind.
`BranchInv` and `ShadowInv` carry this through an `If`: what the branch has bound
so far is there, and the names of branch initializers are bound only inside their
branch, so the shadowing check of `if_op` never fires.  `NeedInv` (the worklist
stays inside every set closed under needing) gives minimality.  For the live set
`HeldInv` says of every value that the run owns why it is still held, inside a
branch too: it is an output or an initializer, has a reader still to come, is read by
no node at all, or is an initializer of the branch being executed.

`SessionMemoryProofs` proves, for any program of nodes, any number of threads,
handles, buffers and pipelines, and allocations of any size:

* `EntriesAlwaysStay`, from nothing;
* `TypesAlwaysOK`, `WorkAlwaysSafe` and `OwnedByOne` from `Ordinary`: buffers,
  pipelines and staging buffers are different things; a node binds a name that
  nothing else binds and drops only names it reads; and clients do none of what
  section 3 leaves out (`Uses`);
* `ContentsAlwaysKept` and `TensorsAlwaysKept` from `Ordinary` and `FaithfulKeys`: what
  was asked for can be told from its key.  `session_alpha` is what happens without.

TLC checks both premises of the programs it runs.  The invariant is `MemoryInv`.
`LedgerInv`: a buffer is in the books of one owner only, and every owner's books
are in order, which is `OneOwner` without its arithmetic.  `FreshInv`: a name that no
node has bound yet is absent, so binding it forgets nothing.  `CallInv`: who
builds what, beside whom.  `WorkInv` adds to `WorkSafe` that no command refers to a
pipeline that is still being built, which its builder may have to destroy.
`AttachInv` is why reaping, which looks at nothing, destroys nothing in use: the
submissions are in the order of their command buffers, every command still to be
executed is in the open one or in the ring, all that was let go of hangs on exactly one
submission or is carried, and (`Attached`) no command *after* that submission refers to
it.  When a submission is reaped the commands up to it have executed, so nothing is left
that could.  Hanging memory on the newest submission keeps this only if the open
command buffer does not refer to it, which is the premise that clients are ordinary;
without it `WorkSafe` fails (section 6).
`AddressInv`: ranges of allocations are apart, so an address belongs to one.  `ContentInv` is about contents and is
proved on top: what is in a run, behind a handle, in the cache, in a copy being built
and at an address of ORT is there, and every step writes to memory of one owner only
(`StillThere`), so all the others keep theirs.

`GraphLoadProofs` proves, for every graph that is well formed
and acyclic (`GraphsWellFormed`, `GraphsAcyclic`: what ORT hands over), whatever its
size and the order of its wires: `PartitionTyped`; `LoadedOneWay`, no two clusters
lead to each other, so a group can run as one node; `LoadedMaximal`, a wire between
two groups stands for a third cluster between them; and `LoadingGroups`, a load
implements its partition, which is how the two reach `GraphLoad`.  The invariant
`PartitionInv` says that the clusters are named by their own members and are one
way; that a merge keeps this is `MergeKeepsOneWay`: a pair that led both ways
after it would contain a cluster above and below the two that were merged, which
`Legal` excludes.  For maximality it says that every wire passed over in a pass
that has changed nothing has such a cluster in between.  That the quotient of the
groups is acyclic is *not* a theorem: `load_cycle`.  `GroupsAreSupported`: groups
consist of nodes the plugin supports, which the theorems on loading rest on.

`GraphLoadProofs` goes on to prove of every model, every group and every choice of the
environment variables:

* `OutputsStayProduced`: an output that a node makes in the model, a node makes in what
  is loaded;
* `AllThatIsLeftIsRead`: pruning leaves no node and no constant that nobody reads;
* `ClaimsAreAccepted`: what the plugin claimed, `Executor::new` admits.

They follow from `LoadInv` (`LoadInductive`), which says of the graph between two
rewrites that it is a list of nodes with lists of names (`GraphOK`, so that positions in
it mean something), that it makes what the model makes of its outputs (`HandsOut`), and,
for the plugin, that the interpreter runs all of it (`Runs`); and, after pruning, that
all of it is read (`AllRead`).  Each rewrite is shown to keep these (`Sound`).  Two
lemmas carry the proof.  `RebuiltIs` says what a list is after nodes were removed and
replaced: whatever stands in it stood in the old list or is a replacement.
`RoundsExist` says that a loop of n steps leaves something at each of them, which is what
makes a recursive function of the model equal to its definition; what holds of every
round then follows by the first round of which it would not (`LeastNatural`).  So it is
shown that patterns found are apart, that constants found so far are no outputs, and
that dropping ends: a round that drops something leaves fewer nodes, and there are as
many rounds as nodes.
What is assumed of models is what decoding and ORT provide: `ModelsDecoded` (lists, no
initializer without a name, and one output for the operators of which the patterns look
at `outputs[0]` alone), and, for the plugin, `AxesInitialized`: ORT turns `Constant` nodes
into initializers before it asks.  Without the latter the claim looks at axes that
the extraction (`graph_ir.rs:216`) does not find, and `ClaimedIsAccepted` fails.

`LoadTypes` is `Spec => []TypeOK` of `GraphLoad`: through every rewrite each constant has as
many elements as its shape says.  Its premise is `TensorsDecoded`: the tensors of a *file*
are that long, which decoding does not check and operators do when they read
(`HostTensor::validate`); TLC checks it of the models of `load`.  The invariant is
`DataInv`: every initializer is `Stored`, and so is the value of every `Constant` node,
which a rewrite may turn into an initializer (`Sayable`).  For folding it takes all that
`TensorProofs` knows of the operators folded, and that a fold stores what the operator
returns under a name whose node goes.

`TensorProofs` is about index arithmetic, for shapes of any rank and any dimensions:

* `WalkInside`, `WalkFinds`, `OffsetInside`, `UnwindIsWalk`: coordinates and elements in
  row-major order stand for each other, whichever of the two loops finds them;
* `TileWithin`, `PadWithin`, `SliceWithin`, `ExpandWithin`, `WhereWithin`, `GatherWithin`,
  `GatherElementsWithin`, `ConcatWithin`: what the operators of `host_ops.rs` return is a
  tensor over *any* set `E` that the elements of the operands are in.  As nothing else is
  known of `E`, every element of the result was read inside an operand;
* `BroadcastInside`, and `SliceThreadInside`, `PadThreadInside`, `WhereThreadInside`,
  `GatherThreadInside`: the same of the threads of kernels.  `Load` returns `Outside`
  when it misses a buffer, and a thread whose value is in every such `E` has not missed;
* `LinearOnce`, `FoldingOnce`, `PerRowOnce`, `TiledOnce`: every grid the launches are made
  of gives each item to one workgroup, for any size of workgroup, of tiles and of the
  longest row of a grid.

Premises are what the code leaves to its callers, and section 6 names them: an empty axis
is not sliced backwards, indices are in range on the device, a pad cuts no more than there
is, and `GatherElements` has no indices beyond the other dimensions of its operand.  A
product or a sum over a list is a fold, so a lemma first gives it partial results
(`ProductIs`, `SumsGrow`), and what holds of every partial result follows by the least
position at which it would not (`LeastNatural`, `CountsUpTo`).  Broadcasting goes through
`StretchesTo`: a shape that is a part of a joined one stretches to whatever the joined one
stretches to, so the order of joining does not matter.

`OperatorProofs` proves of `OperatorRun` what it takes for a run to be right, whatever the
operators are: `RunComputes`, and in the same way `RunInBounds` and `RunStoredOnce`.  If
every item of a launch stores one element that is meant and every such element has an item
(`DeviceMeans`), then any order of the workgroups leaves what is meant; if moreover no two
items of a launch store in the same place (`Apart`), nothing is stored twice.  The
invariant says of memory what the workgroups that have run so far have stored there.

The rest of it and `AxisOperatorProofs` show that operators are of that kind, for operands
of any rank and any dimensions: the choice of path, the grid, the index arithmetic of the
thread and the loop of the host are each compared with what `OnnxOperators` says.
`OperatorsCompute`, `OperatorsInBounds` and `OperatorsStoreOnce` put this together for jobs
that are `Proved`: some 2,890 of the 4,250 jobs that `operators` runs are.  A run has one
job and `Jobs` is a parameter, so what the theorems say of a set of such jobs holds of each
of them, beside whatever others.  These are

| definition | operators | what is asked of a job, beside operands as long as their shapes say |
|---|---|---|
| `Pads` | Pad | no pad leaves a dimension negative |
| `Tiles`, `Fills` | Tile, ConstantOfShape | a count per dimension; dimensions of a shape |
| `Casts` | Cast | data of a BOOL are 0 and 1, and no cast of a float to BOOL, which truncates first |
| `Reshapes` | Reshape, Flatten, Squeeze, Unsqueeze | the shape the code comes to is the one that is meant, and has as many elements: what is left is that the data stay |
| `Maps`, `Normalizes` | unary functions and Clip; batch normalization | floats |
| `Selects`, `Expands` | Where, Expand | shapes that broadcast; a condition of dtype BOOL, branches of one dtype |
| `Combines`, `Compares` | Add, Sub, Mul, Div, Pow, Min, Max; comparisons | operands of one dtype whose shapes broadcast; floats, or INT64 without a zero divisor or a negative power |
| `Gathers`, `Picks` | Gather, GatherElements | whole indices, in range where no path checks it, and on the host an operand with elements where there are indices; none beyond the other dimensions of the operand |
| `Reduces` | sums, means, maxima along one axis | FLOAT, INT64, INT32; the axis is not empty |
| `Splits` | Split | sizes that add up to the dimension |
| `Excerpts` | Slice | an axis named once, steps that are not 0, an empty axis not walked backwards |
| `Transposes` | Transpose | a reordering of all axes |

with no more axes on the device than a kernel has room for (`MaxRank`) where it has a
limit, which the code checks.  What is left out are the divergences of section 6, operands
an operator refuses, and mixed dtypes of `Where` and `Binary`.  `Limits` asks of a device and a build
that workgroups, launches and tiles are not empty, and `RunsOperator` that a job is run by
the plan, the threads and the meaning of `Operators` and `OnnxOperators`.
`OperatorsInBounds` asks that nothing that is meant is the number `Outside` that the model
gives to a load beside a buffer.  Two ideas carry the proofs.  Everything that walks a
shape is a dot product of coordinates with strides, so an operator that permutes, skips or
repeats coordinates changes terms of it (`DotReorders`); and a place falls
into quotient and remainder at every axis (`RemainderOf`, `JoinThree`), so that what comes
before an axis, on it and after it can be told apart and put together again.

## 5. What is only model-checked

Liveness (`CallsReturn`, `GroupsFound`) and, but for `HeldOnce` and `TypeOK`, whatever
concerns two threads of the stream.

The other operators, for `Computes`, `InBounds` and `StoredOnce`: those whose lanes share
memory or whose passes build on each other (the reductions of normalizations, softmax,
attention, `TopK`, `CumSum`), products of matrices, windows and resizing, where a sum is
taken in another order than it is meant, which takes induction over data; and, not
attempted, `Concat` and a few small ones (`Mod`, `Floor`, `Not`, `Range`,
`Shape`, `ScatterND`, quantization).  The order of lanes that share memory is checked by TLC
alone.  `Preserves` compares terms that two folds over graphs build.  The inference
(`InferenceHolds`, `TypesHold`) names sizes and values with strings put together, which the
provers know nothing of.

## 6. Findings

1. `stream_drop` (`vk-compute/src/stream.rs:376`).  `defer_destroy` attaches a buffer
   to the newest submission in flight even if the *open* command buffer refers to it.
   A wait for that submission, by back-pressure for instance, destroys the buffer
   before the open command buffer executes.  The engine's own callers let go in this
   way: the end of an environment (`onnx-vulkan-core/src/execution.rs:366`), the last
   handle of a persistent value (`device.rs:26`) and an allocation that ORT frees
   (`vulkan-ep/src/device_mem.rs:224`).  With `Uses = {"recorded"}`, one thread and a cap
   of 1, TLC finds `WorkSafe` of `MCSession` violated: recorded work is flushed in the
   middle of a run, a node fails, its buffers hang on the submission in flight though the
   open command buffer refers to them, and the next flush reaps that submission.
2. `stream_race` (`stream.rs:405`).  `flush` drops the lock for the back-pressure
   wait and submits afterwards without another look at `open`: two threads at the
   cap submit the same command buffer twice.
3. `graph_nested` (`onnx-vulkan-core/src/interp.rs:468`).  The analyses look one level
   deep into the branches of an `If`; the support check and `if_op` accept an `If`
   inside a branch.  What only the inner one reads is pruned or released too early.
4. `session_alpha` (`interp.rs:1415`).  `LeakyRelu` writes `alpha` into the shader
   source and caches the pipeline under the operator's name: the second node of a
   session runs with the `alpha` of the first.
5. `operators_race` (`shaders/group_query_attention.rs:115`).  No barrier stands between
   the last read of the maximum in `reduce[0]` and the first store of a sum there: a
   slow lane takes the sum for the maximum.
6. `load_cycle` (`fusion.rs:205`).  A merge is tested against one cluster above and
   below; a cycle through two or more other groups is not seen.

Seen while modelling, without a run of their own:

* memory: `finish_stream` marks the stream closed without submitting the command
  buffer that is open (`stream.rs:588`); a submission that the queue refuses enters
  the ring with a fence nothing signals (`stream.rs:444`); a pruned node is skipped
  together with its releases (`interp.rs:388`); the loser of two threads that upload
  one initializer destroys a buffer the open command buffer copies into
  (`cache.rs:141`), and `Drop` of the cache flushes without waiting (`cache.rs:223`);
* rewrites: readers inside branches of an `If` are not counted (`rewrite.rs:58`); a
  reader that has a masked value twice keeps one of them (`rewrite.rs:919`);
  `fuse_gqa_qk_deint` sets the flag when one leg was transposed, and its comment asks
  for a producer and an attribute that the code does not check (`rewrite.rs:1089`);
* inference (`onnx-vulkan-frontend/src/shape.rs`): a list that is computed is taken for
  one that is absent, by `Squeeze`, `Split`, the reductions, and the axes and steps of
  `Slice`; `Shape` ignores `start` and `end`; `QuantizeLinear` gives UINT8 when the
  dtype of its zero point is not known; `Min` and `Max` look at two inputs; `ArgMax`
  without an axis reduces all; a value declared with a dtype alone never gets the
  shape that is inferred for it;
* operators: `Resize` with `pytorch_half_pixel` and one output takes −0.5;
  `Binary` and `Range` on the host give INT64 for INT32 and FLOAT for bytes; a cast of
  a float to BOOL truncates 0.5 to false; `TopK` and `CumSum` of INT64 go through
  floats; `Slice` with a negative step on an empty dimension panics, and so do `Gather`
  on the host with indices into an operand without elements, for which it counts one row
  (`host_ops.rs:772`), and `TopK` on an empty axis, by which it divides
  (`host_ops.rs:938`); `Gather` on the
  device does not check indices, `GatherElements` not the dimensions of its indices
  beside the axis, nor `Pad` on the device that it leaves no dimension negative;
  `Reshape` without −1 does not check the product, nor `Squeeze` that what it drops is
  1; an optional zero point of `MatMulInteger` is indexed as if it were there; a
  `MatMulNBits` with no columns and a `MatMul` with an empty batch; one-dimensional
  dispatches may exceed 65535 workgroups;
* plugin: the attribute reader drops graphs, so an `If` is never claimed.

## 7. Not modelled

Rounding of floats; the SPIR-V of the cooperative matrix kernel; shader texts beyond
what their threads compute; instance, device and pipeline creation; the pipeline
cache file; statistics and traces; decoding of protobuf and of external weights;
the C interface glue of the execution provider and its single-operator kernels,
which repeat what the interpreter does with the same shaders; the speech application
and the model runner.  They are numeric, generated, driver calls without state of
their own, or users of the engine.  Host synchronisation of Vulkan command pools and
the memory effects of barriers are listed as hazards and have no property.
Byte sizes of tensors and size classes of pools are abstracted away: a buffer fits.

## 8. Plan

1. The theorems about operators for `Concat` (the argument about runs already allows that
   launches store in one output), then for the small operators of section 5.
2. Several results per branch of an `If`, and the nodes of `SessionMemory` taken from
   `GraphExecution`.
3. The greedy decoding loop of the speech application (`tdt.rs`).
