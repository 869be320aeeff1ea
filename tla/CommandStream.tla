--------------------------- MODULE CommandStream ---------------------------
(***************************************************************************)
(* The deferred command stream of vk-compute (stream.rs) with what it      *)
(* shares: the staging and storage pools (buffer.rs), the descriptor arena *)
(* (descriptor.rs) and the one-shot submissions of context.rs.             *)
(*                                                                         *)
(* Host threads record commands into the one open command buffer, close    *)
(* and submit it, wait for fences and run the deferred releases attached   *)
(* to a submission.  Every mutex critical section is one action; what the  *)
(* code does after an unlock is another one, so that threads interleave    *)
(* exactly where the locks let them.  The GPU executes what was submitted, *)
(* in submission order, at its own pace.                                   *)
(*                                                                         *)
(* A command buffer is the number of its allocation, so `opened` is the    *)
(* length of StreamState.buffer and also the handle `buffer.last()`; a     *)
(* fence is the position of its submission in the queue.  Commands carry   *)
(* only the memory and the descriptor sets they refer to, not what they    *)
(* compute.                                                                *)
(***************************************************************************)
EXTENDS Integers, Sequences, FiniteSets

CONSTANTS
  Thread,            \* host threads sharing the process-global VkContext
  Buffer,            \* device-local storage buffers that may exist
  Staging,           \* upload staging buffers that may exist (bounds the model)
  MaxInFlight,       \* max_in_flight()
  MaxDispatches,     \* max_dispatches_per_submit()
  SetsPerPool,       \* SETS_PER_POOL
  Calls,             \* what the clients of the stream do, out of AllCalls
  SubmitOutcomes,    \* what vkQueueSubmit may answer: TRUE is success
  MaxOpened,         \* bound: command buffers ever opened by the stream
  MaxSubmissions     \* bound: no one-shot copy is begun past this many submissions

\* "defer_recorded" is a defer_destroy (or a drained pool) of a buffer that the
\* open command buffer refers to, "finish_open" a finish_stream while one is open.
AllCalls == {"create", "recycle", "drain_pool", "defer_destroy", "defer_recorded",
             "upload", "dispatch", "copy", "flush", "flush_wait", "download",
             "run_commands", "finish_stream", "finish_open"}

ASSUME CapAssumption == MaxInFlight \in Nat \ {0} /\ MaxDispatches \in Nat \ {0}
ASSUME PoolAssumption == SetsPerPool \in Nat \ {0}
ASSUME CallsAssumption == Calls \subseteq AllCalls /\ SubmitOutcomes \subseteq BOOLEAN
ASSUME MemoryAssumption == Buffer \cap Staging = {}
ASSUME BoundAssumption == MaxOpened \in Nat /\ MaxSubmissions \in Nat

VARIABLES
  opened,       \* number of command buffers allocated: the newest is buffer.last()
  open,         \* StreamState.open
  dispatches,   \* StreamState.pending_dispatches
  deferred,     \* StreamState.pending_deferred
  pending,      \* StreamState.pending
  refers,       \* refers[c]: the memory command buffer c refers to, until it is freed
  binds,        \* binds[c]: the descriptor sets command buffer c binds
  queue,        \* queue[f]: the f-th submission; 0 stands for a one-shot copy
  executed,     \* the GPU has executed queue[1..executed]: those fences signaled
  place,        \* where each piece of memory is
  arena,        \* DescriptorArena
  pc,           \* the lock-free section each thread is about to enter
  call,         \* the public operation each thread is in
  back,         \* where the thread goes on when wait_and_reap returns
  sub           \* the submission the thread took out of pending

streamVars == <<opened, open, dispatches, deferred, pending, refers, binds>>
gpuVars    == <<queue, executed>>
memVars    == <<place, arena>>
threadVars == <<pc, call, back, sub>>
vars       == <<streamVars, gpuVars, memVars, threadVars>>

Memory == Buffer \cup Staging

\* Submission: its command buffer, its fence (0: the submit failed, the fence is
\* never signaled) and its on_complete list.
NoSub == [cmd |-> 0, fence |-> 0, onComplete |-> {}]

Signaled(fence) == fence # 0 /\ fence <= executed

----------------------------------------------------------------------------
\* What the GPU may still read or write.

\* Submissions that the GPU may be executing or has still to execute.
InFlight == (executed + 1) .. Len(queue)

\* Command buffers that will execute: the open one and those in flight.
Live == {c \in 1 .. opened : (open /\ c = opened) \/ \E f \in InFlight : queue[f] = c}

LiveMemory == UNION {refers[c] : c \in Live}
LiveSets   == UNION {binds[c] : c \in Live}

\* The sets handed out by acquire_descriptor_set since the last reset.
Allocated ==
  {d \in (0 .. arena.current) \X (0 .. SetsPerPool - 1) :
     d[1] < arena.current \/ d[2] < arena.used}
----------------------------------------------------------------------------
Init ==
  /\ opened = 0 /\ open = FALSE /\ dispatches = 0
  /\ deferred = {} /\ pending = <<>>
  /\ refers = <<>> /\ binds = <<>>
  /\ queue = <<>> /\ executed = 0
  /\ place = [m \in Memory |-> "none"]
  /\ arena = [pools |-> 0, current |-> 0, used |-> 0]
  /\ pc = [t \in Thread |-> "idle"]
  /\ call = [t \in Thread |-> "none"]
  /\ back = [t \in Thread |-> "idle"]
  /\ sub = [t \in Thread |-> NoSub]

Idle(t) == pc[t] = "idle"

\* A client call: the thread enters the section `section` of operation `op`.
Enter(t, op, section) ==
  /\ op \in Calls
  /\ Idle(t)
  /\ pc' = [pc EXCEPT ![t] = section]
  /\ call' = [call EXCEPT ![t] = op]
  /\ UNCHANGED <<back, sub>>

Return(t) ==
  /\ pc' = [pc EXCEPT ![t] = "idle"]
  /\ call' = [call EXCEPT ![t] = "none"]

Goto(t, section) ==
  /\ pc' = [pc EXCEPT ![t] = section]
  /\ UNCHANGED call

----------------------------------------------------------------------------
(* Recording: ensure_buffer, then one command in the open command buffer.  *)

Record(memory, sets) ==
  /\ open' = TRUE
  /\ IF open
       THEN /\ refers' = [refers EXCEPT ![opened] = @ \cup memory]
            /\ binds' = [binds EXCEPT ![opened] = @ \cup sets]
            /\ UNCHANGED opened
       ELSE /\ opened < MaxOpened
            /\ refers' = Append(refers, memory)
            /\ binds' = Append(binds, sets)
            /\ opened' = opened + 1

\* Mutant: the pool is taken to be full one slot too late.
AcquiredLate ==
  LET next == IF arena.used > SetsPerPool THEN arena.current + 1 ELSE arena.current
  IN  [pools   |-> IF next >= arena.pools THEN arena.pools + 1 ELSE arena.pools,
       current |-> next,
       used    |-> IF next = arena.current THEN arena.used + 1 ELSE 1]

\* acquire_descriptor_set: the arena after handing out one more set, which is
\* the last slot in use of its current pool.
Acquired ==
  LET next == IF arena.used >= SetsPerPool THEN arena.current + 1 ELSE arena.current
  IN  [pools   |-> IF next >= arena.pools THEN arena.pools + 1 ELSE arena.pools,
       current |-> next,
       used    |-> IF next = arena.current THEN arena.used + 1 ELSE 1]

\* Mutant: the staging buffer goes back to its pool as soon as the copy is recorded.
UploadReturningStaging(t, b) ==
  /\ "upload" \in Calls /\ Idle(t)
  /\ place[b] = "owned"
  /\ \E s \in Staging :
       /\ place[s] \in {"none", "pool"}
       /\ Record({b, s}, {})
       /\ place' = [place EXCEPT ![s] = "pool"]
  /\ UNCHANGED <<dispatches, deferred, pending, gpuVars, arena, threadVars>>

\* stream_upload_at: a pooled staging buffer if there is one, else a new one; it
\* is held until the submission that carries the copy completes.
StreamUpload(t, b) ==
  /\ "upload" \in Calls /\ Idle(t)
  /\ place[b] = "owned"
  /\ \E s \in Staging :
       /\ IF \E u \in Staging : place[u] = "pool"
            THEN place[s] = "pool"
            ELSE place[s] = "none"
       /\ Record({b, s}, {})
       /\ place' = [place EXCEPT ![s] = "deferred"]
       /\ deferred' = deferred \cup {s}
  /\ UNCHANGED <<dispatches, pending, gpuVars, arena, threadVars>>

\* stream_dispatch_slices: the flush of a full command buffer comes after unlock.
StreamDispatch(t, bs) ==
  /\ "dispatch" \in Calls /\ Idle(t)
  /\ \A b \in bs : place[b] = "owned"
  /\ Record(bs, {<<Acquired.current, Acquired.used - 1>>})
  /\ arena' = Acquired
  /\ dispatches' = dispatches + 1
  /\ IF dispatches + 1 >= MaxDispatches
       THEN /\ pc' = [pc EXCEPT ![t] = "flush"]
            /\ call' = [call EXCEPT ![t] = "dispatch"]
       ELSE UNCHANGED <<pc, call>>
  /\ UNCHANGED <<deferred, pending, gpuVars, place, back, sub>>

\* stream_copy_range, for a copy that is not empty.
StreamCopy(t, src, dst) ==
  /\ "copy" \in Calls /\ Idle(t)
  /\ place[src] = "owned" /\ place[dst] = "owned"
  /\ Record({src, dst}, {})
  /\ UNCHANGED <<dispatches, deferred, pending, gpuVars, memVars, threadVars>>

----------------------------------------------------------------------------
(* Storage buffers: the client owns a buffer from create_storage_buffer to *)
(* recycle_storage_buffer or defer_destroy.                                *)

\* create_storage_buffer: a pooled buffer when there is one of the size.  The
\* pool is indexed by exact size, so a new one may be made beside other sizes.
CreateStorageBuffer(t, b) ==
  /\ "create" \in Calls /\ Idle(t)
  /\ place[b] \in {"none", "pool"}
  /\ place' = [place EXCEPT ![b] = "owned"]
  /\ UNCHANGED <<streamVars, gpuVars, arena, threadVars>>

RecycleStorageBuffer(t, b) ==
  /\ "recycle" \in Calls /\ Idle(t)
  /\ place[b] = "owned"
  /\ place' = [place EXCEPT ![b] = "pool"]
  /\ UNCHANGED <<streamVars, gpuVars, arena, threadVars>>

\* Mutant: nothing is open, so the buffers are destroyed at once.
DeferWhenOpen(bs) ==
  /\ IF pending # <<>> /\ open
       THEN /\ pending' = [pending EXCEPT ![Len(pending)].onComplete = @ \cup bs]
            /\ UNCHANGED deferred
       ELSE /\ deferred' = IF open THEN deferred \cup bs ELSE deferred
            /\ UNCHANGED pending
  /\ place' = [m \in Memory |-> IF m \notin bs THEN place[m] ELSE IF open THEN "deferred" ELSE "none"]

\* The destruction of bs is attached to the newest submission in flight, or
\* carried to the next one when there is none.
Defer(bs) ==
  /\ IF pending # <<>>
       THEN /\ pending' = [pending EXCEPT ![Len(pending)].onComplete = @ \cup bs]
            /\ UNCHANGED deferred
       ELSE /\ deferred' = deferred \cup bs
            /\ UNCHANGED pending
  /\ place' = [m \in Memory |-> IF m \in bs THEN "deferred" ELSE place[m]]

\* Buffers a client may let go of: all of them, or with "defer_recorded" left
\* out only those that the open command buffer does not refer to.
MayDrop(bs) ==
  open /\ "defer_recorded" \notin Calls => refers[opened] \cap bs = {}

DeferDestroy(t, b) ==
  /\ "defer_destroy" \in Calls /\ Idle(t)
  /\ place[b] = "owned"
  /\ MayDrop({b})
  /\ Defer({b})
  /\ UNCHANGED <<opened, open, dispatches, refers, binds, gpuVars, arena, threadVars>>

DrainStoragePool(t) ==
  LET pooled == {b \in Buffer : place[b] = "pool"} IN
  /\ "drain_pool" \in Calls /\ Idle(t)
  /\ pooled # {}
  /\ MayDrop(pooled)
  /\ Defer(pooled)
  /\ UNCHANGED <<opened, open, dispatches, refers, binds, gpuVars, arena, threadVars>>

----------------------------------------------------------------------------
(* flush: called as such, at the end of a full dispatch chunk, and first   *)
(* thing in flush_wait and in a download.                                  *)

\* Where the operation goes on once flush has returned.
AfterFlush(t) ==
  CASE call[t] = "flush_wait" -> Goto(t, "popLast")
    [] call[t] = "download"   -> Goto(t, "copyOut")
    [] OTHER                  -> Return(t)

\* Mutant: the stream stays open after the submission.
SubmitLeavingOpen(t) ==
  /\ dispatches' = 0
  /\ deferred' = {}
  /\ pending' = Append(pending, [cmd |-> opened, fence |-> Len(queue) + 1,
                                 onComplete |-> deferred])
  /\ queue' = Append(queue, opened)
  /\ AfterFlush(t)
  /\ UNCHANGED <<opened, open, refers, binds, executed, memVars, back, sub>>

\* Mutant: the deferred releases are copied to the submission, not moved.
SubmitCopyingDeferred(t) ==
  /\ open' = FALSE
  /\ dispatches' = 0
  /\ pending' = Append(pending, [cmd |-> opened, fence |-> Len(queue) + 1,
                                 onComplete |-> deferred])
  /\ queue' = Append(queue, opened)
  /\ AfterFlush(t)
  /\ UNCHANGED <<opened, deferred, refers, binds, executed, memVars, back, sub>>

\* Ends buffer.last() and submits it with the deferred work.  A submission that
\* the queue refused is pushed all the same, and the error returned to the caller.
Submit(t) ==
  /\ open' = FALSE
  /\ dispatches' = 0
  /\ deferred' = {}
  /\ \E ok \in SubmitOutcomes :
       /\ pending' = Append(pending, [cmd        |-> opened,
                                      fence      |-> IF ok THEN Len(queue) + 1 ELSE 0,
                                      onComplete |-> deferred])
       /\ queue' = IF ok THEN Append(queue, opened) ELSE queue
       /\ IF ok THEN AfterFlush(t) ELSE Return(t)
  /\ UNCHANGED <<opened, refers, binds, executed, memVars, back, sub>>

FlushEmpty(t) ==
  /\ pc[t] = "flush"
  /\ ~open
  /\ AfterFlush(t)
  /\ UNCHANGED <<streamVars, gpuVars, memVars, back, sub>>

\* Mutant: no wait for the oldest submission until the ring exceeds the cap.
FlushPastCap(t) ==
  /\ pc[t] = "flush"
  /\ open
  /\ Len(pending) <= MaxInFlight
  /\ Submit(t)

FlushSubmit(t) ==
  /\ pc[t] = "flush"
  /\ open
  /\ Len(pending) < MaxInFlight
  /\ Submit(t)

\* Takes a submission out of pending, to wait for it with the stream unlocked.
Take(t, s, next) ==
  /\ sub' = [sub EXCEPT ![t] = s]
  /\ back' = [back EXCEPT ![t] = next]
  /\ Goto(t, "wait")

FlushBackPressure(t) ==
  /\ pc[t] = "flush"
  /\ open
  /\ Len(pending) >= MaxInFlight
  /\ Take(t, Head(pending), "resubmit")
  /\ pending' = Tail(pending)
  /\ UNCHANGED <<opened, open, dispatches, deferred, refers, binds, gpuVars, memVars>>

\* Relocks after the back-pressure wait: neither `open` nor the length of the
\* ring is looked at again.
FlushResubmit(t) ==
  /\ pc[t] = "resubmit"
  /\ Submit(t)

Flush(t) ==
  /\ Enter(t, "flush", "flush")
  /\ UNCHANGED <<streamVars, gpuVars, memVars>>

FlushWait(t) ==
  /\ Enter(t, "flush_wait", "flush")
  /\ UNCHANGED <<streamVars, gpuVars, memVars>>

\* The submission at the back of pending, and the rest of it.
Newest == pending[Len(pending)]
Older  == SubSeq(pending, 1, Len(pending) - 1)

\* flush_wait after its flush: waits for the newest submission.
PopLast(t) ==
  /\ pc[t] = "popLast"
  /\ IF pending = <<>>
       THEN Return(t) /\ UNCHANGED <<pending, back, sub>>
       ELSE Take(t, Newest, "idle") /\ pending' = Older
  /\ UNCHANGED <<opened, open, dispatches, deferred, refers, binds, gpuVars, memVars>>

----------------------------------------------------------------------------
(* wait_and_reap and run_completion.                                       *)

\* Mutant: goes on to the releases without waiting for the fence.
WaitNothing(t) ==
  /\ pc[t] = "wait"
  /\ Goto(t, "complete")
  /\ UNCHANGED <<streamVars, gpuVars, memVars, back, sub>>

\* Mutant: waits for the fence of the submission after the one it took.
WaitNextFence(t) ==
  /\ pc[t] = "wait"
  /\ Signaled(sub[t].fence + 1)
  /\ Goto(t, "complete")
  /\ UNCHANGED <<streamVars, gpuVars, memVars, back, sub>>

WaitFence(t) ==
  /\ pc[t] = "wait"
  /\ Signaled(sub[t].fence)
  /\ Goto(t, "complete")
  /\ UNCHANGED <<streamVars, gpuVars, memVars, back, sub>>

\* Deferred::Buffer is destroyed, Deferred::Staging goes back to its pool.
RunCompletion(t) ==
  /\ pc[t] = "complete"
  /\ place' = [m \in Memory |-> IF m \notin sub[t].onComplete THEN place[m]
                                ELSE IF m \in Staging THEN "pool" ELSE "none"]
  /\ sub' = [sub EXCEPT ![t].onComplete = {}]
  /\ Goto(t, "checkIdle")
  /\ UNCHANGED <<streamVars, gpuVars, arena, back>>

\* Mutant: the arena is reset after every completion.
CheckNothing(t) ==
  /\ pc[t] = "checkIdle"
  /\ Goto(t, "reset")
  /\ UNCHANGED <<streamVars, gpuVars, memVars, back, sub>>

\* The stream is looked at under its lock, the arena reset after the unlock.
CheckIdle(t) ==
  /\ pc[t] = "checkIdle"
  /\ Goto(t, IF pending = <<>> /\ ~open THEN "reset" ELSE "free")
  /\ UNCHANGED <<streamVars, gpuVars, memVars, back, sub>>

ResetDescriptors(t) ==
  /\ pc[t] = "reset"
  /\ arena' = [arena EXCEPT !.current = 0, !.used = 0]
  /\ Goto(t, "free")
  /\ UNCHANGED <<streamVars, gpuVars, place, back, sub>>

\* destroy_fence and free_command_buffers, then back to the caller.
FreeSubmission(t) ==
  /\ pc[t] = "free"
  /\ refers' = [refers EXCEPT ![sub[t].cmd] = {}]
  /\ binds' = [binds EXCEPT ![sub[t].cmd] = {}]
  /\ sub' = [sub EXCEPT ![t] = NoSub]
  /\ IF back[t] = "idle" THEN Return(t) ELSE Goto(t, back[t])
  /\ UNCHANGED <<opened, open, dispatches, deferred, pending, gpuVars, memVars, back>>

----------------------------------------------------------------------------
(* finish_stream: reaps newest first, then drops the open command buffer.  *)

FinishStream(t) ==
  /\ open => "finish_open" \in Calls
  /\ Enter(t, "finish_stream", "drain")
  /\ UNCHANGED <<streamVars, gpuVars, memVars>>

\* Mutant: returns once the newest submission has completed.
DrainOne(t) ==
  /\ pc[t] = "drain"
  /\ pending # <<>>
  /\ Take(t, Newest, "idle")
  /\ pending' = Older
  /\ UNCHANGED <<opened, open, dispatches, deferred, refers, binds, gpuVars, memVars>>

DrainNewest(t) ==
  /\ pc[t] = "drain"
  /\ pending # <<>>
  /\ Take(t, Newest, "drain")
  /\ pending' = Older
  /\ UNCHANGED <<opened, open, dispatches, deferred, refers, binds, gpuVars, memVars>>

DrainDone(t) ==
  /\ pc[t] = "drain"
  /\ pending = <<>>
  /\ open' = FALSE
  /\ Return(t)
  /\ UNCHANGED <<opened, dispatches, deferred, pending, refers, binds,
                 gpuVars, memVars, back, sub>>

----------------------------------------------------------------------------
(* One-shot copies: the readback of stream_download_at, after its flush,   *)
(* and run_commands.  The thread at "copyWait" holds submit_lock.          *)

\* Mutant: the readback starts without a flush of the producer.
DownloadUnflushed(t) ==
  /\ Len(queue) < MaxSubmissions
  /\ Enter(t, "download", "copyOut")
  /\ UNCHANGED <<streamVars, gpuVars, memVars>>

Download(t) ==
  /\ Len(queue) < MaxSubmissions
  /\ Enter(t, "download", "flush")
  /\ UNCHANGED <<streamVars, gpuVars, memVars>>

RunCommands(t) ==
  /\ Len(queue) < MaxSubmissions
  /\ Enter(t, "run_commands", "copyOut")
  /\ UNCHANGED <<streamVars, gpuVars, memVars>>

CopyOut(t) ==
  /\ pc[t] = "copyOut"
  /\ \A u \in Thread : pc[u] # "copyWait"
  /\ queue' = Append(queue, 0)
  /\ sub' = [sub EXCEPT ![t] = [NoSub EXCEPT !.fence = Len(queue) + 1]]
  /\ Goto(t, "copyWait")
  /\ UNCHANGED <<streamVars, executed, memVars, back>>

CopyWait(t) ==
  /\ pc[t] = "copyWait"
  /\ Signaled(sub[t].fence)
  /\ sub' = [sub EXCEPT ![t] = NoSub]
  /\ Return(t)
  /\ UNCHANGED <<streamVars, gpuVars, memVars, back>>

----------------------------------------------------------------------------
\* The GPU completes the oldest submission in its queue.
GpuExecute ==
  /\ executed < Len(queue)
  /\ executed' = executed + 1
  /\ UNCHANGED <<streamVars, queue, memVars, threadVars>>

\* What a thread does of its own accord.
Client(t) ==
  \/ \E b \in Buffer : StreamUpload(t, b)
  \/ \E bs \in (SUBSET Buffer) \ {{}} : StreamDispatch(t, bs)
  \/ \E src, dst \in Buffer : StreamCopy(t, src, dst)
  \/ \E b \in Buffer : CreateStorageBuffer(t, b)
  \/ \E b \in Buffer : RecycleStorageBuffer(t, b)
  \/ \E b \in Buffer : DeferDestroy(t, b)
  \/ DrainStoragePool(t)
  \/ Flush(t)
  \/ FlushWait(t)
  \/ FinishStream(t)
  \/ Download(t)
  \/ RunCommands(t)

\* What a thread does on its way out of an operation it has entered.
Progress(t) ==
  \/ FlushEmpty(t)
  \/ FlushSubmit(t)
  \/ FlushBackPressure(t)
  \/ FlushResubmit(t)
  \/ PopLast(t)
  \/ WaitFence(t)
  \/ RunCompletion(t)
  \/ CheckIdle(t)
  \/ ResetDescriptors(t)
  \/ FreeSubmission(t)
  \/ DrainNewest(t)
  \/ DrainDone(t)
  \/ CopyOut(t)
  \/ CopyWait(t)

Next ==
  \/ \E t \in Thread : Client(t) \/ Progress(t)
  \/ GpuExecute

Spec == Init /\ [][Next]_vars

\* The GPU makes progress and no thread stops in the middle of an operation.
FairSpec ==
  /\ Spec
  /\ WF_vars(GpuExecute)
  /\ \A t \in Thread : WF_vars(Progress(t))
----------------------------------------------------------------------------
(* Type invariant.                                                         *)

Section == {"idle", "flush", "resubmit", "popLast", "wait", "complete", "checkIdle",
            "reset", "free", "drain", "copyOut", "copyWait"}

Submission == [cmd : Nat, fence : Nat, onComplete : SUBSET Memory]

\* The stream's state is well formed: the newest command buffer is the one that
\* has contents to record into, and the GPU is never ahead of the queue.
TypeOK ==
  /\ opened \in Nat /\ open \in BOOLEAN /\ dispatches \in Nat
  /\ deferred \in SUBSET Memory
  /\ pending \in Seq(Submission)
  /\ refers \in Seq(SUBSET Memory) /\ Len(refers) = opened
  /\ binds \in Seq(SUBSET (Nat \X Nat)) /\ Len(binds) = opened
  /\ queue \in Seq(0 .. opened) /\ executed \in 0 .. Len(queue)
  /\ place \in [Memory -> {"none", "owned", "pool", "deferred"}]
  /\ arena \in [pools : Nat, current : Nat, used : 0 .. SetsPerPool]
  /\ pc \in [Thread -> Section]
  /\ call \in [Thread -> AllCalls \cup {"none"}]
  /\ back \in [Thread -> {"idle", "resubmit", "drain"}]
  /\ sub \in [Thread -> Submission]
  /\ open => opened > 0

----------------------------------------------------------------------------
(* Safety.                                                                 *)

\* An upload staging buffer is back in its pool only when no command buffer that
\* has still to execute copies out of it: otherwise the next upload would
\* overwrite bytes the GPU has not read yet (stream_upload_at, release_staging).
StagingSafe ==
  \A s \in Staging : place[s] = "pool" => s \notin LiveMemory

\* "Destroys the buffer when safe": no command buffer that is open or in flight
\* refers to a storage buffer that has been destroyed (defer_destroy).
BuffersSafe ==
  \A b \in Buffer : place[b] = "none" => b \notin LiveMemory

\* A set bound by the open command buffer or by one in flight is never handed
\* out again nor reset under it (run_completion, reset_descriptors).
DescriptorsSafe == LiveSets \subseteq Allocated

\* Every command buffer that was opened and closed has been queued exactly once,
\* in the order of recording: no dispatch is lost, none runs twice (flush).
RecordedWorkReachesQueue ==
  LET closed == IF open THEN opened - 1 ELSE opened IN
  /\ \A c \in 1 .. closed : \E f \in 1 .. Len(queue) : queue[f] = c
  /\ \A f \in 1 .. Len(queue) : queue[f] # 0 =>
       /\ queue[f] <= closed
       /\ \A g \in 1 .. Len(queue) : f < g /\ queue[g] # 0 => queue[f] < queue[g]

\* The GPU never has more of the stream's submissions outstanding than the cap,
\* the one a thread is waiting for included (flush back-pressure).
RingBounded ==
  /\ Len(pending) <= MaxInFlight
  /\ Cardinality({f \in InFlight : queue[f] # 0}) <= MaxInFlight

\* Past its fence wait, the submission a thread completes, resets for and frees
\* is neither executing nor being recorded (wait_and_reap).
ReapedIsDone ==
  \A t \in Thread :
    pc[t] \in {"complete", "checkIdle", "reset", "free"} => sub[t].cmd \notin Live

\* Memory given up by its owner waits for exactly one submission: it is on one
\* deferred list, so that it is released once and never forgotten.
HeldOnce ==
  \A m \in Memory :
    (IF m \in deferred THEN 1 ELSE 0)
      + Cardinality({i \in DOMAIN pending : m \in pending[i].onComplete})
      + Cardinality({t \in Thread : m \in sub[t].onComplete})
    = (IF place[m] = "deferred" THEN 1 ELSE 0)

\* finish_stream returns only when everything in flight has executed and every
\* release attached to a submission has run.
FinishDrains ==
  [][\A t \in Thread :
       call[t] = "finish_stream" /\ pc[t] # "idle" /\ pc'[t] = "idle" =>
         /\ pending = <<>>
         /\ \A f \in InFlight : queue[f] = 0
         /\ \A m \in Memory : place[m] = "deferred" => m \in deferred]_vars

\* The copy of a readback completes after everything that was recorded before
\* the download was called (stream_download_at: its own fence is sufficient).
ReadbackAfterProducer ==
  [][\A t \in Thread :
       pc[t] = "copyWait" /\ pc'[t] = "idle" /\ call[t] = "download" => Live = {}]_vars

----------------------------------------------------------------------------
(* Liveness.                                                               *)

\* Every operation returns: no fence that is waited for stays unsignaled, and
\* the waits of back-pressure, flush_wait, download and finish_stream all end.
CallsReturn == \A t \in Thread : pc[t] # "idle" ~> pc[t] = "idle"
----------------------------------------------------------------------------
(* Refinement.                                                             *)

\* The promise of DeviceWork, seen in this state: what is outstanding is what is
\* live, with the memory it refers to.
Promise ==
  INSTANCE DeviceWork WITH newest    <- opened,
                           recording <- open,
                           uses      <- [c \in Live |-> refers[c]]

\* The stream keeps its promise: whatever the ring, the fences and the locks do,
\* every step is one of DeviceWork's or changes nothing that a client can tell.
\* Command buffers execute in the order of recording and each once, and nothing is
\* overwritten or destroyed that one of them still refers to.
KeepsPromise == Promise!Spec

----------------------------------------------------------------------------
(* The stream used the way stream.rs expects, by one thread in order, by   *)
(* clients that drop no buffer the open command buffer refers to, over a   *)
(* queue that accepts what it is given: the inductive invariant behind the *)
(* safety properties.                                                      *)

Orderly ==
  /\ \A t, u \in Thread : t = u
  /\ "defer_recorded" \notin Calls
  /\ SubmitOutcomes \subseteq {TRUE}

\* The thread has taken sub[t] out of pending; past the wait its fence signaled.
Completed(t) == pc[t] \in {"complete", "checkIdle", "reset", "free"}
Holding(t)   == pc[t] = "wait" \/ Completed(t)

\* A submission is where its fence says, with its command buffer.
Queued(s) ==
  /\ s.fence \in 1 .. Len(queue)
  /\ s.cmd \in 1 .. opened
  /\ queue[s.fence] = s.cmd

\* No command buffer that executes after s refers to what s releases.
Outlives(s) ==
  \A m \in s.onComplete :
    /\ place[m] = "deferred"
    /\ \A c \in Live : m \in refers[c] => c <= s.cmd

\* Command buffers are queued in the order of their recording.
QueueInv ==
  \A f \in 1 .. Len(queue) : queue[f] # 0 =>
    /\ open => queue[f] < opened
    /\ \A g \in 1 .. Len(queue) : f < g /\ queue[g] # 0 => queue[f] < queue[g]

RingInv ==
  /\ Len(pending) <= MaxInFlight
  /\ \A i \in 1 .. Len(pending) : Queued(pending[i]) /\ Outlives(pending[i])
  /\ \A i, j \in 1 .. Len(pending) : i < j =>
       /\ pending[i].cmd < pending[j].cmd
       /\ pending[i].onComplete \cap pending[j].onComplete = {}

\* What may still execute is open, in the ring, or waited for.
CoverInv ==
  \A c \in Live :
    \/ open /\ c = opened
    \/ \E i \in 1 .. Len(pending) : pending[i].cmd = c
    \/ \E t \in Thread : pc[t] = "wait" /\ sub[t].cmd = c

\* What awaits the next submission is on no other list.
DeferredInv ==
  \A m \in deferred :
    /\ place[m] = "deferred"
    /\ \A i \in 1 .. Len(pending) : m \notin pending[i].onComplete
    /\ \A t \in Thread : m \notin sub[t].onComplete

ThreadInv ==
  \A t \in Thread :
    /\ Holding(t) =>
         /\ Queued(sub[t]) /\ Outlives(sub[t])
         /\ \A i \in 1 .. Len(pending) : sub[t].onComplete \cap pending[i].onComplete = {}
    /\ Completed(t) => Signaled(sub[t].fence)
    /\ ~Holding(t) => sub[t].onComplete = {}
    /\ pc[t] = "resubmit" \/ (Holding(t) /\ back[t] = "resubmit") =>
         open /\ Len(pending) < MaxInFlight
    /\ pc[t] = "reset" => pending = <<>> /\ ~open

\* Memory that was released is not referred to any more.
ReleasedInv ==
  \A m \in Memory :
    place[m] = "none" \/ (m \in Staging /\ place[m] = "pool") =>
      \A c \in Live : m \notin refers[c]

SetsInv == \A c \in Live : binds[c] \subseteq Allocated

StreamInv ==
  /\ TypeOK /\ QueueInv /\ RingInv /\ CoverInv /\ DeferredInv /\ ThreadInv
  /\ ReleasedInv /\ SetsInv
=============================================================================
