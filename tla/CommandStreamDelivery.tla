------------------------ MODULE CommandStreamDelivery ------------------------
(***************************************************************************)
(* The stream, used in order by one thread, implements DeviceWork; and     *)
(* what it owes its clients in full: memory that was given up is           *)
(* on one deferred list until it is released, whatever the threads, the    *)
(* clients and the queue do; and, for the stream used in order, no more    *)
(* than the cap is outstanding, every command buffer reaches the queue     *)
(* once and in order, and what is waited for has executed.                 *)
(***************************************************************************)
EXTENDS CommandStreamSafety, FiniteSetTheorems


\* As Orderly, and finish_stream is called only when no command buffer is open.
Closing == Orderly /\ "finish_open" \notin Calls

Uses == [c \in Live |-> refers[c]]

\* finish_stream drains a stream with no open command buffer, up to its end.
DrainInv2 ==
  \A t \in Thread :
    pc[t] = "drain" \/ (Holding(t) /\ back[t] = "drain") => ~open

----------------------------------------------------------------------------
(* What is outstanding, after each kind of step.                           *)

LEMMA SameUses ==
  ASSUME UNCHANGED <<opened, open, refers, queue, executed>>
  PROVE  Uses' = Uses /\ Live' = Live
  BY DEF Uses, Live, InFlight

LEMMA PromisedAppend ==
  ASSUME TypeOK, NEW memory \in SUBSET Memory, NEW sets \in SUBSET (Nat \X Nat),
         Record(memory, sets), UNCHANGED gpuVars
  PROVE  Promise!Append(memory)
<1>1. /\ queue' = queue /\ executed' = executed /\ InFlight' = InFlight
      /\ open' = TRUE /\ opened \in Nat /\ open \in BOOLEAN
  BY DEF gpuVars, InFlight, Record, TypeOK
<1>2. CASE open
  <2>1. /\ opened' = opened /\ Live' = Live /\ opened \in Live /\ Live \subseteq 1 .. opened
        /\ Live \cup {opened'} = Live
    BY <1>1, <1>2 DEF Record, Live, TypeOK
  <2>2. \A c \in Live : refers'[c] = IF c = opened THEN memory \cup refers[c] ELSE refers[c]
    <3>1. refers \in [1 .. opened -> SUBSET Memory]
      BY LenProperties DEF TypeOK
    <3>2. refers' = [refers EXCEPT ![opened] = refers[opened] \cup memory]
      BY <1>2 DEF Record
    <3> QED BY <2>1, <3>1, <3>2
  <2>3. Uses' = [c \in Live \cup {opened'} |->
                   IF c = opened' THEN memory \cup (IF open THEN Uses[c] ELSE {}) ELSE Uses[c]]
    BY <1>2, <2>1, <2>2 DEF Uses
  <2>4. DOMAIN Uses = Live
    BY DEF Uses
  <2> QED BY <1>1, <1>2, <2>1, <2>3, <2>4 DEF Promise!Append, Uses
<1>3. CASE ~open
  <2>1. opened' = opened + 1 /\ refers' = Append(refers, memory)
    BY <1>3 DEF Record
  <2>2. /\ refers'[opened + 1] = memory
        /\ \A c \in 1 .. opened : refers'[c] = refers[c]
    BY <2>1, Indices, AppendProperties DEF TypeOK
  <2>3. Live' = Live \cup {opened'} /\ Live \subseteq 1 .. opened /\ opened' \notin Live
    <3>1. \A f \in InFlight : queue[f] \in 0 .. opened
      BY Indices
    <3> QED BY <1>1, <1>3, <2>1, <3>1 DEF Live
  <2>4. \A c \in Live' : refers'[c] = IF c = opened' THEN memory ELSE refers[c]
    BY <2>1, <2>2, <2>3
  <2>5. Uses' = [c \in Live \cup {opened'} |->
                   IF c = opened' THEN memory \cup (IF open THEN Uses[c] ELSE {}) ELSE Uses[c]]
    BY <1>3, <2>3, <2>4 DEF Uses
  <2>6. DOMAIN Uses = Live
    BY DEF Uses
  <2> QED BY <1>1, <1>3, <2>1, <2>5, <2>6 DEF Promise!Append, Uses
<1> QED BY <1>1, <1>2, <1>3

\* Memory that no live command buffer refers to, in the words of the promise.
LEMMA NotInUse ==
  ASSUME NEW m, \A c \in Live : m \notin refers[c]
  PROVE  m \notin Promise!InUse
<1>1. DOMAIN Uses = Live /\ \A c \in Live : Uses[c] = refers[c]
  BY DEF Uses
<1> QED BY <1>1 DEF Promise!InUse, Uses

----------------------------------------------------------------------------
(* Every step is one of the promise or changes nothing of it.              *)

Stutter == UNCHANGED Promise!vars

LEMMA Stutters ==
  ASSUME UNCHANGED <<opened, open, refers, queue, executed, place>>
  PROVE  Stutter
  BY SameUses DEF Stutter, Promise!vars, Uses

LEMMA ClientStep ==
  ASSUME StreamInv, NEW t \in Thread, Client(t)
  PROVE  Promise!Next \/ Stutter
<1>0. TypeOK
  BY DEF StreamInv
<1>1. ASSUME NEW b \in Buffer, StreamUpload(t, b) PROVE Promise!Next
  <2>1. PICK s \in Staging :
          /\ place[s] \in {"none", "pool"}
          /\ Record({b, s}, {})
          /\ place' = [place EXCEPT ![s] = "deferred"]
    BY <1>1 DEF StreamUpload
  <2>2. /\ {b, s} \in SUBSET Memory /\ {} \in SUBSET (Nat \X Nat) /\ UNCHANGED gpuVars
        /\ place[b] = "owned" /\ s \in Memory
    BY <1>1 DEF Memory, StreamUpload
  <2>3. Promise!Append({b, s})
    BY <1>0, <2>1, <2>2, PromisedAppend
  <2>4. \A c \in Live : s \notin refers[c]
    BY <2>1, <2>2 DEF StreamInv, ReleasedInv
  <2>5. Promise!Upload(b, s)
    BY <2>1, <2>2, <2>3, <2>4, NotInUse DEF Promise!Upload
  <2> QED BY <2>5 DEF Promise!Next
<1>2. ASSUME NEW bs \in SUBSET Buffer, StreamDispatch(t, bs) PROVE Promise!Next
  <2> DEFINE sets == {<<Acquired.current, Acquired.used - 1>>}
  <2>1. /\ bs \in SUBSET Memory /\ sets \in SUBSET (Nat \X Nat) /\ Record(bs, sets)
        /\ UNCHANGED gpuVars /\ place' = place /\ \A b \in bs : place[b] = "owned"
    BY <1>0, <1>2, TypeAcquired DEF Memory, StreamDispatch
  <2> HIDE DEF sets
  <2>2. Promise!Append(bs)
    BY <1>0, <2>1, PromisedAppend
  <2>3. Promise!Command(bs)
    BY <2>1, <2>2 DEF Promise!Command
  <2> QED BY <2>3 DEF Promise!Next
<1>3. ASSUME NEW src \in Buffer, NEW dst \in Buffer, StreamCopy(t, src, dst)
      PROVE  Promise!Next
  <2>1. /\ {src, dst} \in SUBSET Buffer /\ {src, dst} \in SUBSET Memory
        /\ {} \in SUBSET (Nat \X Nat) /\ Record({src, dst}, {})
        /\ UNCHANGED gpuVars /\ place' = place
        /\ \A b \in {src, dst} : place[b] = "owned"
    BY <1>3 DEF Memory, StreamCopy, memVars
  <2>2. Promise!Append({src, dst})
    BY <1>0, <2>1, PromisedAppend
  <2>3. Promise!Command({src, dst})
    BY <2>1, <2>2 DEF Promise!Command
  <2> QED BY <2>1, <2>3 DEF Promise!Next
<1>4. ASSUME NEW b \in Buffer, CreateStorageBuffer(t, b) \/ RecycleStorageBuffer(t, b)
      PROVE  Promise!Next
  <2>1. UNCHANGED <<opened, open, refers, queue, executed>>
    BY <1>4 DEF CreateStorageBuffer, RecycleStorageBuffer, streamVars, gpuVars
  <2>2. place[b] = "none" => \A c \in Live : b \notin refers[c]
    BY DEF StreamInv, ReleasedInv, Memory
  <2>3. place[b] = "none" => b \notin Promise!InUse
    BY <2>2, NotInUse
  <2>4. Promise!Create(b) \/ Promise!Recycle(b)
    BY <1>4, <2>1, <2>3, SameUses
    DEF Promise!Create, Promise!Recycle, CreateStorageBuffer, RecycleStorageBuffer, Uses
  <2> QED BY <2>4 DEF Promise!Next
<1>5. ASSUME NEW bs \in SUBSET Buffer, Defer(bs),
             \A b \in bs : place[b] \in {"owned", "pool"},
             UNCHANGED <<opened, open, dispatches, refers, binds, gpuVars, arena, threadVars>>
      PROVE  Promise!Next
  <2>1. UNCHANGED <<opened, open, refers, queue, executed>>
    BY <1>5 DEF gpuVars
  <2>2. Promise!GiveUp(bs)
    BY <1>5, <2>1, SameUses DEF Promise!GiveUp, Promise!Memory, Defer, Uses, Memory
  <2> QED BY <2>2 DEF Promise!Next
<1>6. ASSUME NEW b \in Buffer, DeferDestroy(t, b) PROVE Promise!Next
  <2>1. {b} \in SUBSET Buffer /\ \A x \in {b} : place[x] \in {"owned", "pool"}
    BY <1>6 DEF DeferDestroy
  <2> QED BY <1>5, <1>6, <2>1 DEF DeferDestroy
<1>7. CASE DrainStoragePool(t)
  <2> DEFINE pooled == {b \in Buffer : place[b] = "pool"}
  <2>1. /\ pooled \in SUBSET Buffer /\ \A x \in pooled : place[x] \in {"owned", "pool"}
        /\ Defer(pooled)
        /\ UNCHANGED <<opened, open, dispatches, refers, binds, gpuVars, arena, threadVars>>
    BY <1>7 DEF DrainStoragePool
  <2> HIDE DEF pooled
  <2> QED BY <1>5, <2>1
<1>8. CASE Flush(t) \/ FlushWait(t) \/ FinishStream(t) \/ Download(t) \/ RunCommands(t)
  <2>1. UNCHANGED <<opened, open, refers, queue, executed, place>>
    BY <1>8 DEF Flush, FlushWait, FinishStream, Download, RunCommands,
                streamVars, gpuVars, memVars
  <2> QED BY <2>1, Stutters
<1> QED BY <1>1, <1>2, <1>3, <1>4, <1>6, <1>7, <1>8 DEF Client

\* Submitting closes the command buffer and leaves it outstanding.
LEMMA SubmitStep ==
  ASSUME Orderly, StreamInv, NEW t \in Thread, Submit(t), open
  PROVE  Promise!Next
<1>1. /\ open' = FALSE /\ opened' = opened /\ refers' = refers /\ place' = place
      /\ executed' = executed /\ queue' = Append(queue, opened)
  BY DEF Submit, Orderly, memVars
<1>2. /\ executed \in 0 .. Len(queue) /\ Len(queue) \in Nat /\ opened \in Nat /\ opened > 0
      /\ queue \in Seq(0 .. opened)
  BY Indices DEF StreamInv, TypeOK
<1>3. /\ Len(queue') = Len(queue) + 1 /\ queue'[Len(queue) + 1] = opened
      /\ \A f \in 1 .. Len(queue) : queue'[f] = queue[f]
  BY <1>1, <1>2, AppendProperties
<1>4. Live' = Live
  <2>1. InFlight' = InFlight \cup {Len(queue) + 1} /\ InFlight \subseteq 1 .. Len(queue)
    BY <1>1, <1>2, <1>3 DEF InFlight
  <2>2. \A c \in 1 .. opened :
          (\E f \in InFlight' : queue'[f] = c) <=> (c = opened \/ \E f \in InFlight : queue[f] = c)
    BY <1>3, <2>1
  <2> QED BY <1>1, <2>2 DEF Live
<1>5. Uses' = Uses
  BY <1>1, <1>4 DEF Uses
<1>6. Promise!Close
  BY <1>1, <1>5 DEF Promise!Close, Uses
<1> QED BY <1>6 DEF Promise!Next

\* What run_completion releases is what the promise lets go.
LEMMA CompletionStep ==
  ASSUME Orderly, StreamInv, NEW t \in Thread, RunCompletion(t)
  PROVE  Promise!Next
<1> DEFINE done == sub[t].onComplete
<1>1. UNCHANGED <<opened, open, refers, queue, executed>>
  BY DEF RunCompletion, streamVars, gpuVars
<1>2. /\ pc[t] = "complete" /\ sub[t] \in Submission /\ done \in SUBSET Memory
      /\ place' = [m \in Memory |-> IF m \notin done THEN place[m]
                                    ELSE IF m \in Staging THEN "pool" ELSE "none"]
  BY DEF RunCompletion, StreamInv, TypeOK, Submission
<1>3. /\ Queued(sub[t]) /\ Outlives(sub[t]) /\ Signaled(sub[t].fence)
  BY <1>2 DEF StreamInv, ThreadInv, Holding, Completed
<1>4. \A c \in Live : sub[t].cmd < c /\ c \in Nat /\ sub[t].cmd \in Nat
  BY <1>2, <1>3, PastIsOlder DEF Queued, Live, Submission
<1>5. \A m \in done : place[m] = "deferred" /\ \A c \in Live : m \notin refers[c]
  BY <1>3, <1>4 DEF Outlives
<1>6. \A m \in done : m \notin Promise!InUse
  BY <1>5, NotInUse
<1>7. Promise!Release(done)
  BY <1>1, <1>2, <1>5, <1>6, SameUses DEF Promise!Release, Promise!Memory, Memory, Uses
<1> QED BY <1>2, <1>7 DEF Promise!Next, Promise!Memory, Memory

\* Freeing a command buffer that has executed takes nothing from the others.
LEMMA FreeStep ==
  ASSUME Orderly, StreamInv, NEW t \in Thread, FreeSubmission(t)
  PROVE  Stutter
<1>1. UNCHANGED <<opened, open, queue, executed, place>> /\ pc[t] = "free"
  BY DEF FreeSubmission, gpuVars, memVars
<1>2. Queued(sub[t]) /\ Signaled(sub[t].fence) /\ sub[t].cmd \in 1 .. opened /\ opened \in Nat
  BY <1>1 DEF StreamInv, ThreadInv, Holding, Completed, Queued, TypeOK
<1>3. Live' = Live /\ Live \subseteq 1 .. opened
  BY <1>1 DEF Live, InFlight
<1>4. \A c \in Live : sub[t].cmd # c
  BY <1>2, <1>3, PastIsOlder
<1>5. \A c \in Live : refers'[c] = refers[c]
  <2>1. refers \in [1 .. opened -> SUBSET Memory]
    BY LenProperties DEF StreamInv, TypeOK
  <2>2. refers' = [refers EXCEPT ![sub[t].cmd] = {}]
    BY DEF FreeSubmission
  <2> QED BY <1>3, <1>4, <2>1, <2>2
<1>6. Uses' = Uses
  BY <1>3, <1>5 DEF Uses
<1> QED BY <1>1, <1>6 DEF Stutter, Promise!vars, Uses

\* The device completes the oldest outstanding command buffer, or a one-shot copy.
LEMMA GpuStep ==
  ASSUME StreamInv, GpuExecute
  PROVE  Promise!Next \/ Stutter
<1> DEFINE f == executed + 1
           c == queue[f]
<1>1. /\ UNCHANGED <<opened, open, refers, queue, place>> /\ executed' = f
      /\ executed < Len(queue)
  BY DEF GpuExecute, streamVars, memVars
<1>2. /\ executed \in Nat /\ Len(queue) \in Nat /\ f \in 1 .. Len(queue) /\ opened \in Nat
      /\ f \in InFlight /\ c \in 0 .. opened
      /\ \A g \in InFlight : g \in 1 .. Len(queue) /\ (g = f \/ g > f)
  BY <1>1, Indices DEF StreamInv, TypeOK, InFlight
<1>3. InFlight' = InFlight \ {f}
  BY <1>1, <1>2 DEF InFlight
<1> HIDE DEF f
<1>4. CASE c = 0
  <2>1. Live' = Live
    BY <1>1, <1>2, <1>3, <1>4 DEF Live
  <2>2. Uses' = Uses
    BY <1>1, <2>1 DEF Uses
  <2> QED BY <1>1, <2>2 DEF Stutter, Promise!vars, Uses
<1>5. CASE c # 0
  <2>1. /\ c \in Live
        /\ \A g \in InFlight : queue[g] # 0 /\ g # f => c < queue[g]
    BY <1>2, <1>5 DEF Live, StreamInv, QueueInv
  <2>2. open => c # opened
    BY <1>2, <2>1, <1>5 DEF StreamInv, QueueInv
  <2>3. \A d \in Live : d = c \/ c < d
    BY <1>2, <1>5, <2>1 DEF Live, StreamInv, QueueInv
  <2>4. Live' = Live \ {c}
    <3>1. \A d \in 1 .. opened : (\E g \in InFlight \ {f} : queue[g] = d)
                                   <=> (d # c /\ \E g \in InFlight : queue[g] = d)
      BY <1>2, <1>5, <2>1
    <3> QED BY <1>1, <1>3, <2>2, <3>1 DEF Live
  <2>5. DOMAIN Uses = Live /\ \A d \in Live : d \in Nat
    BY DEF Uses, Live
  <2>6. Uses' = [d \in DOMAIN Uses \ {c} |-> Uses[d]]
    BY <1>1, <2>4, <2>5 DEF Uses
  <2>7. \A d \in DOMAIN Uses : c <= d
    BY <1>2, <2>3, <2>5
  <2>8. c \in DOMAIN Uses
    BY <2>1, <2>5
  <2>9. Promise!Execute
    <3> HIDE DEF c
    <3>1. UNCHANGED <<opened, open, place>>
      BY <1>1
    <3> QED BY <2>2, <2>6, <2>7, <2>8, <3>1 DEF Promise!Execute, Uses
  <2> QED BY <2>9 DEF Promise!Next
<1> QED BY <1>4, <1>5

\* The remaining steps of a thread touch the ring, the arena and the thread only.
LEMMA ProgressStep ==
  ASSUME Closing, StreamInv, DrainInv2, NEW t \in Thread, Progress(t)
  PROVE  Promise!Next \/ Stutter
<1>0. Orderly
  BY DEF Closing
<1>1. CASE FlushSubmit(t)
  BY <1>0, <1>1, SubmitStep DEF FlushSubmit
<1>2. CASE FlushResubmit(t)
  <2>1. open /\ Submit(t)
    BY <1>2 DEF FlushResubmit, StreamInv, ThreadInv
  <2> QED BY <1>0, <2>1, SubmitStep
<1>3. CASE RunCompletion(t)
  BY <1>0, <1>3, CompletionStep
<1>4. CASE FreeSubmission(t)
  BY <1>0, <1>4, FreeStep
<1>5. CASE DrainDone(t)
  <2>1. ~open /\ open' = FALSE /\ UNCHANGED <<opened, refers, queue, executed, place>>
    BY <1>5 DEF DrainDone, DrainInv2, gpuVars, memVars
  <2>2. open \in BOOLEAN
    BY DEF StreamInv, TypeOK
  <2> QED BY <2>1, <2>2, Stutters
<1>6. CASE \/ FlushEmpty(t) \/ FlushBackPressure(t) \/ PopLast(t) \/ WaitFence(t)
           \/ CheckIdle(t) \/ ResetDescriptors(t) \/ DrainNewest(t) \/ CopyWait(t)
  <2>1. UNCHANGED <<opened, open, refers, queue, executed, place>>
    BY <1>6 DEF FlushEmpty, FlushBackPressure, PopLast, WaitFence, CheckIdle,
                ResetDescriptors, DrainNewest, CopyWait, streamVars, gpuVars, memVars
  <2> QED BY <2>1, Stutters
<1>7. CASE CopyOut(t)
  <2>1. /\ UNCHANGED <<opened, open, refers, executed, place>> /\ queue' = Append(queue, 0)
    BY <1>7 DEF CopyOut, streamVars, memVars
  <2>2. /\ executed \in 0 .. Len(queue) /\ Len(queue) \in Nat /\ queue \in Seq(0 .. opened)
        /\ opened \in Nat
    BY Indices DEF StreamInv, TypeOK
  <2>3. /\ Len(queue') = Len(queue) + 1 /\ queue'[Len(queue) + 1] = 0
        /\ \A f \in 1 .. Len(queue) : queue'[f] = queue[f]
    BY <2>1, <2>2, AppendProperties
  <2>4. Live' = Live
    <3>1. InFlight' = InFlight \cup {Len(queue) + 1} /\ InFlight \subseteq 1 .. Len(queue)
      BY <2>1, <2>2, <2>3 DEF InFlight
    <3> QED BY <2>1, <2>3, <3>1 DEF Live
  <2>5. Uses' = Uses
    BY <2>1, <2>4 DEF Uses
  <2> QED BY <2>1, <2>5 DEF Stutter, Promise!vars, Uses
<1> QED BY <1>1, <1>2, <1>3, <1>4, <1>5, <1>6, <1>7 DEF Progress

----------------------------------------------------------------------------
(* finish_stream finds no command buffer open.                             *)

LEMMA DrainNext ==
  ASSUME Closing, StreamInv, DrainInv2, [Next]_vars
  PROVE  DrainInv2'
<1>0. /\ \A t, u \in Thread : u = t
      /\ TypeOK /\ open \in BOOLEAN /\ pc \in [Thread -> Section]
  BY DEF Closing, Orderly, StreamInv, TypeOK
<1>1. ASSUME NEW t \in Thread, Client(t) PROVE DrainInv2'
  <2>1. CASE FinishStream(t)
    BY <1>0, <2>1 DEF FinishStream, Enter, Closing, DrainInv2, Holding, Completed, streamVars
  <2>2. CASE pc'[t] \in {"idle", "flush", "copyOut"}
    BY <1>0, <2>2 DEF DrainInv2, Holding, Completed
  <2>3. FinishStream(t) \/ pc'[t] \in {"idle", "flush", "copyOut"}
    BY <1>0, <1>1 DEF Client, StreamUpload, StreamDispatch, StreamCopy, CreateStorageBuffer,
       RecycleStorageBuffer, DeferDestroy, DrainStoragePool, Flush, FlushWait, Download,
       RunCommands, Enter, Idle, threadVars
  <2> QED BY <2>1, <2>2, <2>3
<1>2. ASSUME NEW t \in Thread, Progress(t) PROVE DrainInv2'
  <2>1. CASE open' = FALSE
    BY <2>1 DEF DrainInv2
  <2>2. CASE /\ open' = open
             /\ pc'[t] \in {"idle", "flush", "popLast", "copyOut", "copyWait", "resubmit"}
    BY <1>0, <2>2 DEF DrainInv2, Holding, Completed
  <2>3. CASE FlushBackPressure(t)
    BY <1>0, <2>3 DEF FlushBackPressure, Take, Goto, DrainInv2, Holding, Completed, StreamInv, TypeOK
  <2>4. CASE PopLast(t) /\ pending # <<>>
    BY <1>0, <2>4 DEF PopLast, Take, Goto, DrainInv2, Holding, Completed, StreamInv, TypeOK
  <2>5. CASE DrainNewest(t)
    BY <1>0, <2>5 DEF DrainNewest, Take, Goto, DrainInv2, Holding, Completed
  <2>6. CASE WaitFence(t) \/ RunCompletion(t) \/ CheckIdle(t) \/ ResetDescriptors(t)
    BY <1>0, <2>6 DEF WaitFence, RunCompletion, CheckIdle, ResetDescriptors, Goto,
                      DrainInv2, Holding, Completed, streamVars
  <2>7. CASE FreeSubmission(t)
    BY <1>0, <2>7 DEF FreeSubmission, Goto, Return, DrainInv2, Holding, Completed, TypeOK
  <2>8. CASE FlushEmpty(t) \/ CopyOut(t) \/ CopyWait(t) \/ (PopLast(t) /\ pending = <<>>)
    <3>1. /\ open' = open
          /\ pc'[t] \in {"idle", "popLast", "copyOut", "copyWait"}
      BY <1>0, <2>8 DEF FlushEmpty, AfterFlush, CopyOut, CopyWait, PopLast, Goto, Return, streamVars
    <3> QED BY <2>2, <3>1
  <2>9. CASE FlushSubmit(t) \/ FlushResubmit(t) \/ DrainDone(t)
    BY <2>1, <2>9 DEF FlushSubmit, FlushResubmit, Submit, DrainDone
  <2> QED BY <1>2, <2>3, <2>4, <2>5, <2>6, <2>7, <2>8, <2>9 DEF Progress
<1>3. CASE GpuExecute
  BY <1>3 DEF GpuExecute, DrainInv2, Holding, Completed, streamVars, threadVars
<1>4. CASE UNCHANGED vars
  BY <1>4 DEF vars, DrainInv2, Holding, Completed, streamVars, threadVars
<1> QED BY <1>1, <1>2, <1>3, <1>4 DEF Next

----------------------------------------------------------------------------
\* The stream used in order by one thread implements DeviceWork, for every cap,
\* chunk length, set of buffers and bound: every wait, release and submission of
\* stream.rs is invisible or a step that DeviceWork allows.
THEOREM PromiseIsKept == Closing => (Spec => KeepsPromise)
<1> SUFFICES ASSUME Closing PROVE Spec => KeepsPromise
  OBVIOUS
<1>0. Orderly
  BY DEF Closing
<1>1. Init => Promise!Init /\ DrainInv2
  <2> SUFFICES ASSUME Init PROVE Promise!Init /\ DrainInv2
    OBVIOUS
  <2>1. Live = {}
    BY DEF Init, Live, InFlight
  <2>2. Uses = [c \in {} |-> {}]
    BY <2>1 DEF Uses
  <2> QED BY <2>2 DEF Init, Promise!Init, Promise!Memory, Memory, Uses, DrainInv2
<1>2. StreamInv /\ DrainInv2 /\ [Next]_vars => DrainInv2'
  BY DrainNext
<1>3. StreamInv /\ DrainInv2 /\ [Next]_vars => [Promise!Next]_(Promise!vars)
  <2> SUFFICES ASSUME StreamInv, DrainInv2, [Next]_vars
               PROVE  Promise!Next \/ Stutter
    BY DEF Stutter
  <2>1. CASE UNCHANGED vars
    BY <2>1, Stutters DEF vars, streamVars, gpuVars, memVars
  <2>2. CASE Next
    BY <2>2, ClientStep, ProgressStep, GpuStep DEF Next
  <2> QED BY <2>1, <2>2
<1>4. Spec => []StreamInv
  BY <1>0, Inductive
<1> QED BY <1>1, <1>2, <1>3, <1>4, PTL DEF Spec, KeepsPromise, Promise!Spec


----------------------------------------------------------------------------
(* The deferred lists, for every number of threads, every client and every *)
(* outcome of a submission.                                                *)

Listed(m) ==
  \/ m \in deferred
  \/ \E i \in 1 .. Len(pending) : m \in pending[i].onComplete
  \/ \E t \in Thread : m \in sub[t].onComplete

\* No two lists share a piece of memory, and a thread that is not between taking a
\* submission and running its releases holds none.
ListsApart ==
  /\ \A i \in 1 .. Len(pending) : deferred \cap pending[i].onComplete = {}
  /\ \A t \in Thread : deferred \cap sub[t].onComplete = {}
  /\ \A i, j \in 1 .. Len(pending) :
       i # j => pending[i].onComplete \cap pending[j].onComplete = {}
  /\ \A i \in 1 .. Len(pending), t \in Thread :
       pending[i].onComplete \cap sub[t].onComplete = {}
  /\ \A t, u \in Thread : t # u => sub[t].onComplete \cap sub[u].onComplete = {}
  /\ \A t \in Thread : pc[t] \notin {"wait", "complete"} => sub[t].onComplete = {}

LedgerInv ==
  /\ \A m \in Memory : place[m] = "deferred" <=> Listed(m)
  /\ ListsApart

\* The lists stay what they are when a step only moves threads through sections.
LEMMA LedgerSame ==
  ASSUME LedgerInv, UNCHANGED <<deferred, pending>>,
         \A m \in Memory : place'[m] = "deferred" <=> place[m] = "deferred",
         \A t \in Thread : sub'[t].onComplete = sub[t].onComplete,
         \A t \in Thread : pc'[t] \notin {"wait", "complete"} =>
                             sub[t].onComplete = {}
  PROVE  LedgerInv'
<1>1. \A m \in Memory : Listed(m)' <=> Listed(m)
  BY DEF Listed
<1>2. ListsApart'
  BY DEF LedgerInv, ListsApart
<1> QED BY <1>1, <1>2 DEF LedgerInv

\* The release of ms, which no list holds, is attached to a list.
LEMMA LedgerDefer ==
  ASSUME TypeOK, LedgerInv, NEW ms \in SUBSET Memory, Defer(ms),
         \A m \in ms : place[m] # "deferred",
         UNCHANGED <<pc, sub>>
  PROVE  LedgerInv'
<1>1. \A m \in Memory : place'[m] = IF m \in ms THEN "deferred" ELSE place[m]
  BY DEF Defer
<1>2. \A m \in ms : ~Listed(m)
  BY DEF LedgerInv
<1>3. CASE pending = <<>>
  <2>1. pending' = pending /\ deferred' = deferred \cup ms /\ Len(pending) = 0
    BY <1>3 DEF Defer
  <2>2. \A m \in Memory : Listed(m)' <=> Listed(m) \/ m \in ms
    BY <2>1 DEF Listed
  <2>3. ListsApart'
    BY <1>2, <2>1 DEF LedgerInv, ListsApart, Listed
  <2> QED BY <1>1, <2>2, <2>3 DEF LedgerInv
<1>4. CASE pending # <<>>
  <2>0. PICK n \in Nat \ {0} : n = Len(pending)
    BY <1>4, TypePop
  <2>1. /\ n \in 1 .. n /\ deferred' = deferred
        /\ pending' = [pending EXCEPT ![n].onComplete = @ \cup ms]
        /\ pending \in [1 .. n -> Submission]
    BY <1>4, <2>0, LenProperties DEF Defer, TypeOK
  <2>2. /\ Len(pending') = n
        /\ \A i \in 1 .. n : pending'[i].onComplete =
             IF i = n THEN pending[n].onComplete \cup ms ELSE pending[i].onComplete
    <3>1. pending' = [pending EXCEPT ![n] = [pending[n] EXCEPT !.onComplete = @ \cup ms]]
      BY <2>1
    <3>2. [pending[n] EXCEPT !.onComplete = @ \cup ms] \in Submission
      BY <2>1 DEF Submission
    <3>3. Len(pending') = Len(pending)
      BY <2>0, <2>1, <3>1, <3>2, ExceptSeq DEF TypeOK
    <3> QED BY <2>0, <2>1, <3>1, <3>3 DEF Submission
  <2>3. \A m \in Memory : Listed(m)' <=> Listed(m) \/ m \in ms
    BY <2>0, <2>1, <2>2 DEF Listed
  <2>4. ListsApart'
    BY <1>2, <2>0, <2>1, <2>2 DEF LedgerInv, ListsApart, Listed
  <2> QED BY <1>1, <2>3, <2>4 DEF LedgerInv
<1> QED BY <1>3, <1>4

\* A submission takes over what waited for it.
LEMMA LedgerSubmit ==
  ASSUME TypeOK, LedgerInv, NEW t \in Thread, Submit(t), pc[t] \notin {"wait", "complete"}
  PROVE  LedgerInv'
<1>1. PICK s : /\ pending' = Append(pending, s) /\ s.onComplete = deferred
               /\ deferred' = {} /\ place' = place /\ sub' = sub
  BY DEF Submit, memVars
<1>2. /\ Len(pending) \in Nat /\ Len(pending') = Len(pending) + 1
      /\ pending'[Len(pending) + 1] = s
      /\ \A i \in 1 .. Len(pending) : pending'[i] = pending[i]
  <2>1. TypeOK'
    BY TypeSubmit
  <2> QED BY <1>1, LenProperties, AppendProperties DEF TypeOK
<1>3. \A i \in 1 .. Len(pending') : i = Len(pending) + 1 \/ i \in 1 .. Len(pending)
  BY <1>2
<1>4. \A m \in Memory : Listed(m)' <=> Listed(m)
  BY <1>1, <1>2, <1>3 DEF Listed
<1>5. \A u \in Thread : pc'[u] \notin {"wait", "complete"} => sub[u].onComplete = {}
  BY DEF LedgerInv, ListsApart, Submit, AfterFlush, Goto, Return, TypeOK
<1>6. ListsApart'
  BY <1>1, <1>2, <1>3, <1>5 DEF LedgerInv, ListsApart
<1> QED BY <1>1, <1>4, <1>6 DEF LedgerInv

\* A thread takes the submission at one end of the ring, which is number j.
LEMMA LedgerTake ==
  ASSUME TypeOK, LedgerInv, NEW t \in Thread, pc[t] \notin {"wait", "complete"},
         NEW k \in {0, 1}, NEW n \in Nat \ {0}, n = Len(pending), Len(pending') = n - 1,
         \A i \in 1 .. n - 1 : pending'[i] = pending[i + k],
         NEW next, Take(t, pending[IF k = 1 THEN 1 ELSE n], next),
         UNCHANGED <<deferred, place>>
  PROVE  LedgerInv'
<1>1. PICK j \in 1 .. n : /\ sub'[t] = pending[j]
                          /\ \A i \in 1 .. n : i # j => i - k \in 1 .. n - 1 /\ i - k + k = i
                          /\ \A i \in 1 .. n - 1 : i + k # j /\ i + k \in 1 .. n
  <2>0. sub'[t] = pending[IF k = 1 THEN 1 ELSE n]
    BY DEF Take, TypeOK
  <2>1. CASE k = 1
    BY <2>0, <2>1, 1 \in 1 .. n
  <2>2. CASE k = 0
    BY <2>0, <2>2, n \in 1 .. n
  <2> QED BY <2>1, <2>2
<1>2. /\ sub[t].onComplete = {} /\ pc'[t] = "wait"
      /\ \A u \in Thread : u # t => sub'[u] = sub[u] /\ pc'[u] = pc[u]
  BY DEF LedgerInv, ListsApart, Take, Goto, TypeOK
<1>3. ASSUME NEW m \in Memory PROVE Listed(m)' <=> Listed(m)
  <2>1. ASSUME NEW i \in 1 .. n, m \in pending[i].onComplete PROVE Listed(m)'
    <3>1. CASE i = j
      BY <1>1, <2>1, <3>1 DEF Listed
    <3>2. CASE i # j
      <4>1. i - k \in 1 .. n - 1 /\ pending'[i - k] = pending[i]
        BY <1>1, <3>2
      <4> QED BY <2>1, <4>1 DEF Listed
    <3> QED BY <3>1, <3>2
  <2>2. ASSUME NEW u \in Thread, m \in sub[u].onComplete PROVE Listed(m)'
    BY <1>2, <2>2 DEF Listed
  <2>3. ASSUME NEW i \in 1 .. n - 1, m \in pending'[i].onComplete PROVE Listed(m)
    BY <1>1, <2>3 DEF Listed
  <2>4. ASSUME NEW u \in Thread, m \in sub'[u].onComplete PROVE Listed(m)
    BY <1>1, <1>2, <2>4 DEF Listed
  <2> QED BY <2>1, <2>2, <2>3, <2>4 DEF Listed
<1>4. ListsApart'
  <2>1. \A i \in 1 .. n - 1 : pending'[i] = pending[i + k] /\ i + k \in 1 .. n /\ i + k # j
    BY <1>1
  <2>2. \A a, b \in 1 .. n - 1 : a # b => a + k # b + k
    OBVIOUS
  <2>3. \A a, b \in 1 .. n - 1 : a # b =>
          pending'[a].onComplete \cap pending'[b].onComplete = {}
    BY <2>1, <2>2 DEF LedgerInv, ListsApart
  <2>4. \A i \in 1 .. n - 1, u \in Thread :
          pending'[i].onComplete \cap sub'[u].onComplete = {}
    BY <1>1, <1>2, <2>1, SMTT(30) DEF LedgerInv, ListsApart
  <2>5. \A u, v \in Thread : u # v => sub'[u].onComplete \cap sub'[v].onComplete = {}
    BY <1>1, <1>2 DEF LedgerInv, ListsApart
  <2>6. /\ \A i \in 1 .. n - 1 : deferred' \cap pending'[i].onComplete = {}
        /\ \A u \in Thread : deferred' \cap sub'[u].onComplete = {}
    BY <1>1, <1>2, <2>1, SMTT(30) DEF LedgerInv, ListsApart
  <2>7. \A u \in Thread : pc'[u] \notin {"wait", "complete"} => sub'[u].onComplete = {}
    BY <1>2 DEF LedgerInv, ListsApart
  <2> QED BY <2>3, <2>4, <2>5, <2>6, <2>7 DEF ListsApart
<1> QED BY <1>3, <1>4 DEF LedgerInv

\* The releases of a submission run: its memory is in no list and not deferred.
LEMMA LedgerComplete ==
  ASSUME TypeOK, LedgerInv, NEW t \in Thread, RunCompletion(t)
  PROVE  LedgerInv'
<1>1. /\ deferred' = deferred /\ pending' = pending /\ pc'[t] = "checkIdle"
      /\ sub'[t].onComplete = {}
      /\ \A u \in Thread : u # t => sub'[u] = sub[u] /\ pc'[u] = pc[u]
      /\ \A m \in Memory : place'[m] = IF m \notin sub[t].onComplete THEN place[m]
                                       ELSE IF m \in Staging THEN "pool" ELSE "none"
  BY DEF RunCompletion, streamVars, Goto, TypeOK, Submission
<1>2. \A m \in Memory : Listed(m)' <=> Listed(m) /\ m \notin sub[t].onComplete
  BY <1>1 DEF Listed, LedgerInv, ListsApart
<1>3. ListsApart'
  BY <1>1 DEF LedgerInv, ListsApart
<1> QED BY <1>1, <1>2, <1>3 DEF LedgerInv

LEMMA LedgerClient ==
  ASSUME TypeOK, LedgerInv, NEW t \in Thread, Client(t)
  PROVE  LedgerInv'
<1>0. \A u \in Thread : pc[u] \notin {"wait", "complete"} => sub[u].onComplete = {}
  BY DEF LedgerInv, ListsApart
<1>1. ASSUME NEW b \in Buffer, StreamUpload(t, b) PROVE LedgerInv'
  <2>1. PICK s \in Staging : /\ place[s] \in {"none", "pool"}
                             /\ place' = [place EXCEPT ![s] = "deferred"]
                             /\ deferred' = deferred \cup {s}
    BY <1>1 DEF StreamUpload
  <2>2. pending' = pending /\ pc' = pc /\ sub' = sub /\ s \in Memory
    BY <1>1 DEF StreamUpload, threadVars, Memory
  <2>3. ~Listed(s)
    BY <2>1, <2>2 DEF LedgerInv
  <2>4. \A m \in Memory : Listed(m)' <=> Listed(m) \/ m = s
    BY <2>1, <2>2 DEF Listed
  <2>5. ListsApart'
    BY <2>1, <2>2, <2>3 DEF LedgerInv, ListsApart, Listed
  <2>6. \A m \in Memory : place'[m] = IF m = s THEN "deferred" ELSE place[m]
    BY <2>1, <2>2 DEF TypeOK
  <2> QED BY <2>4, <2>5, <2>6 DEF LedgerInv
<1>2. CASE \/ \E bs \in SUBSET Buffer : StreamDispatch(t, bs)
           \/ \E src, dst \in Buffer : StreamCopy(t, src, dst)
  <2>1. UNCHANGED <<deferred, pending, place, sub>>
    BY <1>2 DEF StreamDispatch, StreamCopy, memVars, threadVars
  <2>2. \A u \in Thread : pc'[u] \notin {"wait", "complete"} => pc[u] \notin {"wait", "complete"}
    BY <1>2 DEF StreamDispatch, StreamCopy, threadVars, TypeOK, Idle
  <2> QED BY <1>0, <2>1, <2>2, LedgerSame
<1>3. ASSUME NEW b \in Buffer, CreateStorageBuffer(t, b) \/ RecycleStorageBuffer(t, b)
      PROVE  LedgerInv'
  <2>1. UNCHANGED <<deferred, pending, pc, sub>>
    BY <1>3 DEF CreateStorageBuffer, RecycleStorageBuffer, streamVars, threadVars
  <2>2. \A m \in Memory : place'[m] = "deferred" <=> place[m] = "deferred"
    BY <1>3 DEF CreateStorageBuffer, RecycleStorageBuffer, TypeOK
  <2> QED BY <1>0, <2>1, <2>2, LedgerSame
<1>4. ASSUME NEW b \in Buffer, DeferDestroy(t, b) PROVE LedgerInv'
  BY <1>4, {b} \in SUBSET Memory, LedgerDefer DEF DeferDestroy, threadVars, Memory
<1>5. CASE DrainStoragePool(t)
  <2> DEFINE pooled == {b \in Buffer : place[b] = "pool"}
  <2>1. pooled \in SUBSET Memory /\ Defer(pooled) /\ \A m \in pooled : place[m] # "deferred"
    BY <1>5 DEF DrainStoragePool, Memory
  <2>2. UNCHANGED <<pc, sub>>
    BY <1>5 DEF DrainStoragePool, threadVars
  <2> HIDE DEF pooled
  <2> QED BY <2>1, <2>2, LedgerDefer
<1>6. CASE Flush(t) \/ FlushWait(t) \/ FinishStream(t) \/ Download(t) \/ RunCommands(t)
  <2>1. UNCHANGED <<deferred, pending, place, sub>>
    BY <1>6 DEF Flush, FlushWait, FinishStream, Download, RunCommands, Enter,
                streamVars, memVars
  <2>2. \A u \in Thread : pc'[u] \notin {"wait", "complete"} => pc[u] \notin {"wait", "complete"}
    BY <1>6 DEF Flush, FlushWait, FinishStream, Download, RunCommands, Enter, TypeOK, Idle
  <2> QED BY <1>0, <2>1, <2>2, LedgerSame
<1> QED BY <1>1, <1>2, <1>3, <1>4, <1>5, <1>6 DEF Client

LEMMA LedgerProgress ==
  ASSUME TypeOK, LedgerInv, NEW t \in Thread, Progress(t)
  PROVE  LedgerInv'
<1>0. \A u \in Thread : pc[u] \notin {"wait", "complete"} => sub[u].onComplete = {}
  BY DEF LedgerInv, ListsApart
<1>1. CASE FlushSubmit(t) \/ FlushResubmit(t)
  BY <1>1, LedgerSubmit DEF FlushSubmit, FlushResubmit
<1>2. CASE FlushBackPressure(t)
  <2>1. pending # <<>>
    BY <1>2, CapAssumption, EmptySeq DEF FlushBackPressure
  <2>2. PICK n \in Nat \ {0} : n = Len(pending)
    BY <2>1, TypePop
  <2>3. /\ Len(pending') = n - 1 /\ \A i \in 1 .. n - 1 : pending'[i] = pending[i + 1]
        /\ Head(pending) = pending[1]
    BY <1>2, <2>1, <2>2, HeadTailProperties DEF FlushBackPressure, TypeOK
  <2> QED BY <1>2, <2>2, <2>3, LedgerTake DEF FlushBackPressure, memVars
<1>3. CASE DrainNewest(t) \/ (PopLast(t) /\ pending # <<>>)
  <2>1. pending # <<>>
    BY <1>3 DEF DrainNewest
  <2>2. PICK n \in Nat \ {0} : n = Len(pending)
    BY <2>1, TypePop
  <2>3. /\ Len(pending') = n - 1 /\ \A i \in 1 .. n - 1 : pending'[i] = pending[i + 0]
        /\ Newest = pending[n]
    <3>1. pending' = SubSeq(pending, 1, n - 1)
      BY <1>3, <2>2 DEF DrainNewest, PopLast, Older
    <3>2. \A i \in 1 .. n - 1 : pending[i] \in Submission
      BY <2>2, ElementOfSeq DEF TypeOK
    <3> QED BY <2>2, <3>1, <3>2, SubSeqProperties DEF Newest
  <2>4. PICK next : Take(t, pending[n], next)
    BY <1>3, <2>3 DEF DrainNewest, PopLast
  <2>5. pc[t] \notin {"wait", "complete"} /\ UNCHANGED <<deferred, place>>
    BY <1>3 DEF DrainNewest, PopLast, memVars
  <2>6. Take(t, pending[IF 0 = 1 THEN 1 ELSE n], next)
    BY <2>4
  <2> QED BY <2>2, <2>3, <2>5, <2>6, LedgerTake
<1>4. CASE RunCompletion(t)
  BY <1>4, LedgerComplete
<1>5. CASE \/ FlushEmpty(t) \/ WaitFence(t) \/ CheckIdle(t) \/ ResetDescriptors(t)
           \/ DrainDone(t) \/ (PopLast(t) /\ pending = <<>>)
  <2>1. UNCHANGED <<deferred, pending, place, sub>>
    BY <1>5 DEF FlushEmpty, WaitFence, CheckIdle, ResetDescriptors, DrainDone, PopLast,
                streamVars, memVars
  <2>2. \A u \in Thread : pc'[u] \notin {"wait", "complete"} => pc[u] \notin {"wait", "complete"}
    BY <1>5 DEF FlushEmpty, AfterFlush, WaitFence, CheckIdle, ResetDescriptors, DrainDone,
                PopLast, Goto, Return, TypeOK
  <2> QED BY <1>0, <2>1, <2>2, LedgerSame
<1>6. CASE FreeSubmission(t) \/ CopyOut(t) \/ CopyWait(t)
  <2>1. UNCHANGED <<deferred, pending, place>>
    BY <1>6 DEF FreeSubmission, CopyOut, CopyWait, streamVars, memVars
  <2>2. /\ pc[t] \notin {"wait", "complete"} /\ pc'[t] \notin {"wait", "complete"}
        /\ sub'[t].onComplete = {}
        /\ \A u \in Thread : u # t => pc'[u] = pc[u] /\ sub'[u] = sub[u]
    <3>1. CASE FreeSubmission(t)
      BY <3>1 DEF FreeSubmission, Goto, Return, TypeOK, NoSub
    <3>2. CASE CopyOut(t)
      BY <3>2 DEF CopyOut, Goto, TypeOK, NoSub
    <3>3. CASE CopyWait(t)
      BY <3>3 DEF CopyWait, Return, TypeOK, NoSub
    <3> QED BY <1>6, <3>1, <3>2, <3>3
  <2>3. sub[t].onComplete = {}
    BY <1>0, <2>2
  <2> QED BY <1>0, <2>1, <2>2, <2>3, LedgerSame
<1> QED BY <1>1, <1>2, <1>3, <1>4, <1>5, <1>6 DEF Progress

LEMMA LedgerNext == TypeOK /\ LedgerInv /\ [Next]_vars => LedgerInv'
<1> SUFFICES ASSUME TypeOK, LedgerInv, [Next]_vars PROVE LedgerInv'
  OBVIOUS
<1>1. CASE \E t \in Thread : Client(t) \/ Progress(t)
  BY <1>1, LedgerClient, LedgerProgress
<1>2. CASE GpuExecute \/ UNCHANGED vars
  <2>1. UNCHANGED <<deferred, pending, place, sub, pc>>
    BY <1>2 DEF GpuExecute, vars, streamVars, memVars, threadVars
  <2> QED BY <2>1, LedgerSame DEF LedgerInv, ListsApart
<1> QED BY <1>1, <1>2 DEF Next

LEMMA LedgerHolds == Spec => []LedgerInv
<1>1. Init => LedgerInv
  BY DEF Init, LedgerInv, Listed, ListsApart, NoSub
<1> QED BY <1>1, LedgerNext, TypeCorrect, PTL DEF Spec

\* Memory given up by its owner is on exactly one deferred list until it is
\* released, with any number of threads, whatever clients drop and whatever the
\* queue answers (defer_destroy, flush, wait_and_reap, finish_stream).
THEOREM HeldOnceAlways == Spec => []HeldOnce
<1>1. TypeOK /\ LedgerInv => HeldOnce
  <2> SUFFICES ASSUME TypeOK, LedgerInv, NEW m \in Memory
               PROVE  (IF m \in deferred THEN 1 ELSE 0)
                        + Cardinality({i \in DOMAIN pending : m \in pending[i].onComplete})
                        + Cardinality({t \in Thread : m \in sub[t].onComplete})
                      = (IF place[m] = "deferred" THEN 1 ELSE 0)
    BY DEF HeldOnce
  <2> DEFINE ring    == {i \in DOMAIN pending : m \in pending[i].onComplete}
             threads == {t \in Thread : m \in sub[t].onComplete}
  <2>0. DOMAIN pending = 1 .. Len(pending)
    BY LenProperties DEF TypeOK
  <2>1. \/ ~Listed(m) /\ m \notin deferred /\ ring = {} /\ threads = {}
        \/ Listed(m) /\ m \in deferred /\ ring = {} /\ threads = {}
        \/ Listed(m) /\ m \notin deferred /\ (\E i : ring = {i}) /\ threads = {}
        \/ Listed(m) /\ m \notin deferred /\ ring = {} /\ \E t : threads = {t}
    <3>1. CASE ~Listed(m)
      BY <2>0, <3>1 DEF Listed
    <3>2. CASE m \in deferred
      BY <2>0, <3>2 DEF Listed, LedgerInv, ListsApart
    <3>3. ASSUME NEW i \in 1 .. Len(pending), m \in pending[i].onComplete
          PROVE  Listed(m) /\ m \notin deferred /\ ring = {i} /\ threads = {}
      BY <2>0, <3>3 DEF Listed, LedgerInv, ListsApart
    <3>4. ASSUME NEW t \in Thread, m \in sub[t].onComplete
          PROVE  Listed(m) /\ m \notin deferred /\ ring = {} /\ threads = {t}
      BY <2>0, <3>4 DEF Listed, LedgerInv, ListsApart
    <3> QED BY <3>1, <3>2, <3>3, <3>4 DEF Listed
  <2>2. place[m] = "deferred" <=> Listed(m)
    BY DEF LedgerInv
  <2>3. Cardinality({}) = 0 /\ \A x : Cardinality({x}) = 1
    BY FS_EmptySet, FS_Singleton
  <2> SUFFICES (IF m \in deferred THEN 1 ELSE 0) + Cardinality(ring) + Cardinality(threads)
                 = (IF place[m] = "deferred" THEN 1 ELSE 0)
    OBVIOUS
  <2> HIDE DEF ring, threads
  <2>4. CASE ~Listed(m) /\ m \notin deferred /\ ring = {} /\ threads = {}
    BY <2>2, <2>3, <2>4
  <2>5. CASE Listed(m) /\ m \in deferred /\ ring = {} /\ threads = {}
    BY <2>2, <2>3, <2>5
  <2>6. CASE Listed(m) /\ m \notin deferred /\ (\E i : ring = {i}) /\ threads = {}
    BY <2>2, <2>3, <2>6
  <2>7. CASE Listed(m) /\ m \notin deferred /\ ring = {} /\ \E t : threads = {t}
    BY <2>2, <2>3, <2>7
  <2> QED BY <2>1, <2>4, <2>5, <2>6, <2>7
<1> QED BY <1>1, LedgerHolds, TypeCorrect, PTL

----------------------------------------------------------------------------
(* The stream used in order, by a client that finishes it when nothing is  *)
(* being recorded.                                                         *)

\* Every command buffer that was closed is in the queue.
SentInv ==
  \A c \in 1 .. (IF open THEN opened - 1 ELSE opened) :
    \E f \in 1 .. Len(queue) : queue[f] = c

\* The submission that a thread waits for has left room in the ring.
RoomInv == \A t \in Thread : pc[t] = "wait" => Len(pending) < MaxInFlight

\* finish_stream is draining the ring as long as it has not returned.
FinishInv ==
  \A t \in Thread : call[t] = "finish_stream" =>
    pc[t] = "drain" \/ (Holding(t) /\ back[t] = "drain")

\* A one-shot copy is the last of the queue, and a readback has closed what was open.
CopyInv ==
  \A t \in Thread :
    /\ pc[t] = "copyWait" => sub[t].fence = Len(queue)
    /\ call[t] = "download" /\ pc[t] \in {"copyOut", "copyWait"} => ~open

DeliveryInv == SentInv /\ RoomInv /\ FinishInv /\ CopyInv

LEMMA SentSame ==
  ASSUME SentInv, UNCHANGED <<opened, open, queue>>
  PROVE  SentInv'
  BY DEF SentInv

\* A command buffer that is begun leaves those that were closed as they are.
LEMMA SentRecord ==
  ASSUME TypeOK, SentInv, NEW memory \in SUBSET Memory, NEW sets \in SUBSET (Nat \X Nat),
         Record(memory, sets), UNCHANGED gpuVars
  PROVE  SentInv'
<1>1. /\ open' = TRUE /\ queue' = queue /\ opened \in Nat /\ open \in BOOLEAN
      /\ opened' = IF open THEN opened ELSE opened + 1
  BY DEF Record, gpuVars, TypeOK
<1>2. 1 .. (opened' - 1) = 1 .. (IF open THEN opened - 1 ELSE opened)
  BY <1>1
<1> QED BY <1>1, <1>2 DEF SentInv

LEMMA SentSubmit ==
  ASSUME Orderly, TypeOK, SentInv, NEW t \in Thread, Submit(t), open
  PROVE  SentInv'
<1>1. open' = FALSE /\ opened' = opened /\ queue' = Append(queue, opened)
  BY DEF Submit, Orderly
<1>2. /\ Len(queue) \in Nat /\ Len(queue') = Len(queue) + 1 /\ queue'[Len(queue) + 1] = opened
      /\ \A f \in 1 .. Len(queue) : queue'[f] = queue[f]
  BY <1>1, LenProperties, AppendProperties, opened \in 0 .. opened DEF TypeOK
<1>3. ASSUME NEW c \in 1 .. opened PROVE \E f \in 1 .. Len(queue') : queue'[f] = c
  <2>1. CASE c = opened
    BY <1>2, <2>1, Len(queue) + 1 \in 1 .. Len(queue')
  <2>2. CASE c # opened
    <3>1. PICK f \in 1 .. Len(queue) : queue[f] = c
      <4>1. opened \in Nat /\ c \in 1 .. opened - 1
        BY <2>2 DEF TypeOK
      <4> QED BY <4>1 DEF SentInv
    <3> QED BY <1>2, <3>1, f \in 1 .. Len(queue')
  <2> QED BY <2>1, <2>2
<1> QED BY <1>1, <1>3 DEF SentInv

LEMMA DeliveryClient ==
  ASSUME Closing, StreamInv, DeliveryInv, NEW t \in Thread, Client(t)
  PROVE  DeliveryInv'
<1>0. /\ \A u \in Thread : u = t
      /\ TypeOK /\ pc \in [Thread -> Section] /\ call \in [Thread -> AllCalls \cup {"none"}]
  BY OneThread DEF Closing, StreamInv, TypeOK
<1>1. SentInv'
  <2>1. ASSUME NEW b \in Buffer, StreamUpload(t, b) PROVE SentInv'
    <3>1. PICK s \in Staging : Record({b, s}, {})
      BY <2>1 DEF StreamUpload
    <3>2. {b, s} \in SUBSET Memory /\ {} \in SUBSET (Nat \X Nat)
      BY DEF Memory
    <3> QED BY <1>0, <2>1, <3>1, <3>2, SentRecord DEF StreamUpload, DeliveryInv
  <2>2. ASSUME NEW bs \in SUBSET Buffer, StreamDispatch(t, bs) PROVE SentInv'
    <3>1. /\ bs \in SUBSET Memory
          /\ {<<Acquired.current, Acquired.used - 1>>} \in SUBSET (Nat \X Nat)
      BY <1>0, TypeAcquired DEF Memory
    <3> QED BY <1>0, <2>2, <3>1, SentRecord DEF StreamDispatch, DeliveryInv
  <2>3. ASSUME NEW src \in Buffer, NEW dst \in Buffer, StreamCopy(t, src, dst) PROVE SentInv'
    <3>1. {src, dst} \in SUBSET Memory /\ {} \in SUBSET (Nat \X Nat)
      BY DEF Memory
    <3> QED BY <1>0, <2>3, <3>1, SentRecord DEF StreamCopy, DeliveryInv
  <2>4. CASE \/ \E b \in Buffer : \/ CreateStorageBuffer(t, b) \/ RecycleStorageBuffer(t, b)
                                  \/ DeferDestroy(t, b)
             \/ DrainStoragePool(t) \/ Flush(t) \/ FlushWait(t) \/ FinishStream(t)
             \/ Download(t) \/ RunCommands(t)
    <3>1. UNCHANGED <<opened, open, queue>>
      BY <2>4 DEF CreateStorageBuffer, RecycleStorageBuffer, DeferDestroy, DrainStoragePool,
         Flush, FlushWait, FinishStream, Download, RunCommands, streamVars, gpuVars
    <3> QED BY <3>1, SentSame DEF DeliveryInv
  <2> QED BY <2>1, <2>2, <2>3, <2>4 DEF Client
<1>2. FinishStream(t) \/ RunCommands(t) \/ pc'[t] \in {"idle", "flush"}
  BY <1>0 DEF Client, StreamUpload, StreamDispatch, StreamCopy, CreateStorageBuffer,
     RecycleStorageBuffer, DeferDestroy, DrainStoragePool, Flush, FlushWait, Download,
     Enter, Idle, threadVars
<1>3. FinishStream(t) \/ call'[t] # "finish_stream"
  <2>1. call[t] # "finish_stream" /\ pc[t] = "idle"
    BY DEF DeliveryInv, FinishInv, Client, Holding, Completed, StreamUpload, StreamDispatch,
       StreamCopy, CreateStorageBuffer, RecycleStorageBuffer, DeferDestroy, DrainStoragePool,
       Flush, FlushWait, FinishStream, Download, RunCommands, Enter, Idle
  <2> QED BY <1>0, <2>1 DEF Client, StreamUpload, StreamDispatch, StreamCopy, CreateStorageBuffer,
       RecycleStorageBuffer, DeferDestroy, DrainStoragePool, Flush, FlushWait, Download,
       RunCommands, Enter, threadVars
<1>4. CASE FinishStream(t)
  <2>1. pc'[t] = "drain" /\ call'[t] = "finish_stream"
    BY <1>0, <1>4 DEF FinishStream, Enter
  <2> QED BY <1>0, <1>1, <2>1 DEF DeliveryInv, RoomInv, FinishInv, CopyInv
<1>5. CASE RunCommands(t)
  <2>1. pc'[t] = "copyOut" /\ call'[t] = "run_commands"
    BY <1>0, <1>5 DEF RunCommands, Enter
  <2> QED BY <1>0, <1>1, <2>1 DEF DeliveryInv, RoomInv, FinishInv, CopyInv
<1>6. CASE pc'[t] \in {"idle", "flush"} /\ call'[t] # "finish_stream"
  BY <1>0, <1>1, <1>6 DEF DeliveryInv, RoomInv, FinishInv, CopyInv
<1> QED BY <1>2, <1>3, <1>4, <1>5, <1>6

LEMMA DeliveryProgress ==
  ASSUME Closing, StreamInv, DrainInv2, DeliveryInv, NEW t \in Thread, Progress(t)
  PROVE  DeliveryInv'
<1>0. /\ \A u \in Thread : u = t
      /\ Orderly /\ TypeOK /\ pc \in [Thread -> Section] /\ back[t] \in {"idle", "resubmit", "drain"}
      /\ open \in BOOLEAN /\ call \in [Thread -> AllCalls \cup {"none"}] /\ sub \in [Thread -> Submission]
      /\ back \in [Thread -> {"idle", "resubmit", "drain"}]
      /\ Len(pending) \in Nat /\ Len(pending) <= MaxInFlight
  BY OneThread, Indices DEF Closing, StreamInv, TypeOK, RingInv
<1>1. CASE FlushSubmit(t) \/ FlushResubmit(t)
  <2>1. open /\ Submit(t) /\ pc[t] \in {"flush", "resubmit"}
    BY <1>1 DEF FlushSubmit, FlushResubmit, StreamInv, ThreadInv
  <2>2. SentInv'
    BY <1>0, <2>1, SentSubmit DEF DeliveryInv
  <2>3. open' = FALSE /\ call[t] # "finish_stream" /\ pc'[t] \in {"popLast", "copyOut", "idle"}
        /\ call'[t] \in {call[t], "none"}
    BY <1>0, <2>1 DEF Submit, AfterFlush, Goto, Return, DeliveryInv, FinishInv, Holding, Completed
  <2> QED BY <1>0, <2>2, <2>3 DEF DeliveryInv, RoomInv, FinishInv, CopyInv
<1>2. CASE FlushBackPressure(t) \/ DrainNewest(t) \/ (PopLast(t) /\ pending # <<>>)
  <2>1. UNCHANGED <<opened, open, queue, call>> /\ pc'[t] = "wait"
    BY <1>0, <1>2 DEF FlushBackPressure, DrainNewest, PopLast, gpuVars, Take, Goto
  <2>2. pending # <<>>
    BY <1>2, CapAssumption, EmptySeq DEF FlushBackPressure, DrainNewest
  <2>3. Len(pending') = Len(pending) - 1
    <3>1. PICK n \in Nat \ {0} : n = Len(pending)
      BY <1>0, <2>2, TypePop
    <3>2. CASE FlushBackPressure(t)
      BY <1>0, <2>2, <3>2, HeadTailProperties DEF FlushBackPressure, TypeOK
    <3>3. CASE ~FlushBackPressure(t)
      <4>1. pending' = SubSeq(pending, 1, n - 1)
        BY <1>2, <3>1, <3>3 DEF DrainNewest, PopLast, Older
      <4>2. \A i \in 1 .. n - 1 : pending[i] \in Submission
        BY <1>0, <3>1, ElementOfSeq DEF TypeOK
      <4> QED BY <3>1, <4>1, <4>2, SubSeqProperties
    <3> QED BY <3>2, <3>3
  <2>4. call[t] = "finish_stream" => back'[t] = "drain"
    BY <1>0, <1>2 DEF DeliveryInv, FinishInv, Holding, Completed, FlushBackPressure, DrainNewest,
                      PopLast, Take
  <2>5. SentInv'
    BY <2>1, SentSame DEF DeliveryInv
  <2>6. RoomInv'
    BY <1>0, <2>3, CapAssumption DEF RoomInv
  <2> QED BY <1>0, <2>1, <2>4, <2>5, <2>6 DEF DeliveryInv, FinishInv, CopyInv, Holding, Completed
<1>3. CASE FlushEmpty(t) \/ (PopLast(t) /\ pending = <<>>)
  <2>1. /\ UNCHANGED <<opened, open, queue>> /\ pc[t] \in {"flush", "popLast"}
        /\ call'[t] \in {call[t], "none"}
    BY <1>0, <1>3 DEF FlushEmpty, PopLast, AfterFlush, Goto, Return, streamVars, gpuVars
  <2>2. pc'[t] \in {"popLast", "idle"} \/ (pc'[t] = "copyOut" /\ ~open')
    BY <1>0, <1>3 DEF FlushEmpty, PopLast, AfterFlush, Goto, Return, streamVars
  <2>3. call'[t] # "finish_stream"
    BY <2>1 DEF DeliveryInv, FinishInv, Holding, Completed
  <2>4. SentInv'
    BY <2>1, SentSame DEF DeliveryInv
  <2> QED BY <1>0, <2>2, <2>3, <2>4 DEF DeliveryInv, RoomInv, FinishInv, CopyInv
<1>4. CASE WaitFence(t) \/ RunCompletion(t) \/ CheckIdle(t) \/ ResetDescriptors(t)
  <2>1. /\ UNCHANGED <<opened, open, queue, call, back>> /\ Holding(t)
        /\ pc'[t] \in {"complete", "checkIdle", "reset", "free"}
    BY <1>0, <1>4 DEF WaitFence, RunCompletion, CheckIdle, ResetDescriptors, Goto,
                      Holding, Completed, streamVars, gpuVars
  <2>2. SentInv'
    BY <2>1, SentSame DEF DeliveryInv
  <2> QED BY <1>0, <2>1, <2>2 DEF DeliveryInv, RoomInv, FinishInv, CopyInv, Holding, Completed
<1>5. CASE FreeSubmission(t)
  <2>1. /\ UNCHANGED <<opened, open, queue, back>> /\ pc[t] = "free"
        /\ pc'[t] = back[t] /\ call'[t] \in {call[t], "none"}
        /\ call'[t] = "finish_stream" => call[t] = "finish_stream"
    BY <1>0, <1>5 DEF FreeSubmission, Goto, Return, gpuVars
  <2>2. call'[t] = "finish_stream" => pc'[t] = "drain"
    BY <2>1 DEF DeliveryInv, FinishInv
  <2>3. SentInv'
    BY <2>1, SentSame DEF DeliveryInv
  <2> QED BY <1>0, <2>1, <2>2, <2>3 DEF DeliveryInv, RoomInv, FinishInv, CopyInv
<1>6. CASE DrainDone(t)
  <2>1. ~open /\ UNCHANGED <<opened, queue>> /\ open' = FALSE /\ pc'[t] = "idle" /\ call'[t] = "none"
    BY <1>0, <1>6 DEF DrainDone, DrainInv2, Return, gpuVars
  <2>2. SentInv'
    BY <1>0, <2>1, SentSame DEF DeliveryInv
  <2> QED BY <1>0, <2>1, <2>2 DEF DeliveryInv, RoomInv, FinishInv, CopyInv
<1>7. CASE CopyOut(t)
  <2>1. /\ UNCHANGED <<opened, open, call>> /\ pc[t] = "copyOut" /\ pc'[t] = "copyWait"
        /\ queue' = Append(queue, 0) /\ sub'[t].fence = Len(queue) + 1
    BY <1>0, <1>7 DEF CopyOut, Goto, streamVars, NoSub
  <2>2. /\ Len(queue) \in Nat /\ Len(queue') = Len(queue) + 1
        /\ \A f \in 1 .. Len(queue) : queue'[f] = queue[f]
    BY <1>0, <2>1, 0 \in 0 .. opened, LenProperties, AppendProperties DEF TypeOK
  <2>3. SentInv'
    <3>1. \A f \in 1 .. Len(queue) : f \in 1 .. Len(queue')
      BY <2>2
    <3> QED BY <2>1, <2>2, <3>1 DEF SentInv, DeliveryInv
  <2>4. FinishInv'
    BY <1>0, <2>1 DEF DeliveryInv, FinishInv, Holding, Completed
  <2> QED BY <1>0, <2>1, <2>2, <2>3, <2>4 DEF DeliveryInv, RoomInv, CopyInv
<1>8. CASE CopyWait(t)
  <2>1. UNCHANGED <<opened, open, queue>> /\ pc'[t] = "idle" /\ call'[t] = "none"
    BY <1>0, <1>8 DEF CopyWait, Return, streamVars, gpuVars
  <2>2. SentInv'
    BY <2>1, SentSame DEF DeliveryInv
  <2> QED BY <1>0, <2>1, <2>2 DEF DeliveryInv, RoomInv, FinishInv, CopyInv
<1> QED BY <1>1, <1>2, <1>3, <1>4, <1>5, <1>6, <1>7, <1>8 DEF Progress

LEMMA DeliveryNext ==
  ASSUME Closing, StreamInv, DrainInv2, DeliveryInv, [Next]_vars
  PROVE  DeliveryInv'
<1>1. CASE \E t \in Thread : Client(t) \/ Progress(t)
  BY <1>1, DeliveryClient, DeliveryProgress
<1>2. CASE GpuExecute \/ UNCHANGED vars
  <2>1. UNCHANGED <<opened, open, queue, pending, pc, call, back, sub>>
    BY <1>2 DEF GpuExecute, vars, streamVars, gpuVars, threadVars
  <2> QED BY <2>1 DEF DeliveryInv, SentInv, RoomInv, FinishInv, CopyInv, Holding, Completed
<1> QED BY <1>1, <1>2 DEF Next

LEMMA DeliveryHolds ==
  ASSUME Closing
  PROVE  Spec => [](StreamInv /\ DrainInv2 /\ DeliveryInv /\ LedgerInv)
<1>1. Init => DrainInv2 /\ DeliveryInv
  BY DEF Init, DrainInv2, Holding, Completed, DeliveryInv, SentInv, RoomInv, FinishInv, CopyInv
<1>2. StreamInv /\ DrainInv2 /\ [Next]_vars => DrainInv2'
  BY DrainNext
<1>3. StreamInv /\ DrainInv2 /\ DeliveryInv /\ [Next]_vars => DeliveryInv'
  BY DeliveryNext
<1>4. Spec => []StreamInv
  BY Inductive DEF Closing
<1> QED BY <1>1, <1>2, <1>3, <1>4, LedgerHolds, PTL DEF Spec

----------------------------------------------------------------------------
\* Every command buffer that was closed has been queued, once and in the order of
\* recording, for a stream used in order (flush, its back-pressure included).
THEOREM RecordedWorkIsQueued == Closing => (Spec => []RecordedWorkReachesQueue)
<1> SUFFICES ASSUME Closing PROVE Spec => []RecordedWorkReachesQueue
  OBVIOUS
<1>1. StreamInv /\ DeliveryInv => RecordedWorkReachesQueue
  <2> SUFFICES ASSUME StreamInv, DeliveryInv PROVE RecordedWorkReachesQueue
    OBVIOUS
  <2>1. opened \in Nat /\ \A f \in 1 .. Len(queue) : queue[f] \in 0 .. opened
    BY Indices DEF StreamInv, TypeOK
  <2> QED BY <2>1 DEF RecordedWorkReachesQueue, StreamInv, QueueInv, DeliveryInv, SentInv
<1> QED BY <1>1, DeliveryHolds, PTL

\* What is in flight was submitted with the fence of a submission that is in the ring or
\* that the thread waits for; fences of the ring number no more than the ring is long.
LEMMA FencesBounded ==
  ASSUME NEW n \in Nat, NEW S,
         NEW F \in [1 .. n -> S], \A x \in S : \E i \in 1 .. n : F[i] = x
  PROVE  IsFiniteSet(S) /\ Cardinality(S) <= n
<1>1. F \in Surjection(1 .. n, S)
  BY DEF Surjection
<1>2. IsFiniteSet(1 .. n) /\ Cardinality(1 .. n) = n
  BY FS_Interval
<1>3. IsFiniteSet(S) /\ Cardinality(S) <= Cardinality(1 .. n)
  BY <1>1, <1>2, FS_Surjection
<1> QED BY <1>2, <1>3

\* Never more than the cap is outstanding on the device, for a stream used in order
\* (flush takes the oldest submission out of a full ring and waits for it first).
THEOREM RingStaysBounded == Closing => (Spec => []RingBounded)
<1> SUFFICES ASSUME Closing PROVE Spec => []RingBounded
  OBVIOUS
<1>1. ASSUME StreamInv, DeliveryInv PROVE RingBounded
  <2> DEFINE S == {f \in InFlight : queue[f] # 0}
             n == Len(pending)
  <2>0. n \in Nat /\ n <= MaxInFlight /\ MaxInFlight \in Nat
    BY <1>1, Indices, CapAssumption DEF StreamInv, RingInv
  <2>1. /\ \A f \in 1 .. Len(queue) : queue[f] \in 0 .. opened
        /\ InFlight \subseteq 1 .. Len(queue) /\ Len(queue) \in Nat /\ opened \in Nat
    BY <1>1, Indices DEF StreamInv
  <2>2. \A f, g \in 1 .. Len(queue) : queue[f] = queue[g] /\ queue[f] # 0 => f = g
    BY <1>1, <2>1 DEF StreamInv, QueueInv
  <2>3. \A f \in S : queue[f] \in Live /\ ~(open /\ queue[f] = opened)
    BY <1>1, <2>1 DEF Live, StreamInv, QueueInv
  <2>4. CASE \A t \in Thread : pc[t] # "wait"
    <3>1. ASSUME NEW f \in S PROVE \E i \in 1 .. n : pending[i].fence = f
      <4>1. PICK i \in 1 .. n : pending[i].cmd = queue[f]
        BY <1>1, <2>3, <2>4 DEF StreamInv, CoverInv
      <4>2. pending[i].fence \in 1 .. Len(queue) /\ queue[pending[i].fence] = pending[i].cmd
        BY <1>1 DEF StreamInv, RingInv, Queued
      <4> QED BY <2>1, <2>2, <4>1, <4>2
    <3> DEFINE T == {pending[i].fence : i \in 1 .. n}
               F == [i \in 1 .. n |-> pending[i].fence]
    <3>2. F \in [1 .. n -> T] /\ \A x \in T : \E i \in 1 .. n : F[i] = x
      OBVIOUS
    <3>3. S \in SUBSET T
      BY <3>1
    <3> HIDE DEF S, T, F, n
    <3>4. IsFiniteSet(T) /\ Cardinality(T) <= n
      BY <2>0, <3>2, FencesBounded
    <3>5. Cardinality(S) <= Cardinality(T) /\ IsFiniteSet(S)
      BY <3>3, <3>4, FS_Subset
    <3>6. Cardinality(S) \in Nat /\ Cardinality(T) \in Nat
      BY <3>4, <3>5, FS_CardinalityType
    <3>7. Cardinality(S) <= MaxInFlight
      BY <2>0, <3>4, <3>5, <3>6
    <3> QED BY <2>0, <3>7 DEF RingBounded, S, n
  <2>5. ASSUME NEW t \in Thread, pc[t] = "wait" PROVE RingBounded
    <3>0. \A u \in Thread : u = t
      BY OneThread DEF Closing
    <3>1. n + 1 <= MaxInFlight
      BY <1>1, <2>0, <2>5, CapAssumption DEF DeliveryInv, RoomInv
    <3> DEFINE F == [i \in 1 .. n + 1 |-> IF i = n + 1 THEN sub[t].fence ELSE pending[i].fence]
               T == {F[i] : i \in 1 .. n + 1}
    <3>2. ASSUME NEW f \in S PROVE \E i \in 1 .. n + 1 : F[i] = f
      <4>1. \/ \E i \in 1 .. n : pending[i].cmd = queue[f]
            \/ sub[t].cmd = queue[f]
        BY <1>1, <2>3, <3>0 DEF StreamInv, CoverInv
      <4>2. CASE \E i \in 1 .. n : pending[i].cmd = queue[f]
        <5>1. PICK i \in 1 .. n : pending[i].cmd = queue[f]
          BY <4>2
        <5>2. pending[i].fence \in 1 .. Len(queue) /\ queue[pending[i].fence] = pending[i].cmd
          BY <1>1 DEF StreamInv, RingInv, Queued
        <5>3. pending[i].fence = f
          BY <2>1, <2>2, <5>1, <5>2
        <5> QED BY <2>0, <5>3, i \in 1 .. n + 1 /\ i # n + 1
      <4>3. CASE sub[t].cmd = queue[f]
        <5>1. sub[t].fence \in 1 .. Len(queue) /\ queue[sub[t].fence] = sub[t].cmd
          BY <1>1, <2>5 DEF StreamInv, ThreadInv, Holding, Queued
        <5>2. sub[t].fence = f
          BY <2>1, <2>2, <4>3, <5>1
        <5> QED BY <2>0, <5>2, n + 1 \in 1 .. n + 1
      <4> QED BY <4>1, <4>2, <4>3
    <3>3. F \in [1 .. n + 1 -> T] /\ \A x \in T : \E i \in 1 .. n + 1 : F[i] = x
      OBVIOUS
    <3>4. S \in SUBSET T
      BY <3>2
    <3> HIDE DEF S, T, F, n
    <3>5. IsFiniteSet(T) /\ Cardinality(T) <= n + 1
      BY <2>0, <3>3, FencesBounded
    <3>6. Cardinality(S) <= Cardinality(T) /\ IsFiniteSet(S)
      BY <3>4, <3>5, FS_Subset
    <3>7. Cardinality(S) \in Nat /\ Cardinality(T) \in Nat
      BY <3>5, <3>6, FS_CardinalityType
    <3>8. Cardinality(S) <= MaxInFlight
      BY <2>0, <3>1, <3>5, <3>6, <3>7
    <3> QED BY <2>0, <3>8 DEF RingBounded, S, n
  <2> QED BY <2>4, <2>5
<1> QED BY <1>1, DeliveryHolds, PTL

----------------------------------------------------------------------------
\* With nothing open, in the ring or waited for, the device has nothing to execute.
LEMMA NothingLeft ==
  ASSUME StreamInv, Live = {}
  PROVE  \A f \in InFlight : queue[f] = 0
<1>1. \A f \in InFlight : queue[f] \in 0 .. opened
  BY Indices DEF StreamInv
<1> QED BY <1>1 DEF Live

\* finish_stream returns only when all that was recorded has executed and every release
\* attached to a submission has run, for a stream used in order (finish_stream).
THEOREM FinishAlwaysDrains == Closing => (Spec => FinishDrains)
<1> SUFFICES ASSUME Closing PROVE Spec => FinishDrains
  OBVIOUS
<1> DEFINE Drained ==
      \A t \in Thread :
       call[t] = "finish_stream" /\ pc[t] # "idle" /\ pc'[t] = "idle" =>
         /\ pending = <<>>
         /\ \A f \in InFlight : queue[f] = 0
         /\ \A m \in Memory : place[m] = "deferred" => m \in deferred
<1>1. StreamInv /\ DrainInv2 /\ DeliveryInv /\ LedgerInv /\ [Next]_vars => [Drained]_vars
  <2> SUFFICES ASSUME StreamInv, DrainInv2, DeliveryInv, LedgerInv, Next, NEW t \in Thread,
                      call[t] = "finish_stream", pc[t] # "idle", pc'[t] = "idle"
               PROVE  /\ pending = <<>>
                      /\ \A f \in InFlight : queue[f] = 0
                      /\ \A m \in Memory : place[m] = "deferred" => m \in deferred
    OBVIOUS
  <2>0. /\ \A u \in Thread : u = t
        /\ pc[t] = "drain" \/ (Holding(t) /\ back[t] = "drain")
        /\ pc \in [Thread -> Section] /\ back[t] \in {"idle", "resubmit", "drain"}
    BY OneThread DEF Closing, DeliveryInv, FinishInv, StreamInv, TypeOK
  <2>1. DrainDone(t)
    <3>1. ~Client(t)
      BY DEF Client, StreamUpload, StreamDispatch, StreamCopy, CreateStorageBuffer,
       RecycleStorageBuffer, DeferDestroy, DrainStoragePool, Flush, FlushWait, FinishStream,
       Download, RunCommands, Enter, Idle
    <3>2. ~GpuExecute
      BY DEF GpuExecute, threadVars
    <3>3. Progress(t)
      BY <2>0, <3>1, <3>2 DEF Next
    <3> QED BY <2>0, <3>3 DEF Progress, FlushEmpty, FlushSubmit, FlushBackPressure, FlushResubmit,
         PopLast, WaitFence, RunCompletion, CheckIdle, ResetDescriptors, FreeSubmission,
         DrainNewest, CopyOut, CopyWait, Take, Goto, Holding, Completed
  <2>2. pending = <<>> /\ pc[t] = "drain" /\ ~open
    BY <2>1 DEF DrainDone, DrainInv2
  <2>3. Len(pending) = 0
    BY <2>2, EmptySeq
  <2>4. Live = {}
    BY <2>0, <2>2, <2>3 DEF StreamInv, CoverInv
  <2>5. \A m \in Memory : place[m] = "deferred" => m \in deferred
    BY <2>0, <2>2, <2>3 DEF LedgerInv, Listed, ListsApart
  <2> QED BY <2>2, <2>4, <2>5, NothingLeft
<1> QED BY <1>1, DeliveryHolds, PTL DEF Spec, FinishDrains

\* A readback returns when everything recorded before it has executed, though it waits
\* for its own fence alone (stream_download_at), for a stream used in order.
THEOREM ReadbackSeesItsProducer == Closing => (Spec => ReadbackAfterProducer)
<1> SUFFICES ASSUME Closing PROVE Spec => ReadbackAfterProducer
  OBVIOUS
<1> DEFINE Behind ==
      \A t \in Thread :
        pc[t] = "copyWait" /\ pc'[t] = "idle" /\ call[t] = "download" => Live = {}
<1>1. StreamInv /\ DrainInv2 /\ DeliveryInv /\ LedgerInv /\ [Next]_vars => [Behind]_vars
  <2> SUFFICES ASSUME StreamInv, DeliveryInv, Next, NEW t \in Thread,
                      pc[t] = "copyWait", pc'[t] = "idle", call[t] = "download"
               PROVE  Live = {}
    OBVIOUS
  <2>1. CopyWait(t)
    <3>1. ~Client(t)
      BY DEF Client, StreamUpload, StreamDispatch, StreamCopy, CreateStorageBuffer,
       RecycleStorageBuffer, DeferDestroy, DrainStoragePool, Flush, FlushWait, FinishStream,
       Download, RunCommands, Enter, Idle
    <3>2. ~GpuExecute
      BY DEF GpuExecute, threadVars
    <3>3. Progress(t)
      BY <3>1, <3>2, OneThread DEF Next, Closing
    <3> QED BY <3>3 DEF Progress, FlushEmpty, FlushSubmit, FlushBackPressure, FlushResubmit,
         PopLast, WaitFence, RunCompletion, CheckIdle, ResetDescriptors, FreeSubmission,
         DrainNewest, DrainDone, CopyOut
  <2>2. ~open /\ executed >= Len(queue)
    BY <2>1 DEF CopyWait, Signaled, DeliveryInv, CopyInv
  <2>3. executed \in Nat /\ Len(queue) \in Nat
    BY Indices DEF StreamInv
  <2>4. InFlight = {}
    BY <2>2, <2>3 DEF InFlight
  <2> QED BY <2>2, <2>4 DEF Live
<1> QED BY <1>1, DeliveryHolds, PTL DEF Spec, ReadbackAfterProducer
=============================================================================
