------------------------ MODULE CommandStreamSafety ------------------------
(* The type of the command stream, for any threads, and its safety when    *)
(* one thread uses it in order: StreamInv is inductive, and implies that   *)
(* nothing a command buffer still has to read or bind is destroyed, reused *)
(* or reset.                                                               *)
EXTENDS CommandStream, SequenceTheorems, TLAPS

----------------------------------------------------------------------------
(* Type correctness: every thread count, every client, failed submissions  *)
(* included.                                                               *)

\* Recording keeps one entry of refers and of binds per command buffer.
LEMMA TypeRecord ==
  ASSUME TypeOK, NEW memory \in SUBSET Memory, NEW sets \in SUBSET (Nat \X Nat),
         Record(memory, sets)
  PROVE  /\ opened' \in Nat /\ open' = TRUE /\ opened' > 0 /\ opened <= opened'
         /\ refers' \in Seq(SUBSET Memory) /\ Len(refers') = opened'
         /\ binds' \in Seq(SUBSET (Nat \X Nat)) /\ Len(binds') = opened'
<1>1. CASE open
  <2>1. opened \in 1 .. Len(refers) /\ opened \in 1 .. Len(binds)
    BY <1>1 DEF TypeOK
  <2>2. refers[opened] \cup memory \in SUBSET Memory
    BY <2>1, ElementOfSeq DEF TypeOK
  <2>3. binds[opened] \cup sets \in SUBSET (Nat \X Nat)
    BY <2>1, ElementOfSeq DEF TypeOK
  <2>4. /\ [refers EXCEPT ![opened] = refers[opened] \cup memory] \in Seq(SUBSET Memory)
        /\ Len([refers EXCEPT ![opened] = refers[opened] \cup memory]) = Len(refers)
    BY <2>1, <2>2, ExceptSeq, refers \in Seq(SUBSET Memory) DEF TypeOK
  <2>5. /\ [binds EXCEPT ![opened] = binds[opened] \cup sets] \in Seq(SUBSET (Nat \X Nat))
        /\ Len([binds EXCEPT ![opened] = binds[opened] \cup sets]) = Len(binds)
    BY <2>1, <2>3, ExceptSeq, binds \in Seq(SUBSET (Nat \X Nat)) DEF TypeOK
  <2>6. /\ opened' = opened /\ open' = TRUE
        /\ refers' = [refers EXCEPT ![opened] = refers[opened] \cup memory]
        /\ binds' = [binds EXCEPT ![opened] = binds[opened] \cup sets]
    BY <1>1 DEF Record
  <2> QED BY <1>1, <2>4, <2>5, <2>6 DEF TypeOK
<1>2. CASE ~open
  <2>1. /\ opened' = opened + 1 /\ open' = TRUE
        /\ refers' = Append(refers, memory) /\ binds' = Append(binds, sets)
    BY <1>2 DEF Record
  <2>2. Append(refers, memory) \in Seq(SUBSET Memory) /\ Len(Append(refers, memory)) = opened + 1
    BY AppendProperties DEF TypeOK
  <2>3. Append(binds, sets) \in Seq(SUBSET (Nat \X Nat)) /\ Len(Append(binds, sets)) = opened + 1
    BY AppendProperties DEF TypeOK
  <2> QED BY <2>1, <2>2, <2>3 DEF TypeOK
<1> QED BY <1>1, <1>2 DEF TypeOK

\* More command buffers leave the queue well typed.
LEMMA TypeQueue ==
  ASSUME TypeOK, opened' \in Nat, opened <= opened', UNCHANGED queue
  PROVE  queue' \in Seq(0 .. opened')
  BY SeqMonotonic, 0 .. opened \subseteq 0 .. opened' DEF TypeOK

LEMMA TypeAcquired ==
  ASSUME TypeOK
  PROVE  /\ Acquired \in [pools : Nat, current : Nat, used : 0 .. SetsPerPool]
         /\ Acquired.used > 0
         /\ <<Acquired.current, Acquired.used - 1>> \in Nat \X Nat
  BY PoolAssumption, SMTT(30) DEF TypeOK, Acquired

\* Taking a submission off either end of pending.
LEMMA TypePop ==
  ASSUME TypeOK, pending # <<>>
  PROVE  /\ Len(pending) \in Nat \ {0}
         /\ Head(pending) \in Submission /\ Tail(pending) \in Seq(Submission)
         /\ Newest \in Submission /\ Older \in Seq(Submission)
<1>1. Len(pending) \in Nat \ {0}
  BY EmptySeq DEF TypeOK
<1>2. \A i \in 1 .. Len(pending) - 1 : pending[i] \in Submission
  BY <1>1, ElementOfSeq DEF TypeOK
<1>3. Older \in Seq(Submission)
  BY <1>1, <1>2, SubSeqProperties DEF Older
<1>4. Newest \in Submission
  BY <1>1, ElementOfSeq DEF TypeOK, Newest
<1> QED BY <1>1, <1>3, <1>4, HeadTailProperties DEF TypeOK

\* Memory that changes owner on the way to a deferred list.
LEMMA TypeDefer ==
  ASSUME TypeOK, NEW bs \in SUBSET Memory, Defer(bs)
  PROVE  /\ deferred' \in SUBSET Memory
         /\ pending' \in Seq(Submission)
         /\ place' \in [Memory -> {"none", "owned", "pool", "deferred"}]
<1>1. place' \in [Memory -> {"none", "owned", "pool", "deferred"}]
  BY DEF TypeOK, Defer
<1>2. CASE pending = <<>>
  BY <1>1, <1>2 DEF TypeOK, Defer
<1>3. CASE pending # <<>>
  <2>1. Len(pending) \in 1 .. Len(pending) /\ Newest \in Submission
    BY <1>3, TypePop DEF TypeOK
  <2>2. [Newest EXCEPT !.onComplete = @ \cup bs] \in Submission
    BY <2>1 DEF Submission
  <2>3. pending' = [pending EXCEPT ![Len(pending)] =
                                     [Newest EXCEPT !.onComplete = @ \cup bs]]
    BY <1>3 DEF Defer, Newest
  <2>4. pending' \in Seq(Submission)
    BY <2>1, <2>2, <2>3, ExceptSeq DEF TypeOK
  <2> QED BY <1>1, <1>3, <2>4 DEF TypeOK, Defer
<1> QED BY <1>2, <1>3

LEMMA TypeSubmit ==
  ASSUME TypeOK, NEW t \in Thread, Submit(t)
  PROVE  TypeOK'
<1>1. PICK ok \in SubmitOutcomes :
        /\ pending' = Append(pending, [cmd        |-> opened,
                                       fence      |-> IF ok THEN Len(queue) + 1 ELSE 0,
                                       onComplete |-> deferred])
        /\ queue' = IF ok THEN Append(queue, opened) ELSE queue
        /\ IF ok THEN AfterFlush(t) ELSE Return(t)
  BY DEF Submit
<1>2. Len(queue) \in Nat
  BY LenProperties DEF TypeOK
<1>3. pending' \in Seq(Submission)
  <2>1. [cmd |-> opened, fence |-> IF ok THEN Len(queue) + 1 ELSE 0,
         onComplete |-> deferred] \in Submission
    BY <1>2 DEF TypeOK, Submission
  <2> QED BY <1>1, <2>1, AppendProperties DEF TypeOK
<1>4. queue' \in Seq(0 .. opened) /\ executed \in 0 .. Len(queue')
  <2>1. Append(queue, opened) \in Seq(0 .. opened) /\ Len(Append(queue, opened)) = Len(queue) + 1
    BY opened \in 0 .. opened, AppendProperties DEF TypeOK
  <2>2. CASE ok
    <3>1. queue' = Append(queue, opened)
      BY <1>1, <2>2
    <3> QED BY <1>2, <2>1, <3>1 DEF TypeOK
  <2>3. CASE ~ok
    <3>1. queue' = queue
      BY <1>1, <2>3
    <3> QED BY <3>1 DEF TypeOK
  <2> QED BY <2>2, <2>3
<1>5. pc' \in [Thread -> Section] /\ call' \in [Thread -> AllCalls \cup {"none"}]
  BY <1>1 DEF TypeOK, AfterFlush, Goto, Return, Section
<1> QED BY <1>3, <1>4, <1>5 DEF TypeOK, Submit, memVars

\* The step of a thread that only moves through the sections of an operation.
LEMMA TypeMove ==
  ASSUME TypeOK, NEW t \in Thread, NEW section \in Section, Goto(t, section)
  PROVE  pc' \in [Thread -> Section] /\ call' \in [Thread -> AllCalls \cup {"none"}]
  BY DEF TypeOK, Goto

LEMMA TypeReturn ==
  ASSUME TypeOK, NEW t \in Thread, Return(t)
  PROVE  pc' \in [Thread -> Section] /\ call' \in [Thread -> AllCalls \cup {"none"}]
  BY DEF TypeOK, Return, Section

LEMMA TypeEnter ==
  ASSUME TypeOK, NEW t \in Thread, NEW op, NEW section \in Section,
         Enter(t, op, section), UNCHANGED <<streamVars, gpuVars, memVars>>
  PROVE  TypeOK'
  BY CallsAssumption DEF TypeOK, Enter, streamVars, gpuVars, memVars

LEMMA TypeTake ==
  ASSUME TypeOK, NEW t \in Thread, NEW s \in Submission,
         NEW next \in {"idle", "resubmit", "drain"}, Take(t, s, next),
         pending' \in Seq(Submission),
         UNCHANGED <<opened, open, dispatches, deferred, refers, binds, gpuVars, memVars>>
  PROVE  TypeOK'
  BY DEF TypeOK, Take, Goto, Section, gpuVars, memVars

LEMMA TypeClient ==
  ASSUME TypeOK, NEW t \in Thread, Client(t)
  PROVE  TypeOK'
<1>1. ASSUME NEW b \in Buffer, StreamUpload(t, b) PROVE TypeOK'
  <2>1. PICK s \in Staging :
          /\ Record({b, s}, {})
          /\ place' = [place EXCEPT ![s] = "deferred"]
          /\ deferred' = deferred \cup {s}
    BY <1>1 DEF StreamUpload
  <2>2. {b, s} \in SUBSET Memory /\ {} \in SUBSET (Nat \X Nat)
    BY DEF Memory
  <2>3. /\ opened' \in Nat /\ open' = TRUE /\ opened' > 0 /\ opened <= opened'
        /\ refers' \in Seq(SUBSET Memory) /\ Len(refers') = opened'
        /\ binds' \in Seq(SUBSET (Nat \X Nat)) /\ Len(binds') = opened'
    BY <2>1, <2>2, TypeRecord
  <2>4. queue' \in Seq(0 .. opened')
    BY <1>1, <2>3, TypeQueue DEF StreamUpload, gpuVars
  <2> QED BY <1>1, <2>1, <2>3, <2>4 DEF TypeOK, StreamUpload, Memory, gpuVars, threadVars
<1>2. ASSUME NEW bs \in SUBSET Buffer, StreamDispatch(t, bs) PROVE TypeOK'
  <2>1. bs \in SUBSET Memory
    BY DEF Memory
  <2>2. {<<Acquired.current, Acquired.used - 1>>} \in SUBSET (Nat \X Nat)
    BY TypeAcquired
  <2>3. /\ opened' \in Nat /\ open' = TRUE /\ opened' > 0 /\ opened <= opened'
        /\ refers' \in Seq(SUBSET Memory) /\ Len(refers') = opened'
        /\ binds' \in Seq(SUBSET (Nat \X Nat)) /\ Len(binds') = opened'
    BY <1>2, <2>1, <2>2, TypeRecord DEF StreamDispatch
  <2>4. queue' \in Seq(0 .. opened')
    BY <1>2, <2>3, TypeQueue DEF StreamDispatch, gpuVars
  <2>5. pc' \in [Thread -> Section] /\ call' \in [Thread -> AllCalls \cup {"none"}]
    BY <1>2 DEF StreamDispatch, TypeOK, Section, AllCalls
  <2>6. arena' \in [pools : Nat, current : Nat, used : 0 .. SetsPerPool]
    BY <1>2, TypeAcquired DEF StreamDispatch
  <2> QED BY <1>2, <2>3, <2>4, <2>5, <2>6 DEF TypeOK, StreamDispatch, gpuVars
<1>3. ASSUME NEW src \in Buffer, NEW dst \in Buffer, StreamCopy(t, src, dst) PROVE TypeOK'
  <2>1. {src, dst} \in SUBSET Memory /\ {} \in SUBSET (Nat \X Nat)
    BY DEF Memory
  <2>2. /\ opened' \in Nat /\ open' = TRUE /\ opened' > 0 /\ opened <= opened'
        /\ refers' \in Seq(SUBSET Memory) /\ Len(refers') = opened'
        /\ binds' \in Seq(SUBSET (Nat \X Nat)) /\ Len(binds') = opened'
    BY <1>3, <2>1, TypeRecord DEF StreamCopy
  <2>3. queue' \in Seq(0 .. opened')
    BY <1>3, <2>2, TypeQueue DEF StreamCopy, gpuVars
  <2> QED BY <1>3, <2>2, <2>3 DEF TypeOK, StreamCopy, gpuVars, memVars, threadVars
<1>4. ASSUME NEW b \in Buffer, CreateStorageBuffer(t, b) PROVE TypeOK'
  BY <1>4 DEF TypeOK, CreateStorageBuffer, Memory, streamVars, gpuVars, threadVars
<1>5. ASSUME NEW b \in Buffer, RecycleStorageBuffer(t, b) PROVE TypeOK'
  BY <1>5 DEF TypeOK, RecycleStorageBuffer, Memory, streamVars, gpuVars, threadVars
<1>6. ASSUME NEW b \in Buffer, DeferDestroy(t, b) PROVE TypeOK'
  <2>1. {b} \in SUBSET Memory
    BY DEF Memory
  <2>2. /\ deferred' \in SUBSET Memory
        /\ pending' \in Seq(Submission)
        /\ place' \in [Memory -> {"none", "owned", "pool", "deferred"}]
    BY <1>6, <2>1, TypeDefer DEF DeferDestroy
  <2> QED BY <1>6, <2>2 DEF TypeOK, DeferDestroy, gpuVars, threadVars
<1>7. ASSUME DrainStoragePool(t) PROVE TypeOK'
  <2> DEFINE pooled == {b \in Buffer : place[b] = "pool"}
  <2>1. pooled \in SUBSET Memory
    BY DEF Memory
  <2>2. Defer(pooled)
    BY <1>7 DEF DrainStoragePool
  <2>3. /\ deferred' \in SUBSET Memory
        /\ pending' \in Seq(Submission)
        /\ place' \in [Memory -> {"none", "owned", "pool", "deferred"}]
    BY <2>1, <2>2, TypeDefer
  <2> QED BY <1>7, <2>3 DEF TypeOK, DrainStoragePool, gpuVars, threadVars
<1>8. ASSUME Flush(t) \/ FlushWait(t) \/ FinishStream(t) \/ Download(t) \/ RunCommands(t)
      PROVE  TypeOK'
  BY <1>8, TypeEnter DEF Flush, FlushWait, FinishStream, Download, RunCommands, Section
<1> QED
  BY <1>1, <1>2, <1>3, <1>4, <1>5, <1>6, <1>7, <1>8 DEF Client

LEMMA TypeProgress ==
  ASSUME TypeOK, NEW t \in Thread, Progress(t)
  PROVE  TypeOK'
<1>1. CASE FlushEmpty(t)
  <2>1. pc' \in [Thread -> Section] /\ call' \in [Thread -> AllCalls \cup {"none"}]
    BY <1>1, TypeMove, TypeReturn DEF FlushEmpty, AfterFlush, Section
  <2> QED BY <1>1, <2>1 DEF TypeOK, FlushEmpty, streamVars, gpuVars, memVars
<1>2. CASE FlushSubmit(t) \/ FlushResubmit(t)
  BY <1>2, TypeSubmit DEF FlushSubmit, FlushResubmit
<1>3. CASE FlushBackPressure(t)
  <2>1. pending # <<>>
    BY <1>3, CapAssumption, EmptySeq DEF FlushBackPressure
  <2> QED BY <1>3, <2>1, TypePop, TypeTake DEF FlushBackPressure
<1>4. CASE PopLast(t)
  <2>1. CASE pending = <<>>
    BY <1>4, <2>1, TypeReturn DEF TypeOK, PopLast, gpuVars, memVars
  <2>2. CASE pending # <<>>
    BY <1>4, <2>2, TypePop, TypeTake DEF PopLast
  <2> QED BY <2>1, <2>2
<1>5. CASE WaitFence(t)
  BY <1>5, TypeMove DEF TypeOK, WaitFence, Section, streamVars, gpuVars, memVars
<1>6. CASE RunCompletion(t)
  <2>1. pc' \in [Thread -> Section] /\ call' \in [Thread -> AllCalls \cup {"none"}]
    BY <1>6, TypeMove DEF RunCompletion, Section
  <2>2. place' \in [Memory -> {"none", "owned", "pool", "deferred"}]
    BY <1>6 DEF TypeOK, RunCompletion
  <2>3. sub' \in [Thread -> Submission]
    BY <1>6 DEF TypeOK, RunCompletion, Submission
  <2> QED BY <1>6, <2>1, <2>2, <2>3 DEF TypeOK, RunCompletion, streamVars, gpuVars
<1>7. CASE CheckIdle(t)
  BY <1>7, TypeMove DEF TypeOK, CheckIdle, Section, streamVars, gpuVars, memVars
<1>8. CASE ResetDescriptors(t)
  <2>1. pc' \in [Thread -> Section] /\ call' \in [Thread -> AllCalls \cup {"none"}]
    BY <1>8, TypeMove DEF ResetDescriptors, Section
  <2>2. arena' \in [pools : Nat, current : Nat, used : 0 .. SetsPerPool]
    <3>1. [arena EXCEPT !.current = 0] \in [pools : Nat, current : Nat, used : 0 .. SetsPerPool]
      BY DEF TypeOK
    <3>2. \A a \in [pools : Nat, current : Nat, used : 0 .. SetsPerPool] :
            [a EXCEPT !.used = 0] \in [pools : Nat, current : Nat, used : 0 .. SetsPerPool]
      BY PoolAssumption
    <3> QED BY <1>8, <3>1, <3>2 DEF ResetDescriptors
  <2> QED BY <1>8, <2>1, <2>2 DEF TypeOK, ResetDescriptors, streamVars, gpuVars
<1>9. CASE FreeSubmission(t)
  <2>1. pc' \in [Thread -> Section] /\ call' \in [Thread -> AllCalls \cup {"none"}]
    BY <1>9, TypeMove, TypeReturn DEF FreeSubmission, TypeOK, Section
  <2>2. sub' \in [Thread -> Submission]
    BY <1>9 DEF TypeOK, FreeSubmission, Submission, NoSub
  <2>3. refers' \in Seq(SUBSET Memory) /\ Len(refers') = opened
    <3>1. CASE sub[t].cmd \in 1 .. Len(refers)
      BY <1>9, <3>1, {} \in SUBSET Memory, ExceptSeq DEF TypeOK, FreeSubmission
    <3>2. CASE sub[t].cmd \notin 1 .. Len(refers)
      <4>1. refers' = refers
        BY <1>9, <3>2, LenProperties DEF TypeOK, FreeSubmission
      <4> QED BY <4>1 DEF TypeOK
    <3> QED BY <3>1, <3>2
  <2>4. binds' \in Seq(SUBSET (Nat \X Nat)) /\ Len(binds') = opened
    <3>1. CASE sub[t].cmd \in 1 .. Len(binds)
      BY <1>9, <3>1, {} \in SUBSET (Nat \X Nat), ExceptSeq DEF TypeOK, FreeSubmission
    <3>2. CASE sub[t].cmd \notin 1 .. Len(binds)
      <4>1. binds' = binds
        BY <1>9, <3>2, LenProperties DEF TypeOK, FreeSubmission
      <4> QED BY <4>1 DEF TypeOK
    <3> QED BY <3>1, <3>2
  <2> QED BY <1>9, <2>1, <2>2, <2>3, <2>4 DEF TypeOK, FreeSubmission, gpuVars, memVars
<1>10. CASE DrainNewest(t)
  BY <1>10, TypePop, TypeTake DEF DrainNewest
<1>11. CASE DrainDone(t)
  BY <1>11, TypeReturn DEF TypeOK, DrainDone, gpuVars, memVars
<1>12. CASE CopyOut(t)
  <2>1. pc' \in [Thread -> Section] /\ call' \in [Thread -> AllCalls \cup {"none"}]
    BY <1>12, TypeMove DEF CopyOut, Section
  <2>2. Len(queue) \in Nat
    BY LenProperties DEF TypeOK
  <2>3. sub' \in [Thread -> Submission]
    <3>1. [NoSub EXCEPT !.fence = Len(queue) + 1] \in Submission
      BY <2>2 DEF NoSub, Submission
    <3> QED BY <1>12, <3>1 DEF TypeOK, CopyOut
  <2>4. queue' \in Seq(0 .. opened) /\ Len(queue') = Len(queue) + 1
    BY <1>12, 0 \in 0 .. opened, AppendProperties DEF TypeOK, CopyOut
  <2> QED BY <1>12, <2>1, <2>2, <2>3, <2>4 DEF TypeOK, CopyOut, streamVars, memVars
<1>13. CASE CopyWait(t)
  <2>1. sub' \in [Thread -> Submission]
    BY <1>13 DEF TypeOK, CopyWait, Submission, NoSub
  <2> QED BY <1>13, <2>1, TypeReturn DEF TypeOK, CopyWait, streamVars, gpuVars, memVars
<1> QED
  BY <1>1, <1>2, <1>3, <1>4, <1>5, <1>6, <1>7, <1>8, <1>9, <1>10, <1>11, <1>12, <1>13
  DEF Progress

LEMMA TypeNext == TypeOK /\ [Next]_vars => TypeOK'
<1> SUFFICES ASSUME TypeOK, [Next]_vars PROVE TypeOK'
  OBVIOUS
<1>1. CASE \E t \in Thread : Client(t) \/ Progress(t)
  BY <1>1, TypeClient, TypeProgress
<1>2. CASE GpuExecute
  BY <1>2 DEF TypeOK, GpuExecute, streamVars, memVars, threadVars
<1>3. CASE UNCHANGED vars
  BY <1>3 DEF TypeOK, vars, streamVars, gpuVars, memVars, threadVars
<1> QED BY <1>1, <1>2, <1>3 DEF Next

LEMMA TypeInit == Init => TypeOK
<1> SUFFICES ASSUME Init PROVE TypeOK
  OBVIOUS
<1>1. /\ <<>> \in Seq(Submission) /\ <<>> \in Seq(0 .. 0)
      /\ <<>> \in Seq(SUBSET Memory) /\ <<>> \in Seq(SUBSET (Nat \X Nat))
      /\ Len(<<>>) = 0
  BY EmptySeq
<1>2. NoSub \in Submission
  BY DEF NoSub, Submission
<1>3. /\ arena \in [pools : Nat, current : Nat, used : 0 .. SetsPerPool]
      /\ place \in [Memory -> {"none", "owned", "pool", "deferred"}]
  BY PoolAssumption DEF Init
<1>4. /\ pc \in [Thread -> Section] /\ call \in [Thread -> AllCalls \cup {"none"}]
      /\ back \in [Thread -> {"idle", "resubmit", "drain"}] /\ sub \in [Thread -> Submission]
  BY <1>2 DEF Init, Section
<1>5. /\ pending \in Seq(Submission) /\ refers \in Seq(SUBSET Memory)
      /\ binds \in Seq(SUBSET (Nat \X Nat)) /\ queue \in Seq(0 .. opened)
      /\ Len(refers) = opened /\ Len(binds) = opened /\ executed \in 0 .. Len(queue)
  BY <1>1 DEF Init
<1>6. /\ opened \in Nat /\ open \in BOOLEAN /\ dispatches \in Nat
      /\ deferred \in SUBSET Memory /\ (open => opened > 0)
  BY DEF Init
<1> QED BY <1>3, <1>4, <1>5, <1>6 DEF TypeOK

\* The state of the stream is well formed whatever the threads and the clients
\* do, and even when the queue refuses submissions (stream.rs, buffer.rs,
\* descriptor.rs under their mutexes).
THEOREM TypeCorrect == Spec => []TypeOK
  BY TypeInit, TypeNext, PTL DEF Spec

----------------------------------------------------------------------------
(* One thread, in order.                                                   *)

LEMMA OneThread ==
  ASSUME Orderly, NEW t \in Thread, NEW u \in Thread
  PROVE  u = t
  BY DEF Orderly

\* The range of what indexes a sequence of the stream.
LEMMA Indices ==
  ASSUME TypeOK
  PROVE  /\ opened \in Nat /\ Len(refers) = opened /\ Len(binds) = opened
         /\ Len(queue) \in Nat /\ Len(pending) \in Nat
         /\ \A f \in 1 .. Len(queue) : queue[f] \in 0 .. opened
         /\ \A i \in 1 .. Len(pending) : pending[i] \in Submission
         /\ executed \in 0 .. Len(queue) /\ InFlight \subseteq 1 .. Len(queue)
  BY LenProperties, ElementOfSeq DEF TypeOK, InFlight

----------------------------------------------------------------------------
(* Recording a command.                                                    *)

\* What recording does to the command buffers that have still to execute: the
\* open one may refer to the new memory and bind the new sets, and that is all.
LEMMA RecordLive ==
  ASSUME TypeOK, NEW memory \in SUBSET Memory, NEW sets \in SUBSET (Nat \X Nat),
         Record(memory, sets), UNCHANGED gpuVars
  PROVE  /\ opened' \in Nat /\ opened <= opened' /\ open' = TRUE
         /\ open => opened' = opened
         /\ ~open => opened' = opened + 1
         /\ Live' \subseteq Live \cup {opened'}
         /\ \A c \in Live' :
              /\ \A m \in refers'[c] : m \in memory \/ (c \in Live /\ m \in refers[c])
              /\ \A d \in binds'[c] : d \in sets \/ (c \in Live /\ d \in binds[c])
<1>1. /\ queue' = queue /\ executed' = executed /\ InFlight' = InFlight
      /\ open' = TRUE /\ opened \in Nat /\ open \in BOOLEAN
  BY DEF gpuVars, InFlight, Record, TypeOK
<1>2. CASE open
  <2>1. opened' = opened /\ Live' = Live /\ opened \in 1 .. opened
    BY <1>1, <1>2 DEF Record, Live, TypeOK
  <2>2. \A c \in 1 .. opened :
          /\ refers'[c] = IF c = opened THEN refers[c] \cup memory ELSE refers[c]
          /\ binds'[c] = IF c = opened THEN binds[c] \cup sets ELSE binds[c]
    <3>1. refers \in [1 .. opened -> SUBSET Memory] /\ binds \in [1 .. opened -> SUBSET (Nat \X Nat)]
      BY LenProperties DEF TypeOK
    <3>2. /\ refers' = [refers EXCEPT ![opened] = refers[opened] \cup memory]
          /\ binds' = [binds EXCEPT ![opened] = binds[opened] \cup sets]
      BY <1>2 DEF Record
    <3> QED BY <3>1, <3>2
  <2>3. opened \in Live
    BY <1>2, <2>1 DEF Live
  <2>4. Live \subseteq 1 .. opened
    BY DEF Live
  <2>5. \A c \in Live' :
          /\ \A m \in refers'[c] : m \in memory \/ (c \in Live /\ m \in refers[c])
          /\ \A d \in binds'[c] : d \in sets \/ (c \in Live /\ d \in binds[c])
    BY <2>1, <2>2, <2>4
  <2>6. (open => opened' = opened) /\ (~open => opened' = opened + 1)
    BY <1>2, <2>1
  <2>7. opened' \in Nat /\ opened <= opened' /\ Live' \subseteq Live \cup {opened'}
    BY <1>1, <2>1
  <2> QED BY <1>1, <2>5, <2>6, <2>7
<1>3. CASE ~open
  <2>1. opened' = opened + 1 /\ refers' = Append(refers, memory) /\ binds' = Append(binds, sets)
    BY <1>3 DEF Record
  <2>2. /\ refers'[opened + 1] = memory /\ binds'[opened + 1] = sets
        /\ \A c \in 1 .. opened : refers'[c] = refers[c] /\ binds'[c] = binds[c]
    BY <2>1, Indices, AppendProperties DEF TypeOK
  <2>3. Live' \subseteq Live \cup {opened'} /\ Live \subseteq 1 .. opened /\ Live' \subseteq 1 .. opened'
    <3>1. \A f \in InFlight : queue[f] \in 0 .. opened
      BY Indices
    <3> QED BY <1>1, <1>3, <2>1, <3>1 DEF Live
  <2>4. ASSUME NEW c \in Live'
        PROVE  /\ \A m \in refers'[c] : m \in memory \/ (c \in Live /\ m \in refers[c])
               /\ \A d \in binds'[c] : d \in sets \/ (c \in Live /\ d \in binds[c])
    <3>1. CASE c = opened + 1
      BY <2>2, <3>1
    <3>2. CASE c # opened + 1
      <4>1. c \in Live /\ c \in 1 .. opened
        BY <2>1, <2>3, <2>4, <3>2
      <4> QED BY <2>2, <4>1
    <3> QED BY <3>1, <3>2
  <2>5. (open => opened' = opened) /\ (~open => opened' = opened + 1)
    BY <1>3, <2>1
  <2>6. opened' \in Nat /\ opened <= opened' /\ Live' \subseteq Live \cup {opened'}
    BY <1>1, <2>1, <2>3
  <2> QED BY <1>1, <2>4, <2>5, <2>6
<1> QED BY <1>1, <1>2, <1>3

\* Recording by an idle thread, with memory that no deferred list holds.
LEMMA RecordInv ==
  ASSUME Orderly, StreamInv, NEW t \in Thread, Idle(t),
         NEW memory \in SUBSET Memory, NEW sets \in SUBSET (Nat \X Nat),
         Record(memory, sets),
         UNCHANGED <<pending, gpuVars, back, sub>>,
         pc'[t] \in {"idle", "flush"},
         \A m \in memory : place[m] # "deferred",
         \A m \in memory : place'[m] \in {"owned", "deferred"},
         \A m \in Memory \ memory : place'[m] = place[m],
         \A m \in deferred' : m \in deferred \/ (m \in memory /\ place'[m] = "deferred"),
         Allocated \subseteq Allocated', sets \subseteq Allocated'
  PROVE  /\ QueueInv' /\ RingInv' /\ CoverInv' /\ DeferredInv' /\ ThreadInv'
         /\ ReleasedInv' /\ SetsInv'
<1>1. /\ opened' \in Nat /\ opened \in Nat /\ opened <= opened' /\ open' = TRUE
      /\ open => opened' = opened
      /\ ~open => opened' = opened + 1
      /\ Live' \subseteq Live \cup {opened'}
      /\ \A c \in Live' :
           /\ \A m \in refers'[c] : m \in memory \/ (c \in Live /\ m \in refers[c])
           /\ \A d \in binds'[c] : d \in sets \/ (c \in Live /\ d \in binds[c])
  BY RecordLive DEF StreamInv, TypeOK
<1>2. /\ queue' = queue /\ pending' = pending /\ sub' = sub /\ executed' = executed
      /\ \A u \in Thread : ~Holding(u) /\ ~Holding(u)' /\ pc'[u] \in {"idle", "flush"}
      /\ \A u \in Thread : sub[u].onComplete = {}
  BY OneThread DEF gpuVars, Holding, Completed, Idle, StreamInv, ThreadInv
<1>3. QueueInv'
  <2>1. \A f \in 1 .. Len(queue) : queue[f] \in 0 .. opened
    BY Indices DEF StreamInv
  <2> QED BY <1>1, <1>2, <2>1 DEF StreamInv, QueueInv
<1>4. \A s \in Submission : Queued(s) => Queued(s)'
  BY <1>1, <1>2 DEF Queued, Submission
<1>5. \A s \in Submission : Outlives(s) => Outlives(s)'
  <2> SUFFICES ASSUME NEW s \in Submission, Outlives(s), NEW m \in s.onComplete
               PROVE  /\ place'[m] = "deferred"
                      /\ \A c \in Live' : m \in refers'[c] => c <= s.cmd
    BY DEF Outlives
  <2>1. place[m] = "deferred" /\ m \in Memory /\ m \notin memory
    BY DEF Outlives, Submission
  <2> QED BY <1>1, <2>1 DEF Outlives
<1>6. RingInv'
  BY <1>2, <1>4, <1>5, Indices DEF StreamInv, RingInv
<1>7. CoverInv'
  BY <1>1, <1>2 DEF StreamInv, CoverInv, Holding
<1>8. DeferredInv'
  <2> SUFFICES ASSUME NEW m \in deferred'
               PROVE  /\ place'[m] = "deferred"
                      /\ \A i \in 1 .. Len(pending) : m \notin pending[i].onComplete
    BY <1>2 DEF DeferredInv
  <2>1. CASE m \in deferred
    BY <2>1 DEF StreamInv, DeferredInv, TypeOK
  <2>2. CASE m \in memory /\ place'[m] = "deferred"
    BY <2>2 DEF StreamInv, RingInv, Outlives
  <2> QED BY <2>1, <2>2
<1>9. ThreadInv'
  BY <1>2 DEF ThreadInv, Holding, Completed
<1>10. ReleasedInv'
  BY <1>1 DEF StreamInv, ReleasedInv, TypeOK
<1>11. SetsInv'
  BY <1>1 DEF StreamInv, SetsInv
<1> QED BY <1>3, <1>6, <1>7, <1>8, <1>9, <1>10, <1>11
----------------------------------------------------------------------------
(* Steps that record nothing.                                              *)

\* What the parts of StreamInv say of the command buffers survives a step that
\* adds nothing to them and lets none execute that could not before.
LEMMA FewerLive ==
  ASSUME StreamInv, Live' \subseteq Live,
         \A c \in Live' : refers'[c] \subseteq refers[c] /\ binds'[c] \subseteq binds[c],
         \A m \in Memory : place[m] = "deferred" => place'[m] = "deferred"
  PROVE  /\ \A s \in Submission : Outlives(s) => Outlives(s)'
         /\ (Allocated \subseteq Allocated') => SetsInv'
<1>1. ASSUME NEW s \in Submission, Outlives(s) PROVE Outlives(s)'
  BY <1>1 DEF Outlives, Submission
<1>2. ASSUME Allocated \subseteq Allocated' PROVE SetsInv'
  BY <1>2 DEF StreamInv, SetsInv
<1> QED BY <1>1, <1>2

\* A thread past its wait, or idle, is not what keeps a command buffer covered.
LEMMA CoveredByRing ==
  ASSUME Orderly, StreamInv, NEW t \in Thread, pc[t] # "wait"
  PROVE  \A c \in Live : (open /\ c = opened) \/ \E i \in 1 .. Len(pending) : pending[i].cmd = c
  BY OneThread DEF StreamInv, CoverInv

\* create_storage_buffer and recycle_storage_buffer only change the owner.
LEMMA OwnerInv ==
  ASSUME StreamInv, UNCHANGED <<streamVars, gpuVars, arena, threadVars>>,
         NEW b \in Buffer, place[b] # "deferred",
         \/ place' = [place EXCEPT ![b] = "owned"]
         \/ place' = [place EXCEPT ![b] = "pool"]
  PROVE  /\ QueueInv' /\ RingInv' /\ CoverInv' /\ DeferredInv' /\ ThreadInv'
         /\ ReleasedInv' /\ SetsInv'
<1>1. /\ opened' = opened /\ open' = open /\ pending' = pending /\ refers' = refers
      /\ binds' = binds /\ queue' = queue /\ executed' = executed /\ arena' = arena
      /\ pc' = pc /\ back' = back /\ sub' = sub /\ deferred' = deferred
  BY DEF streamVars, gpuVars, threadVars
<1>2. /\ b \in Memory /\ b \notin Staging
      /\ \A m \in Memory : m # b => place'[m] = place[m]
      /\ place'[b] \in {"owned", "pool"}
  BY MemoryAssumption DEF Memory, StreamInv, TypeOK
<1>3. Live' = Live /\ Allocated' = Allocated
  BY <1>1 DEF Live, InFlight, Allocated
<1>4. QueueInv' /\ CoverInv'
  BY <1>1, <1>3 DEF StreamInv, QueueInv, CoverInv
<1>5. \A s \in Submission : (Outlives(s) => Outlives(s)') /\ (Queued(s) => Queued(s)')
  BY <1>1, <1>2, <1>3, FewerLive DEF Queued, StreamInv
<1>6. RingInv'
  BY <1>1, <1>5, Indices DEF StreamInv, RingInv
<1>7. DeferredInv'
  BY <1>1, <1>2 DEF StreamInv, DeferredInv, TypeOK
<1>8. ThreadInv'
  BY <1>1, <1>5 DEF StreamInv, ThreadInv, Holding, Completed, Signaled, TypeOK
<1>9. ReleasedInv'
  BY <1>1, <1>2, <1>3 DEF StreamInv, ReleasedInv
<1>10. SetsInv'
  BY <1>1, <1>3 DEF StreamInv, SetsInv
<1> QED BY <1>4, <1>6, <1>7, <1>8, <1>9, <1>10

\* defer_destroy and drain_storage_pool.
LEMMA DeferInv ==
  ASSUME Orderly, StreamInv, NEW t \in Thread, Idle(t),
         NEW bs \in SUBSET Buffer, \A b \in bs : place[b] # "deferred",
         MayDrop(bs), Defer(bs),
         UNCHANGED <<opened, open, dispatches, refers, binds, gpuVars, arena, threadVars>>
  PROVE  /\ QueueInv' /\ RingInv' /\ CoverInv' /\ DeferredInv' /\ ThreadInv'
         /\ ReleasedInv' /\ SetsInv'
<1>1. /\ opened' = opened /\ open' = open /\ refers' = refers
      /\ binds' = binds /\ queue' = queue /\ executed' = executed /\ arena' = arena
      /\ pc' = pc /\ back' = back /\ sub' = sub
  BY DEF gpuVars, threadVars
<1>2. /\ \A m \in Memory : place'[m] = IF m \in bs THEN "deferred" ELSE place[m]
      /\ bs \subseteq Memory
  BY DEF Defer, Memory
<1>3. Live' = Live /\ Allocated' = Allocated
  BY <1>1 DEF Live, InFlight, Allocated
<1>4. \A u \in Thread : ~Holding(u) /\ pc[u] = "idle" /\ sub[u].onComplete = {}
  BY OneThread DEF Holding, Completed, Idle, StreamInv, ThreadInv
<1>5. QueueInv'
  BY <1>1 DEF StreamInv, QueueInv
<1>6. ReleasedInv' /\ SetsInv'
  BY <1>1, <1>2, <1>3 DEF StreamInv, ReleasedInv, SetsInv
<1>7. \A s \in Submission : (Outlives(s) => Outlives(s)') /\ (Queued(s) => Queued(s)')
  BY <1>1, <1>2, <1>3, FewerLive DEF Queued, StreamInv
<1>8. CASE pending = <<>>
  <2>1. pending' = pending /\ deferred' = deferred \cup bs /\ Len(pending) = 0
    BY <1>8 DEF Defer
  <2>2. RingInv' /\ CoverInv' /\ ThreadInv'
    BY <1>1, <1>3, <1>4, <2>1, CapAssumption
    DEF RingInv, StreamInv, CoverInv, ThreadInv, Holding, Completed
  <2>3. DeferredInv'
    BY <1>1, <1>2, <1>4, <2>1 DEF StreamInv, DeferredInv, TypeOK
  <2> QED BY <1>5, <1>6, <2>2, <2>3
<1>9. CASE pending # <<>>
  <2>0. PICK n \in Nat \ {0} : n = Len(pending)
    BY <1>9, TypePop DEF StreamInv
  <2>1. /\ n = Len(pending) /\ n \in 1 .. n /\ deferred' = deferred
        /\ pending' = [pending EXCEPT ![n].onComplete = @ \cup bs]
        /\ pending \in [1 .. n -> Submission]
    BY <1>9, <2>0, LenProperties DEF Defer, StreamInv, TypeOK
  <2>2. /\ pending' \in Seq(Submission) /\ Len(pending') = n
        /\ \A i \in 1 .. n :
             /\ pending'[i].cmd = pending[i].cmd
             /\ pending'[i].fence = pending[i].fence
             /\ pending'[i] \in Submission
             /\ i # n => pending'[i] = pending[i]
        /\ pending'[n].onComplete = pending[n].onComplete \cup bs
    <3>1. \A s \in Submission : [s EXCEPT !.onComplete = @ \cup bs] \in Submission
      BY <1>2 DEF Submission
    <3>2. pending' = [pending EXCEPT ![n] = [pending[n] EXCEPT !.onComplete = @ \cup bs]]
      BY <2>1
    <3>3. pending' \in Seq(Submission) /\ Len(pending') = Len(pending)
      <4>1. /\ pending \in Seq(Submission) /\ n \in 1 .. Len(pending)
            /\ [pending[n] EXCEPT !.onComplete = @ \cup bs] \in Submission
        BY <2>1, <3>1 DEF StreamInv, TypeOK
      <4> QED BY <3>2, <4>1, ExceptSeq
    <3>4. \A i \in 1 .. n : pending'[i] = IF i = n
             THEN [pending[n] EXCEPT !.onComplete = @ \cup bs] ELSE pending[i]
      BY <2>1, <3>2
    <3> QED BY <2>1, <3>1, <3>3, <3>4 DEF Submission
  <2>3. \A c \in Live : \A m \in bs : m \in refers[c] => c <= pending[n].cmd
    <3> SUFFICES ASSUME NEW c \in Live, NEW m \in bs, m \in refers[c]
                 PROVE  c <= pending[n].cmd
      OBVIOUS
    <3>1. ~(open /\ c = opened)
      BY DEF MayDrop, Orderly
    <3>2. pc[t] # "wait"
      BY <1>4
    <3>3. PICK i \in 1 .. n : pending[i].cmd = c
      BY <2>1, <3>1, <3>2, CoveredByRing
    <3>4. i = n \/ (i < n /\ pending[i].cmd < pending[n].cmd)
      BY <2>1 DEF StreamInv, RingInv
    <3>5. pending[n].cmd \in Nat /\ pending[i].cmd \in Nat
      BY <2>1 DEF Submission
    <3> QED BY <3>3, <3>4, <3>5
  <2>4. \A i \in 1 .. n : Outlives(pending[i])'
    <3> SUFFICES ASSUME NEW i \in 1 .. n, NEW m \in pending'[i].onComplete
                 PROVE  /\ place'[m] = "deferred"
                        /\ \A c \in Live : m \in refers[c] => c <= pending'[i].cmd
      BY <1>1, <1>3 DEF Outlives
    <3>1. pending'[i].cmd = pending[i].cmd
      BY <2>2
    <3>2. CASE m \in pending[i].onComplete
      <4>1. Outlives(pending[i])
        BY <2>1 DEF StreamInv, RingInv
      <4>2. m \in Memory
        BY <2>1, <3>2 DEF Submission
      <4>3. place'[m] = "deferred"
        BY <1>2, <3>2, <4>1, <4>2 DEF Outlives
      <4>4. \A c \in Live : m \in refers[c] => c <= pending[i].cmd
        BY <3>2, <4>1 DEF Outlives
      <4> QED BY <3>1, <4>3, <4>4
    <3>3. CASE i = n /\ m \in bs
      <4>1. place'[m] = "deferred"
        BY <1>2, <3>3
      <4>2. \A c \in Live : m \in refers[c] => c <= pending[i].cmd
        BY <2>3, <3>3
      <4> QED BY <3>1, <4>1, <4>2
    <3>4. m \in pending[i].onComplete \/ (i = n /\ m \in bs)
      BY <2>1, <2>2
    <3> QED BY <3>2, <3>3, <3>4
  <2>5. \A i \in 1 .. n : \A m \in pending[i].onComplete : m \notin bs
    BY <2>1 DEF StreamInv, RingInv, Outlives
  <2>6. RingInv'
    <3>1. \A i \in 1 .. n : Queued(pending[i])'
      BY <1>1, <2>1, <2>2 DEF StreamInv, RingInv, Queued
    <3>2. \A i, j \in 1 .. n : i < j => pending'[i].onComplete \cap pending'[j].onComplete = {}
      BY <2>1, <2>2, <2>5 DEF StreamInv, RingInv
    <3>3. \A i, j \in 1 .. n : i < j => pending'[i].cmd < pending'[j].cmd
      BY <2>1, <2>2 DEF StreamInv, RingInv
    <3>4. n <= MaxInFlight
      BY <2>1 DEF StreamInv, RingInv
    <3> QED BY <2>2, <2>4, <3>1, <3>2, <3>3, <3>4 DEF RingInv
  <2>7. CoverInv'
    BY <1>1, <1>3, <2>1, <2>2 DEF StreamInv, CoverInv
  <2>8. DeferredInv'
    <3>1. \A m \in deferred : m \in Memory /\ place[m] = "deferred" /\ m \notin bs
      BY DEF StreamInv, DeferredInv, TypeOK
    <3>2. \A m \in deferred : \A i \in 1 .. n : m \notin pending'[i].onComplete
      BY <2>1, <2>2, <3>1 DEF StreamInv, DeferredInv
    <3> QED BY <1>1, <1>2, <1>4, <2>1, <2>2, <3>1, <3>2 DEF DeferredInv
  <2>9. ThreadInv'
    BY <1>1, <1>4 DEF ThreadInv, Holding, Completed
  <2> QED BY <1>5, <1>6, <2>6, <2>7, <2>8, <2>9
<1> QED BY <1>8, <1>9
----------------------------------------------------------------------------
(* Submitting, and taking a submission out of the ring.                    *)

LEMMA SubmitInv ==
  ASSUME Orderly, StreamInv, NEW t \in Thread, pc[t] \in {"flush", "resubmit"},
         open, Len(pending) < MaxInFlight, Submit(t)
  PROVE  /\ QueueInv' /\ RingInv' /\ CoverInv' /\ DeferredInv' /\ ThreadInv'
         /\ ReleasedInv' /\ SetsInv'
<1> DEFINE new == [cmd |-> opened, fence |-> Len(queue) + 1, onComplete |-> deferred]
<1>1. /\ queue' = Append(queue, opened) /\ pending' = Append(pending, new)
      /\ AfterFlush(t)
  BY DEF Submit, Orderly
<1>2. /\ opened' = opened /\ open' = FALSE /\ refers' = refers /\ binds' = binds
      /\ executed' = executed /\ place' = place /\ arena' = arena /\ deferred' = {}
      /\ back' = back /\ sub' = sub
  BY DEF Submit, memVars
<1>3. /\ pc'[t] \in {"idle", "popLast", "copyOut"}
      /\ \A u \in Thread : u = t /\ sub[u].onComplete = {}
  <2>1. pc'[t] \in {"idle", "popLast", "copyOut"}
    BY <1>1 DEF AfterFlush, Goto, Return, StreamInv, TypeOK
  <2> QED BY <2>1, OneThread DEF StreamInv, ThreadInv, Holding, Completed
<1>4. PICK q \in Nat : q = Len(queue)
  BY Indices DEF StreamInv
<1>5. PICK n \in Nat : n = Len(pending)
  BY Indices DEF StreamInv
<1>6. /\ Len(queue') = q + 1 /\ queue'[q + 1] = opened
      /\ \A f \in 1 .. q : queue'[f] = queue[f]
  <2>1. queue \in Seq(0 .. opened) /\ opened \in 0 .. opened
    BY DEF StreamInv, TypeOK
  <2> QED BY <1>1, <1>4, <2>1, AppendProperties
<1>7. /\ Len(pending') = n + 1 /\ pending'[n + 1] = new
      /\ \A i \in 1 .. n : pending'[i] = pending[i]
  <2>1. pending \in Seq(Submission) /\ new \in Submission
    BY <1>4 DEF StreamInv, TypeOK, Submission
  <2> QED BY <1>1, <1>5, <2>1, AppendProperties
<1>8. /\ opened \in Nat \ {0} /\ executed \in 0 .. q
      /\ \A f \in 1 .. q : queue[f] \in 0 .. opened /\ queue[f] < opened
  BY <1>4, Indices DEF StreamInv, TypeOK, QueueInv
<1>9. Live' = Live /\ Live \subseteq 1 .. opened
  <2>1. InFlight = (executed + 1) .. q /\ InFlight' = (executed + 1) .. (q + 1)
    BY <1>2, <1>4, <1>6 DEF InFlight
  <2>2. \A c \in 1 .. opened :
          (\E f \in (executed + 1) .. (q + 1) : queue'[f] = c)
            <=> (c = opened \/ \E f \in (executed + 1) .. q : queue[f] = c)
    BY <1>6, <1>8
  <2> QED BY <1>2, <2>1, <2>2 DEF Live
<1>10. QueueInv'
  <2>1. \A f \in 1 .. q : queue[f] # 0 =>
          \A g \in 1 .. q : f < g /\ queue[g] # 0 => queue[f] < queue[g]
    BY <1>4 DEF StreamInv, QueueInv
  <2> QED BY <1>2, <1>6, <1>8, <2>1 DEF QueueInv
<1>11. \A i \in 1 .. n : Queued(pending[i]) /\ Outlives(pending[i]) /\ pending[i] \in Submission
  BY <1>5, Indices DEF StreamInv, RingInv
<1>12. RingInv'
  <2>1. \A i \in 1 .. n : Queued(pending[i])'
    BY <1>2, <1>4, <1>6, <1>7, <1>11 DEF Queued
  <2>2. Queued(pending[n + 1])'
    BY <1>2, <1>4, <1>6, <1>7, <1>8 DEF Queued
  <2>3. \A i \in 1 .. n : Outlives(pending[i])'
    BY <1>2, <1>7, <1>9, <1>11 DEF Outlives
  <2>4. Outlives(pending[n + 1])'
    <3>1. pending'[n + 1].cmd = opened /\ pending'[n + 1].onComplete = deferred
      BY <1>7
    <3>2. \A m \in deferred : place[m] = "deferred"
      BY DEF StreamInv, DeferredInv
    <3>3. \A c \in Live : c <= opened
      BY <1>8, <1>9
    <3> QED BY <1>2, <1>9, <3>1, <3>2, <3>3 DEF Outlives
  <2>5. \A i, j \in 1 .. n : i < j =>
          /\ pending[i].cmd < pending[j].cmd
          /\ pending[i].onComplete \cap pending[j].onComplete = {}
    BY <1>5 DEF StreamInv, RingInv
  <2>6. \A i \in 1 .. n :
          /\ pending[i].cmd < opened
          /\ pending[i].onComplete \cap deferred = {}
    BY <1>4, <1>5, <1>8, <1>11 DEF Queued, StreamInv, DeferredInv
  <2>7. n + 1 <= MaxInFlight
    BY <1>5, CapAssumption
  <2> QED BY <1>5, <1>7, <2>1, <2>2, <2>3, <2>4, <2>5, <2>6, <2>7 DEF RingInv
<1>13. CoverInv'
  <2>1. \A c \in Live : c = opened \/ \E i \in 1 .. n : pending[i].cmd = c
    BY <1>5, CoveredByRing
  <2>2. \A c \in Live : \E i \in 1 .. n + 1 : pending'[i].cmd = c
    BY <1>7, <2>1
  <2> QED BY <1>7, <1>9, <2>2 DEF CoverInv
<1>14. DeferredInv' /\ ThreadInv'
  BY <1>2, <1>3 DEF DeferredInv, ThreadInv, Holding, Completed
<1>15. ReleasedInv' /\ SetsInv'
  BY <1>2, <1>9 DEF StreamInv, ReleasedInv, SetsInv, Allocated
<1> QED BY <1>10, <1>12, <1>13, <1>14, <1>15

\* The submission s leaves one end of pending: the front (k = 1) or the back.
LEMMA TakeInv ==
  ASSUME Orderly, StreamInv, NEW t \in Thread, pc[t] \in {"flush", "popLast", "drain"},
         NEW k \in {0, 1}, NEW n \in Nat \ {0}, n = Len(pending),
         Len(pending') = n - 1,
         \A i \in 1 .. n - 1 : pending'[i] = pending[i + k],
         NEW s, s = pending[IF k = 1 THEN 1 ELSE n],
         NEW next \in {"idle", "resubmit", "drain"}, next = "resubmit" => open,
         Take(t, s, next),
         UNCHANGED <<opened, open, dispatches, deferred, refers, binds, gpuVars, memVars>>
  PROVE  /\ QueueInv' /\ RingInv' /\ CoverInv' /\ DeferredInv' /\ ThreadInv'
         /\ ReleasedInv' /\ SetsInv'
<1>1. /\ opened' = opened /\ open' = open /\ refers' = refers /\ binds' = binds
      /\ executed' = executed /\ place' = place /\ arena' = arena /\ deferred' = deferred
      /\ queue' = queue
  BY DEF gpuVars, memVars
<1>2. Live' = Live /\ Allocated' = Allocated
  BY <1>1 DEF Live, InFlight, Allocated
<1>3. /\ pc'[t] = "wait" /\ sub'[t] = s /\ back'[t] = next
      /\ \A u \in Thread : u = t
  BY OneThread DEF Take, Goto, StreamInv, TypeOK
<1>4. PICK j \in 1 .. n : /\ s = pending[j]
                          /\ \A i \in 1 .. n : i # j => i - k \in 1 .. n - 1
                          /\ \A i \in 1 .. n - 1 : i + k # j /\ i + k \in 1 .. n
  <2>1. CASE k = 1
    BY <2>1, 1 \in 1 .. n
  <2>2. CASE k = 0
    BY <2>2, n \in 1 .. n
  <2> QED BY <2>1, <2>2
<1>5. \A i \in 1 .. n : /\ Queued(pending[i]) /\ Outlives(pending[i])
                       /\ pending[i] \in Submission
  BY Indices DEF StreamInv, RingInv
<1>6. \A p \in Submission : (Queued(p) => Queued(p)') /\ (Outlives(p) => Outlives(p)')
  BY <1>1, <1>2 DEF Queued, Outlives
<1>7. \A a, b \in 1 .. n : a # b => pending[a].onComplete \cap pending[b].onComplete = {}
  <2>1. \A a, b \in 1 .. n : a < b => pending[a].onComplete \cap pending[b].onComplete = {}
    BY DEF StreamInv, RingInv
  <2>2. \A a, b \in 1 .. n : a # b => a < b \/ b < a
    OBVIOUS
  <2> QED BY <2>1, <2>2
<1>8. RingInv'
  <2>1. n - 1 <= MaxInFlight
    BY CapAssumption DEF StreamInv, RingInv
  <2>2. \A i \in 1 .. n - 1 : Queued(pending[i])' /\ Outlives(pending[i])'
    <3> SUFFICES ASSUME NEW i \in 1 .. n - 1
                 PROVE  Queued(pending[i])' /\ Outlives(pending[i])'
      OBVIOUS
    <3>1. pending'[i] = pending[i + k] /\ i + k \in 1 .. n
      BY <1>4
    <3>2. Queued(pending[i + k]) /\ Outlives(pending[i + k])
      BY <1>5, <3>1
    <3> QED BY <1>1, <1>2, <3>1, <3>2 DEF Queued, Outlives
  <2>3. \A a, b \in 1 .. n - 1 : a < b =>
          /\ pending'[a].cmd < pending'[b].cmd
          /\ pending'[a].onComplete \cap pending'[b].onComplete = {}
    <3>1. \A a, b \in 1 .. n - 1 : a < b =>
            /\ pending[a + k].cmd < pending[b + k].cmd
            /\ pending[a + k].onComplete \cap pending[b + k].onComplete = {}
      BY <1>4 DEF StreamInv, RingInv
    <3> QED BY <3>1
  <2> QED BY <2>1, <2>2, <2>3 DEF RingInv
<1>9. CoverInv'
  <2> SUFFICES ASSUME NEW c \in Live, ~(open /\ c = opened)
               PROVE  \/ \E i \in 1 .. n - 1 : pending'[i].cmd = c
                      \/ s.cmd = c
    BY <1>1, <1>2, <1>3 DEF CoverInv
  <2>1. pc[t] # "wait"
    OBVIOUS
  <2>2. PICK i \in 1 .. n : pending[i].cmd = c
    BY <2>1, CoveredByRing
  <2>3. CASE i = j
    BY <1>4, <2>2, <2>3
  <2>4. CASE i # j
    <3>1. i - k \in 1 .. n - 1
      BY <1>4, <2>4
    <3>2. pending'[i - k] = pending[i]
      <4>1. (i - k) + k = i
        OBVIOUS
      <4> QED BY <3>1, <4>1
    <3> QED BY <2>2, <3>1, <3>2
  <2> QED BY <2>3, <2>4
<1>10. DeferredInv'
  <2> SUFFICES ASSUME NEW m \in deferred
               PROVE  /\ place[m] = "deferred"
                      /\ \A i \in 1 .. n - 1 : m \notin pending'[i].onComplete
                      /\ m \notin s.onComplete
    BY <1>1, <1>3 DEF DeferredInv
  <2>1. place[m] = "deferred" /\ \A i \in 1 .. n : m \notin pending[i].onComplete
    BY DEF StreamInv, DeferredInv
  <2> QED BY <1>4, <2>1
<1>11. ThreadInv'
  <2>1. /\ Queued(sub[t])' /\ Outlives(sub[t])'
        /\ \A i \in 1 .. n - 1 : s.onComplete \cap pending'[i].onComplete = {}
    <3>1. Queued(s) /\ Outlives(s)
      BY <1>4, <1>5
    <3>2. Queued(sub[t])' /\ Outlives(sub[t])'
      BY <1>1, <1>2, <1>3, <3>1 DEF Queued, Outlives
    <3> QED BY <1>4, <1>7, <3>2
  <2>2. next = "resubmit" => open /\ n - 1 < MaxInFlight
    BY CapAssumption DEF StreamInv, RingInv
  <2> QED BY <1>1, <1>3, <2>1, <2>2 DEF ThreadInv, Holding, Completed
<1>12. QueueInv' /\ ReleasedInv' /\ SetsInv'
  BY <1>1, <1>2 DEF StreamInv, QueueInv, ReleasedInv, SetsInv
<1> QED BY <1>8, <1>9, <1>10, <1>11, <1>12
----------------------------------------------------------------------------
(* Moving between sections, reaping, and the GPU.                          *)

\* A step that changes neither the stream nor memory nor sub.
LEMMA FrameInv ==
  ASSUME StreamInv, UNCHANGED <<streamVars, gpuVars, memVars, sub>>
  PROVE  /\ QueueInv' /\ RingInv' /\ DeferredInv' /\ ReleasedInv' /\ SetsInv'
         /\ opened' = opened /\ open' = open /\ pending' = pending /\ Live' = Live
         /\ \A u \in Thread : /\ sub'[u] = sub[u]
                             /\ (Queued(sub[u]) => Queued(sub[u])')
                             /\ (Outlives(sub[u]) => Outlives(sub[u])')
<1>1. /\ opened' = opened /\ open' = open /\ refers' = refers /\ binds' = binds
      /\ executed' = executed /\ place' = place /\ arena' = arena /\ deferred' = deferred
      /\ queue' = queue /\ pending' = pending /\ sub' = sub
  BY DEF streamVars, gpuVars, memVars
<1>2. Live' = Live /\ Allocated' = Allocated
  BY <1>1 DEF Live, InFlight, Allocated
<1>3. QueueInv' /\ DeferredInv' /\ ReleasedInv' /\ SetsInv'
  BY <1>1, <1>2 DEF StreamInv, QueueInv, DeferredInv, ReleasedInv, SetsInv
<1>4. \A i \in 1 .. Len(pending) :
        /\ Queued(pending[i]) => Queued(pending[i])'
        /\ Outlives(pending[i]) => Outlives(pending[i])'
  BY <1>1, <1>2 DEF Queued, Outlives
<1>5. RingInv'
  BY <1>1, <1>4 DEF StreamInv, RingInv
<1>6. \A u \in Thread : /\ sub'[u] = sub[u]
                       /\ (Queued(sub[u]) => Queued(sub[u])')
                       /\ (Outlives(sub[u]) => Outlives(sub[u])')
  BY <1>1, <1>2 DEF Queued, Outlives
<1> QED BY <1>1, <1>2, <1>3, <1>5, <1>6

\* Moves of a thread that holds no submission.
LEMMA MoveInv ==
  ASSUME Orderly, StreamInv, NEW t \in Thread,
         pc[t] \in {"idle", "flush", "popLast"},
         pc'[t] \in {"idle", "flush", "popLast", "drain", "copyOut"},
         UNCHANGED <<streamVars, gpuVars, memVars, back, sub>>
  PROVE  /\ QueueInv' /\ RingInv' /\ CoverInv' /\ DeferredInv' /\ ThreadInv'
         /\ ReleasedInv' /\ SetsInv'
<1>1. \A u \in Thread : u = t
  BY OneThread
<1>2. CoverInv'
  <2>1. \A c \in Live : (open /\ c = opened) \/ \E i \in 1 .. Len(pending) : pending[i].cmd = c
    BY CoveredByRing
  <2> QED BY <2>1, FrameInv DEF CoverInv
<1>3. ThreadInv'
  BY <1>1, FrameInv DEF StreamInv, ThreadInv, Holding, Completed
<1> QED BY <1>2, <1>3, FrameInv

\* Once a fence has signaled, everything that may still execute was recorded
\* after the submission it belongs to.
LEMMA PastIsOlder ==
  ASSUME StreamInv, NEW s, Queued(s), Signaled(s.fence), NEW c \in Live,
         s.cmd \in 1 .. opened
  PROVE  s.cmd < c
<1>1. /\ s.fence \in 1 .. Len(queue) /\ s.fence <= executed /\ queue[s.fence] = s.cmd
      /\ executed \in 0 .. Len(queue) /\ Len(queue) \in Nat /\ opened \in Nat
  BY Indices DEF Queued, Signaled, StreamInv
<1>2. CASE open /\ c = opened
  BY <1>1, <1>2 DEF StreamInv, QueueInv
<1>3. CASE \E f \in InFlight : queue[f] = c
  <2>1. PICK f \in (executed + 1) .. Len(queue) : queue[f] = c
    BY <1>3 DEF InFlight
  <2>2. c \in 1 .. opened
    BY DEF Live
  <2>3. s.fence < f /\ f \in 1 .. Len(queue) /\ queue[f] # 0 /\ queue[s.fence] # 0
    BY <1>1, <2>1, <2>2
  <2> QED BY <1>1, <2>1, <2>3 DEF StreamInv, QueueInv
<1> QED BY <1>2, <1>3 DEF Live

LEMMA WaitInv ==
  ASSUME Orderly, StreamInv, NEW t \in Thread, WaitFence(t)
  PROVE  /\ QueueInv' /\ RingInv' /\ CoverInv' /\ DeferredInv' /\ ThreadInv'
         /\ ReleasedInv' /\ SetsInv'
<1>1. /\ pc[t] = "wait" /\ pc'[t] = "complete" /\ Signaled(sub[t].fence)
      /\ back' = back /\ executed' = executed
      /\ UNCHANGED <<streamVars, gpuVars, memVars, back, sub>>
      /\ \A u \in Thread : u = t
  BY OneThread DEF WaitFence, Goto, StreamInv, TypeOK, gpuVars
<1>2. Queued(sub[t]) /\ sub[t].cmd \in 1 .. opened
  BY <1>1 DEF StreamInv, ThreadInv, Holding, Queued
<1>3. \A c \in Live : sub[t].cmd < c
  BY <1>1, <1>2, PastIsOlder
<1>4. CoverInv'
  <2>1. \A c \in Live : (open /\ c = opened) \/ \E i \in 1 .. Len(pending) : pending[i].cmd = c
    BY <1>1, <1>2, <1>3 DEF StreamInv, CoverInv
  <2> QED BY <1>1, <2>1, FrameInv DEF CoverInv
<1>5. ThreadInv'
  BY <1>1, FrameInv DEF StreamInv, ThreadInv, Holding, Completed, Signaled
<1> QED BY <1>1, <1>4, <1>5, FrameInv

LEMMA CheckIdleInv ==
  ASSUME Orderly, StreamInv, NEW t \in Thread, CheckIdle(t)
  PROVE  /\ QueueInv' /\ RingInv' /\ CoverInv' /\ DeferredInv' /\ ThreadInv'
         /\ ReleasedInv' /\ SetsInv'
<1>1. /\ pc[t] = "checkIdle" /\ pc'[t] \in {"reset", "free"}
      /\ pc'[t] = "reset" => pending = <<>> /\ ~open
      /\ back' = back /\ executed' = executed
      /\ UNCHANGED <<streamVars, gpuVars, memVars, back, sub>>
      /\ \A u \in Thread : u = t
  BY OneThread DEF CheckIdle, Goto, StreamInv, TypeOK, gpuVars
<1>2. CoverInv'
  <2>1. \A c \in Live : (open /\ c = opened) \/ \E i \in 1 .. Len(pending) : pending[i].cmd = c
    BY <1>1, CoveredByRing
  <2> QED BY <2>1, <1>1, FrameInv DEF CoverInv
<1>3. ThreadInv'
  BY <1>1, FrameInv DEF StreamInv, ThreadInv, Holding, Completed, Signaled
<1> QED BY <1>1, <1>2, <1>3, FrameInv

\* The deferred releases of a completed submission.
LEMMA CompletionInv ==
  ASSUME Orderly, StreamInv, NEW t \in Thread, RunCompletion(t)
  PROVE  /\ QueueInv' /\ RingInv' /\ CoverInv' /\ DeferredInv' /\ ThreadInv'
         /\ ReleasedInv' /\ SetsInv'
<1> DEFINE done == sub[t].onComplete
<1>1. /\ opened' = opened /\ open' = open /\ refers' = refers /\ binds' = binds
      /\ executed' = executed /\ arena' = arena /\ deferred' = deferred
      /\ queue' = queue /\ pending' = pending /\ back' = back
  BY DEF RunCompletion, streamVars, gpuVars
<1>2. /\ pc[t] = "complete" /\ pc'[t] = "checkIdle" /\ \A u \in Thread : u = t
      /\ sub[t] \in Submission /\ done \subseteq Memory
      /\ sub'[t].cmd = sub[t].cmd /\ sub'[t].fence = sub[t].fence /\ sub'[t].onComplete = {}
  BY OneThread DEF RunCompletion, Goto, StreamInv, TypeOK, Submission
<1>3. \A m \in Memory : m \notin done => place'[m] = place[m]
  BY DEF RunCompletion
<1>4. /\ Queued(sub[t]) /\ Outlives(sub[t]) /\ Signaled(sub[t].fence)
      /\ \A i \in 1 .. Len(pending) : done \cap pending[i].onComplete = {}
      /\ back[t] = "resubmit" => open /\ Len(pending) < MaxInFlight
  BY <1>2 DEF StreamInv, ThreadInv, Holding, Completed
<1>5. Live' = Live /\ Allocated' = Allocated
  BY <1>1 DEF Live, InFlight, Allocated
<1>6. \A c \in Live : sub[t].cmd < c /\ c \in Nat /\ sub[t].cmd \in Nat
  BY <1>2, <1>4, PastIsOlder DEF Queued, Live, Submission
<1>7. \A m \in done : \A c \in Live : m \notin refers[c]
  BY <1>4, <1>6 DEF Outlives
<1>8. ReleasedInv'
  BY <1>1, <1>3, <1>5, <1>7 DEF StreamInv, ReleasedInv
<1>9. \A i \in 1 .. Len(pending) : Queued(pending[i])' /\ Outlives(pending[i])'
  <2> SUFFICES ASSUME NEW i \in 1 .. Len(pending)
               PROVE  Queued(pending[i])' /\ Outlives(pending[i])'
    OBVIOUS
  <2>1. Queued(pending[i]) /\ Outlives(pending[i]) /\ pending[i] \in Submission
    BY Indices DEF StreamInv, RingInv
  <2>2. \A m \in pending[i].onComplete : m \in Memory /\ m \notin done
    BY <1>4, <2>1 DEF Submission
  <2> QED BY <1>1, <1>3, <1>5, <2>1, <2>2 DEF Queued, Outlives
<1>10. RingInv'
  BY <1>1, <1>9 DEF StreamInv, RingInv
<1>11. CoverInv'
  <2>1. \A c \in Live : (open /\ c = opened) \/ \E i \in 1 .. Len(pending) : pending[i].cmd = c
    BY <1>2, CoveredByRing
  <2> QED BY <1>1, <1>5, <2>1 DEF CoverInv
<1>12. DeferredInv'
  <2>1. \A m \in deferred : m \in Memory /\ m \notin done
    BY DEF StreamInv, DeferredInv, TypeOK
  <2> QED BY <1>1, <1>2, <1>3, <2>1 DEF StreamInv, DeferredInv
<1>13. ThreadInv'
  <2>1. Queued(sub[t])' /\ Outlives(sub[t])' /\ Signaled(sub[t].fence)'
    BY <1>1, <1>2, <1>4 DEF Queued, Outlives, Signaled
  <2> QED BY <1>1, <1>2, <1>4, <2>1 DEF ThreadInv, Holding, Completed
<1>14. QueueInv' /\ SetsInv'
  BY <1>1, <1>5 DEF StreamInv, QueueInv, SetsInv
<1> QED BY <1>8, <1>10, <1>11, <1>12, <1>13, <1>14

\* The arena is reset only when nothing can execute.
LEMMA ResetInv ==
  ASSUME Orderly, StreamInv, NEW t \in Thread, ResetDescriptors(t)
  PROVE  /\ QueueInv' /\ RingInv' /\ CoverInv' /\ DeferredInv' /\ ThreadInv'
         /\ ReleasedInv' /\ SetsInv'
<1>1. /\ opened' = opened /\ open' = open /\ refers' = refers /\ binds' = binds
      /\ executed' = executed /\ place' = place /\ deferred' = deferred
      /\ queue' = queue /\ pending' = pending /\ back' = back /\ sub' = sub
  BY DEF ResetDescriptors, streamVars, gpuVars
<1>2. /\ pc[t] = "reset" /\ pc'[t] = "free" /\ \A u \in Thread : u = t
  BY OneThread DEF ResetDescriptors, Goto, StreamInv, TypeOK
<1>3. Live = {} /\ Live' = {}
  <2>1. pending = <<>> /\ ~open /\ Len(pending) = 0
    BY <1>2 DEF StreamInv, ThreadInv
  <2>2. Live = {}
    BY <1>2, <2>1, CoveredByRing
  <2> QED BY <1>1, <2>2 DEF Live, InFlight
<1>4. QueueInv' /\ CoverInv' /\ DeferredInv' /\ ReleasedInv' /\ SetsInv'
  BY <1>1, <1>3 DEF StreamInv, QueueInv, CoverInv, DeferredInv, ReleasedInv, SetsInv
<1>5. \A i \in 1 .. Len(pending) : Queued(pending[i])' /\ Outlives(pending[i])'
  BY <1>1, <1>3 DEF StreamInv, RingInv, Queued, Outlives
<1>6. RingInv'
  BY <1>1, <1>5 DEF StreamInv, RingInv
<1>7. ThreadInv'
  <2>1. Queued(sub[t])' /\ Outlives(sub[t])' /\ Signaled(sub[t].fence)'
    BY <1>1, <1>2, <1>3
    DEF StreamInv, ThreadInv, Holding, Completed, Queued, Outlives, Signaled
  <2> QED BY <1>1, <1>2, <2>1 DEF StreamInv, ThreadInv, Holding, Completed
<1> QED BY <1>4, <1>6, <1>7

\* The command buffer freed is not one that may still execute.
LEMMA FreeInv ==
  ASSUME Orderly, StreamInv, NEW t \in Thread, FreeSubmission(t)
  PROVE  /\ QueueInv' /\ RingInv' /\ CoverInv' /\ DeferredInv' /\ ThreadInv'
         /\ ReleasedInv' /\ SetsInv'
<1>1. /\ opened' = opened /\ open' = open /\ arena' = arena
      /\ executed' = executed /\ place' = place /\ deferred' = deferred
      /\ queue' = queue /\ pending' = pending /\ back' = back
  BY DEF FreeSubmission, gpuVars, memVars
<1>2. /\ pc[t] = "free" /\ \A u \in Thread : u = t
      /\ sub'[t] = NoSub
      /\ pc'[t] = back[t] /\ back[t] \in {"idle", "resubmit", "drain"}
  BY OneThread DEF FreeSubmission, Goto, Return, StreamInv, TypeOK
<1>3. /\ Queued(sub[t]) /\ Signaled(sub[t].fence)
      /\ back[t] = "resubmit" => open /\ Len(pending) < MaxInFlight
  BY <1>2 DEF StreamInv, ThreadInv, Holding, Completed
<1>4. Live' = Live /\ Allocated' = Allocated /\ Live \subseteq 1 .. opened
  BY <1>1 DEF Live, InFlight, Allocated
<1>5. \A c \in Live : refers'[c] = refers[c] /\ binds'[c] = binds[c]
  <2>1. \A c \in Live : sub[t].cmd # c
    <3>1. sub[t].cmd \in 1 .. opened /\ opened \in Nat
      BY <1>3 DEF Queued, StreamInv, TypeOK
    <3>2. \A c \in Live : sub[t].cmd < c /\ c \in 1 .. opened
      BY <1>3, <1>4, <3>1, PastIsOlder
    <3> QED BY <3>1, <3>2
  <2>2. refers \in [1 .. opened -> SUBSET Memory] /\ binds \in [1 .. opened -> SUBSET (Nat \X Nat)]
    BY LenProperties DEF StreamInv, TypeOK
  <2>3. /\ refers' = [refers EXCEPT ![sub[t].cmd] = {}]
        /\ binds' = [binds EXCEPT ![sub[t].cmd] = {}]
    BY DEF FreeSubmission
  <2> QED BY <1>4, <2>1, <2>2, <2>3
<1>6. \A s \in Submission : (Outlives(s) => Outlives(s)') /\ (Queued(s) => Queued(s)')
  BY <1>1, <1>4, <1>5 DEF Queued, Outlives
<1>7. RingInv'
  BY <1>1, <1>6, Indices DEF StreamInv, RingInv
<1>8. CoverInv'
  <2>1. \A c \in Live : (open /\ c = opened) \/ \E i \in 1 .. Len(pending) : pending[i].cmd = c
    BY <1>2, CoveredByRing
  <2> QED BY <1>1, <1>4, <2>1 DEF CoverInv
<1>9. sub'[t].onComplete = {}
  BY <1>2 DEF NoSub
<1>10. DeferredInv' /\ ThreadInv'
  BY <1>1, <1>2, <1>3, <1>9 DEF StreamInv, DeferredInv, ThreadInv, Holding, Completed
<1>11. QueueInv' /\ ReleasedInv' /\ SetsInv'
  BY <1>1, <1>4, <1>5 DEF StreamInv, QueueInv, ReleasedInv, SetsInv
<1> QED BY <1>7, <1>8, <1>10, <1>11

\* finish_stream closes the open command buffer over an empty ring.
LEMMA DrainInv ==
  ASSUME Orderly, StreamInv, NEW t \in Thread, DrainDone(t)
  PROVE  /\ QueueInv' /\ RingInv' /\ CoverInv' /\ DeferredInv' /\ ThreadInv'
         /\ ReleasedInv' /\ SetsInv'
<1>1. /\ opened' = opened /\ open' = FALSE /\ refers' = refers /\ binds' = binds
      /\ executed' = executed /\ place' = place /\ arena' = arena /\ deferred' = deferred
      /\ queue' = queue /\ pending' = pending /\ back' = back /\ sub' = sub
      /\ pending = <<>> /\ Len(pending) = 0
  BY DEF DrainDone, gpuVars, memVars
<1>2. /\ pc[t] = "drain" /\ pc'[t] = "idle" /\ \A u \in Thread : u = t
  BY OneThread DEF DrainDone, Return, StreamInv, TypeOK
<1>3. Live' = {}
  <2>1. \A c \in Live : open /\ c = opened
    BY <1>1, <1>2, CoveredByRing
  <2>2. \A f \in InFlight : queue[f] # 0 => open /\ queue[f] = opened
    <3>1. \A f \in InFlight : queue[f] \in 0 .. opened /\ opened \in Nat
      BY Indices DEF StreamInv
    <3> QED BY <2>1, <3>1 DEF Live
  <2>3. \A f \in InFlight : queue[f] = 0
    <3>1. \A f \in InFlight : queue[f] # 0 /\ open => queue[f] < opened
      BY Indices DEF StreamInv, QueueInv
    <3>2. \A f \in InFlight : queue[f] \in 0 .. opened /\ opened \in Nat
      BY Indices DEF StreamInv
    <3> QED BY <2>2, <3>1, <3>2
  <2> QED BY <1>1, <2>3 DEF Live, InFlight
<1>4. /\ QueueInv' /\ CoverInv' /\ DeferredInv' /\ ReleasedInv' /\ SetsInv'
  BY <1>1, <1>3 DEF StreamInv, QueueInv, CoverInv, DeferredInv, ReleasedInv, SetsInv
<1>5. RingInv' /\ ThreadInv'
  BY <1>1, <1>2, CapAssumption DEF StreamInv, RingInv, ThreadInv, Holding, Completed
<1> QED BY <1>4, <1>5
----------------------------------------------------------------------------
(* One-shot copies and the GPU.                                            *)

LEMMA CopyOutInv ==
  ASSUME Orderly, StreamInv, NEW t \in Thread, CopyOut(t)
  PROVE  /\ QueueInv' /\ RingInv' /\ CoverInv' /\ DeferredInv' /\ ThreadInv'
         /\ ReleasedInv' /\ SetsInv'
<1>1. /\ opened' = opened /\ open' = open /\ refers' = refers /\ binds' = binds
      /\ executed' = executed /\ place' = place /\ arena' = arena /\ deferred' = deferred
      /\ pending' = pending /\ back' = back /\ queue' = Append(queue, 0)
  BY DEF CopyOut, streamVars, memVars
<1>2. /\ pc[t] = "copyOut" /\ pc'[t] = "copyWait" /\ \A u \in Thread : u = t
      /\ sub'[t].onComplete = {}
  BY OneThread DEF CopyOut, Goto, StreamInv, TypeOK, NoSub
<1>3. PICK q \in Nat : q = Len(queue)
  BY Indices DEF StreamInv
<1>4. /\ Len(queue') = q + 1 /\ queue'[q + 1] = 0
      /\ \A f \in 1 .. q : queue'[f] = queue[f]
  <2>1. queue \in Seq(0 .. opened) /\ 0 \in 0 .. opened
    BY DEF StreamInv, TypeOK
  <2> QED BY <1>1, <1>3, <2>1, AppendProperties
<1>5. Live' = Live /\ Allocated' = Allocated
  <2>1. InFlight = (executed + 1) .. q /\ InFlight' = (executed + 1) .. (q + 1)
        /\ executed \in 0 .. q
    BY <1>1, <1>3, <1>4, Indices DEF InFlight, StreamInv
  <2>2. \A c \in 1 .. opened :
          (\E f \in (executed + 1) .. (q + 1) : queue'[f] = c)
            <=> (\E f \in (executed + 1) .. q : queue[f] = c)
    BY <1>4, <2>1
  <2> QED BY <1>1, <2>1, <2>2 DEF Live, Allocated
<1>6. \A s \in Submission : (Outlives(s) => Outlives(s)') /\ (Queued(s) => Queued(s)')
  BY <1>1, <1>3, <1>4, <1>5 DEF Queued, Outlives
<1>7. QueueInv'
  BY <1>1, <1>3, <1>4 DEF StreamInv, QueueInv
<1>8. RingInv'
  BY <1>1, <1>6, Indices DEF StreamInv, RingInv
<1>9. CoverInv'
  <2>1. \A c \in Live : (open /\ c = opened) \/ \E i \in 1 .. Len(pending) : pending[i].cmd = c
    BY <1>2, CoveredByRing
  <2> QED BY <1>1, <1>5, <2>1 DEF CoverInv
<1>10. DeferredInv' /\ ThreadInv'
  BY <1>1, <1>2 DEF StreamInv, DeferredInv, ThreadInv, Holding, Completed
<1>11. ReleasedInv' /\ SetsInv'
  BY <1>1, <1>5 DEF StreamInv, ReleasedInv, SetsInv
<1> QED BY <1>7, <1>8, <1>9, <1>10, <1>11

LEMMA CopyWaitInv ==
  ASSUME Orderly, StreamInv, NEW t \in Thread, CopyWait(t)
  PROVE  /\ QueueInv' /\ RingInv' /\ CoverInv' /\ DeferredInv' /\ ThreadInv'
         /\ ReleasedInv' /\ SetsInv'
<1>1. /\ opened' = opened /\ open' = open /\ refers' = refers /\ binds' = binds
      /\ executed' = executed /\ place' = place /\ arena' = arena /\ deferred' = deferred
      /\ queue' = queue /\ pending' = pending /\ back' = back
  BY DEF CopyWait, streamVars, gpuVars, memVars
<1>2. /\ pc[t] = "copyWait" /\ pc'[t] = "idle" /\ \A u \in Thread : u = t
      /\ sub'[t].onComplete = {}
  BY OneThread DEF CopyWait, Return, StreamInv, TypeOK, NoSub
<1>3. Live' = Live /\ Allocated' = Allocated
  BY <1>1 DEF Live, InFlight, Allocated
<1>4. \A s \in Submission : (Outlives(s) => Outlives(s)') /\ (Queued(s) => Queued(s)')
  BY <1>1, <1>3 DEF Queued, Outlives
<1>5. RingInv'
  BY <1>1, <1>4, Indices DEF StreamInv, RingInv
<1>6. CoverInv'
  <2>1. \A c \in Live : (open /\ c = opened) \/ \E i \in 1 .. Len(pending) : pending[i].cmd = c
    BY <1>2, CoveredByRing
  <2> QED BY <1>1, <1>3, <2>1 DEF CoverInv
<1>7. DeferredInv' /\ ThreadInv'
  BY <1>1, <1>2 DEF StreamInv, DeferredInv, ThreadInv, Holding, Completed
<1>8. QueueInv' /\ ReleasedInv' /\ SetsInv'
  BY <1>1, <1>3 DEF StreamInv, QueueInv, ReleasedInv, SetsInv
<1> QED BY <1>5, <1>6, <1>7, <1>8

LEMMA GpuInv ==
  ASSUME StreamInv, GpuExecute
  PROVE  /\ QueueInv' /\ RingInv' /\ CoverInv' /\ DeferredInv' /\ ThreadInv'
         /\ ReleasedInv' /\ SetsInv'
<1>1. /\ opened' = opened /\ open' = open /\ refers' = refers /\ binds' = binds
      /\ place' = place /\ arena' = arena /\ deferred' = deferred /\ pc' = pc
      /\ queue' = queue /\ pending' = pending /\ back' = back /\ sub' = sub
      /\ executed' = executed + 1
  BY DEF GpuExecute, streamVars, memVars, threadVars
<1>2. Live' \subseteq Live /\ Allocated' = Allocated
  <2>1. InFlight' \subseteq InFlight
    BY <1>1, Indices DEF InFlight, StreamInv
  <2> QED BY <1>1, <2>1 DEF Live, Allocated
<1>3. \A s \in Submission : (Outlives(s) => Outlives(s)') /\ (Queued(s) => Queued(s)')
  BY <1>1, <1>2 DEF Queued, Outlives
<1>4. RingInv'
  BY <1>1, <1>3, Indices DEF StreamInv, RingInv
<1>5. CoverInv'
  BY <1>1, <1>2 DEF StreamInv, CoverInv
<1>6. ThreadInv'
  <2>1. \A t \in Thread : sub[t] \in Submission
    BY DEF StreamInv, TypeOK
  <2>2. \A t \in Thread : Signaled(sub[t].fence) => Signaled(sub[t].fence)'
    BY <1>1, <2>1, Indices DEF Signaled, StreamInv, Submission
  <2>3. \A t \in Thread : /\ Outlives(sub[t]) => Outlives(sub[t])'
                          /\ Queued(sub[t]) => Queued(sub[t])'
    BY <1>1, <1>2 DEF Queued, Outlives
  <2> QED BY <1>1, <2>2, <2>3 DEF StreamInv, ThreadInv, Holding, Completed
<1>7. QueueInv' /\ DeferredInv' /\ ReleasedInv' /\ SetsInv'
  BY <1>1, <1>2 DEF StreamInv, QueueInv, DeferredInv, ReleasedInv, SetsInv
<1> QED BY <1>4, <1>5, <1>6, <1>7
----------------------------------------------------------------------------
(* The steps of the specification.                                         *)

\* acquire_descriptor_set hands out one more set and takes none back.
LEMMA AcquireSets ==
  ASSUME TypeOK, arena' = Acquired
  PROVE  /\ Allocated \subseteq Allocated'
         /\ <<Acquired.current, Acquired.used - 1>> \in Allocated'
<1>1. /\ arena.current \in Nat /\ arena.used \in 0 .. SetsPerPool
      /\ arena'.current \in Nat /\ arena'.used \in 1 .. SetsPerPool
      /\ \/ arena'.current = arena.current + 1
         \/ arena'.current = arena.current /\ arena'.used = arena.used + 1
      /\ <<Acquired.current, Acquired.used - 1>> = <<arena'.current, arena'.used - 1>>
  BY PoolAssumption DEF TypeOK, Acquired
<1>2. ASSUME NEW c \in Nat, NEW k \in 0 .. SetsPerPool - 1
      PROVE  /\ <<c, k>> \in Allocated <=> c < arena.current \/ (c = arena.current /\ k < arena.used)
             /\ <<c, k>> \in Allocated' <=> c < arena'.current \/ (c = arena'.current /\ k < arena'.used)
  BY <1>1, PoolAssumption DEF Allocated
<1>3. \A d \in Allocated : \E c \in Nat, k \in 0 .. SetsPerPool - 1 : d = <<c, k>>
  BY <1>1 DEF Allocated
<1>4. ASSUME NEW d \in Allocated PROVE d \in Allocated'
  <2>1. PICK c \in Nat, k \in 0 .. SetsPerPool - 1 : d = <<c, k>>
    BY <1>3
  <2>2. c < arena.current \/ (c = arena.current /\ k < arena.used)
    BY <1>2, <2>1
  <2>3. c < arena'.current \/ (c = arena'.current /\ k < arena'.used)
    BY <1>1, <2>2
  <2> QED BY <1>2, <2>1, <2>3
<1>5. <<arena'.current, arena'.used - 1>> \in Allocated'
  <2>1. arena'.used - 1 \in 0 .. SetsPerPool - 1 /\ arena'.used - 1 < arena'.used
    BY <1>1, PoolAssumption
  <2> QED BY <1>1, <1>2, <2>1
<1> QED BY <1>1, <1>4, <1>5

\* One step of a client.
LEMMA ClientInv ==
  ASSUME Orderly, StreamInv, NEW t \in Thread, Client(t)
  PROVE  /\ QueueInv' /\ RingInv' /\ CoverInv' /\ DeferredInv' /\ ThreadInv'
         /\ ReleasedInv' /\ SetsInv'
<1>0. TypeOK
  BY DEF StreamInv
<1>1. ASSUME NEW b \in Buffer, StreamUpload(t, b)
      PROVE  /\ QueueInv' /\ RingInv' /\ CoverInv' /\ DeferredInv' /\ ThreadInv'
             /\ ReleasedInv' /\ SetsInv'
  <2>1. PICK s \in Staging :
          /\ place[s] \in {"pool", "none"}
          /\ Record({b, s}, {})
          /\ place' = [place EXCEPT ![s] = "deferred"]
          /\ deferred' = deferred \cup {s}
    BY <1>1 DEF StreamUpload
  <2>2. /\ {b, s} \in SUBSET Memory /\ {} \in SUBSET (Nat \X Nat) /\ b # s
        /\ place[b] = "owned" /\ Idle(t)
    BY <1>1, MemoryAssumption DEF Memory, StreamUpload
  <2>3. /\ UNCHANGED <<pending, gpuVars, back, sub>> /\ pc'[t] \in {"idle", "flush"}
        /\ arena' = arena
    BY <1>1 DEF StreamUpload, Idle, threadVars
  <2>4. /\ place'[s] = "deferred" /\ place'[b] = "owned"
        /\ \A m \in Memory \ {b, s} : place'[m] = place[m]
    BY <1>0, <2>1, <2>2 DEF TypeOK
  <2>5. Allocated \subseteq Allocated'
    BY <2>3 DEF Allocated
  <2>6. /\ \A m \in {b, s} : place[m] # "deferred" /\ place'[m] \in {"owned", "deferred"}
        /\ \A m \in deferred' : m \in deferred \/ (m \in {b, s} /\ place'[m] = "deferred")
    BY <2>1, <2>2, <2>4
  <2> QED BY <2>1, <2>2, <2>3, <2>4, <2>5, <2>6, RecordInv
<1>2. ASSUME NEW bs \in SUBSET Buffer, StreamDispatch(t, bs)
      PROVE  /\ QueueInv' /\ RingInv' /\ CoverInv' /\ DeferredInv' /\ ThreadInv'
             /\ ReleasedInv' /\ SetsInv'
  <2> DEFINE sets == {<<Acquired.current, Acquired.used - 1>>}
  <2>1. bs \in SUBSET Memory /\ sets \in SUBSET (Nat \X Nat) /\ Idle(t) /\ Record(bs, sets)
    BY <1>0, <1>2, TypeAcquired DEF Memory, StreamDispatch
  <2>2. /\ UNCHANGED <<pending, gpuVars, back, sub>> /\ pc'[t] \in {"idle", "flush"}
        /\ arena' = Acquired /\ place' = place /\ deferred' = deferred
        /\ \A b \in bs : place[b] = "owned"
    BY <1>0, <1>2 DEF StreamDispatch, Idle, TypeOK
  <2>3. Allocated \subseteq Allocated' /\ sets \subseteq Allocated'
    BY <1>0, <2>2, AcquireSets
  <2> HIDE DEF sets
  <2> QED BY <2>1, <2>2, <2>3, RecordInv
<1>3. ASSUME NEW src \in Buffer, NEW dst \in Buffer, StreamCopy(t, src, dst)
      PROVE  /\ QueueInv' /\ RingInv' /\ CoverInv' /\ DeferredInv' /\ ThreadInv'
             /\ ReleasedInv' /\ SetsInv'
  <2>1. /\ {src, dst} \in SUBSET Memory /\ {} \in SUBSET (Nat \X Nat)
        /\ Idle(t) /\ Record({src, dst}, {})
        /\ \A b \in {src, dst} : place[b] = "owned"
    BY <1>3 DEF Memory, StreamCopy
  <2>2. /\ UNCHANGED <<pending, gpuVars, back, sub>> /\ pc'[t] \in {"idle", "flush"}
        /\ arena' = arena /\ place' = place /\ deferred' = deferred
    BY <1>3 DEF StreamCopy, Idle, memVars, threadVars
  <2>3. Allocated \subseteq Allocated'
    BY <2>2 DEF Allocated
  <2> QED BY <2>1, <2>2, <2>3, RecordInv
<1>4. ASSUME NEW b \in Buffer, CreateStorageBuffer(t, b) \/ RecycleStorageBuffer(t, b)
      PROVE  /\ QueueInv' /\ RingInv' /\ CoverInv' /\ DeferredInv' /\ ThreadInv'
             /\ ReleasedInv' /\ SetsInv'
  <2>1. place[b] # "deferred" /\ UNCHANGED <<streamVars, gpuVars, arena, threadVars>>
    BY <1>4 DEF CreateStorageBuffer, RecycleStorageBuffer
  <2>2. \/ place' = [place EXCEPT ![b] = "owned"]
        \/ place' = [place EXCEPT ![b] = "pool"]
    BY <1>4 DEF CreateStorageBuffer, RecycleStorageBuffer
  <2> QED BY <2>1, <2>2, OwnerInv
<1>5. ASSUME NEW b \in Buffer, DeferDestroy(t, b)
      PROVE  /\ QueueInv' /\ RingInv' /\ CoverInv' /\ DeferredInv' /\ ThreadInv'
             /\ ReleasedInv' /\ SetsInv'
  <2>1. /\ {b} \in SUBSET Buffer /\ \A m \in {b} : place[m] # "deferred"
        /\ Idle(t) /\ MayDrop({b}) /\ Defer({b})
        /\ UNCHANGED <<opened, open, dispatches, refers, binds, gpuVars, arena, threadVars>>
    BY <1>5 DEF DeferDestroy
  <2> QED BY <2>1, DeferInv
<1>6. ASSUME DrainStoragePool(t)
      PROVE  /\ QueueInv' /\ RingInv' /\ CoverInv' /\ DeferredInv' /\ ThreadInv'
             /\ ReleasedInv' /\ SetsInv'
  <2> DEFINE pooled == {b \in Buffer : place[b] = "pool"}
  <2>1. /\ pooled \in SUBSET Buffer /\ \A m \in pooled : place[m] # "deferred"
        /\ Idle(t) /\ MayDrop(pooled) /\ Defer(pooled)
        /\ UNCHANGED <<opened, open, dispatches, refers, binds, gpuVars, arena, threadVars>>
    BY <1>6 DEF DrainStoragePool
  <2> HIDE DEF pooled
  <2> QED BY <2>1, DeferInv
<1>7. ASSUME Flush(t) \/ FlushWait(t) \/ FinishStream(t) \/ Download(t) \/ RunCommands(t)
      PROVE  /\ QueueInv' /\ RingInv' /\ CoverInv' /\ DeferredInv' /\ ThreadInv'
             /\ ReleasedInv' /\ SetsInv'
  <2>1. /\ pc[t] = "idle" /\ pc'[t] \in {"flush", "drain", "copyOut"}
        /\ UNCHANGED <<streamVars, gpuVars, memVars, back, sub>>
    BY <1>0, <1>7
    DEF Flush, FlushWait, FinishStream, Download, RunCommands, Enter, Idle, TypeOK
  <2> QED BY <2>1, MoveInv
<1> QED BY <1>1, <1>2, <1>3, <1>4, <1>5, <1>6, <1>7 DEF Client

\* One step of a thread within an operation.
LEMMA ProgressInv ==
  ASSUME Orderly, StreamInv, NEW t \in Thread, Progress(t)
  PROVE  /\ QueueInv' /\ RingInv' /\ CoverInv' /\ DeferredInv' /\ ThreadInv'
         /\ ReleasedInv' /\ SetsInv'
<1>0. TypeOK
  BY DEF StreamInv
<1>1. CASE FlushEmpty(t)
  <2>1. /\ pc[t] = "flush" /\ pc'[t] \in {"idle", "popLast", "copyOut"}
        /\ UNCHANGED <<streamVars, gpuVars, memVars, back, sub>>
    BY <1>0, <1>1 DEF FlushEmpty, AfterFlush, Goto, Return, TypeOK
  <2> QED BY <2>1, MoveInv
<1>2. CASE FlushSubmit(t)
  BY <1>2, SubmitInv DEF FlushSubmit
<1>3. CASE FlushResubmit(t)
  <2>1. open /\ Len(pending) < MaxInFlight /\ pc[t] = "resubmit" /\ Submit(t)
    BY <1>3 DEF FlushResubmit, StreamInv, ThreadInv
  <2> QED BY <2>1, SubmitInv
<1>4. CASE FlushBackPressure(t)
  <2>1. /\ pc[t] = "flush" /\ open /\ Take(t, Head(pending), "resubmit")
        /\ pending' = Tail(pending)
        /\ UNCHANGED <<opened, open, dispatches, deferred, refers, binds, gpuVars, memVars>>
    BY <1>4 DEF FlushBackPressure
  <2>2. Len(pending) > 0
    BY <1>0, <1>4, CapAssumption, Indices DEF FlushBackPressure
  <2>3. PICK n \in Nat \ {0} : n = Len(pending)
    BY <1>0, <2>2, Indices
  <2>4. /\ Head(pending) = pending[1] /\ Len(pending') = n - 1
        /\ \A i \in 1 .. n - 1 : pending'[i] = pending[i + 1]
    <3>1. pending \in Seq(Submission) /\ pending # <<>>
      BY <1>0, <2>3, EmptySeq DEF TypeOK
    <3> QED BY <2>1, <2>3, <3>1, HeadTailProperties
  <2> QED BY <2>1, <2>3, <2>4, TakeInv
<1>5. CASE PopLast(t) /\ pending = <<>>
  <2>1. /\ pc[t] = "popLast" /\ pc'[t] = "idle"
        /\ UNCHANGED <<streamVars, gpuVars, memVars, back, sub>>
    BY <1>0, <1>5 DEF PopLast, Return, TypeOK, streamVars
  <2> QED BY <2>1, MoveInv
<1>6. CASE (PopLast(t) \/ DrainNewest(t)) /\ pending # <<>>
  <2>1. PICK next \in {"idle", "drain"} :
          /\ pc[t] \in {"popLast", "drain"} /\ Take(t, Newest, next) /\ pending' = Older
          /\ UNCHANGED <<opened, open, dispatches, deferred, refers, binds, gpuVars, memVars>>
    BY <1>6 DEF PopLast, DrainNewest
  <2>2. PICK n \in Nat \ {0} : n = Len(pending)
    BY <1>0, <1>6, TypePop
  <2>3. /\ Newest = pending[n] /\ Len(pending') = n - 1
        /\ \A i \in 1 .. n - 1 : pending'[i] = pending[i + 0]
    <3>1. \A i \in 1 .. n - 1 : pending[i] \in Submission
      BY <1>0, <2>2, Indices
    <3> QED BY <2>1, <2>2, <3>1, SubSeqProperties DEF Newest, Older
  <2> QED BY <2>1, <2>2, <2>3, TakeInv
<1>7. CASE WaitFence(t) BY <1>7, WaitInv
<1>8. CASE RunCompletion(t) BY <1>8, CompletionInv
<1>9. CASE CheckIdle(t) BY <1>9, CheckIdleInv
<1>10. CASE ResetDescriptors(t) BY <1>10, ResetInv
<1>11. CASE FreeSubmission(t) BY <1>11, FreeInv
<1>12. CASE DrainDone(t) BY <1>12, DrainInv
<1>13. CASE CopyOut(t) BY <1>13, CopyOutInv
<1>14. CASE CopyWait(t) BY <1>14, CopyWaitInv
<1>15. DrainNewest(t) => pending # <<>>
  BY DEF DrainNewest
<1> QED BY <1>1, <1>2, <1>3, <1>4, <1>5, <1>6, <1>7, <1>8, <1>9, <1>10, <1>11, <1>12,
           <1>13, <1>14, <1>15 DEF Progress

LEMMA StreamNext ==
  ASSUME Orderly, StreamInv, [Next]_vars
  PROVE  StreamInv'
<1>1. TypeOK'
  BY TypeNext DEF StreamInv
<1>2. CASE Next
  BY <1>1, <1>2, ClientInv, ProgressInv, GpuInv DEF Next, StreamInv
<1>3. CASE UNCHANGED vars
  <2>1. UNCHANGED <<streamVars, gpuVars, memVars, sub>> /\ pc' = pc /\ back' = back
    BY <1>3 DEF vars, threadVars
  <2>2. CoverInv'
    BY <2>1, FrameInv DEF StreamInv, CoverInv
  <2>3. ThreadInv'
    BY <2>1, FrameInv DEF StreamInv, ThreadInv, Holding, Completed, Signaled, gpuVars
  <2> QED BY <1>1, <2>1, <2>2, <2>3, FrameInv DEF StreamInv
<1> QED BY <1>2, <1>3

LEMMA StreamInit ==
  ASSUME Init PROVE StreamInv
<1>1. TypeOK
  BY TypeInit
<1>2. Live = {}
  BY DEF Init, Live, InFlight
<1>3. QueueInv /\ RingInv /\ CoverInv /\ DeferredInv /\ ReleasedInv /\ SetsInv
  BY <1>2, CapAssumption DEF Init, QueueInv, RingInv, CoverInv, DeferredInv, ReleasedInv, SetsInv
<1>4. ThreadInv
  BY DEF Init, ThreadInv, Holding, Completed, NoSub
<1> QED BY <1>1, <1>3, <1>4 DEF StreamInv

----------------------------------------------------------------------------
(* The theorems.                                                           *)

\* StreamInv is an invariant of the stream used in order.
THEOREM Inductive == Orderly => (Spec => []StreamInv)
<1> SUFFICES ASSUME Orderly PROVE Spec => []StreamInv
  OBVIOUS
<1>1. Init => StreamInv
  BY StreamInit
<1>2. StreamInv /\ [Next]_vars => StreamInv'
  BY StreamNext
<1> QED BY <1>1, <1>2, PTL DEF Spec

\* No command buffer that is open or in flight refers to an upload staging
\* buffer that is back in its pool.
THEOREM StagingStaysSafe == Orderly => (Spec => []StagingSafe)
<1>1. StreamInv => StagingSafe
  BY DEF StreamInv, ReleasedInv, StagingSafe, LiveMemory, Memory
<1> QED BY <1>1, Inductive, PTL

\* No command buffer that is open or in flight refers to a destroyed buffer.
THEOREM BuffersStaySafe == Orderly => (Spec => []BuffersSafe)
<1>1. StreamInv => BuffersSafe
  BY DEF StreamInv, ReleasedInv, BuffersSafe, LiveMemory, Memory
<1> QED BY <1>1, Inductive, PTL

\* No set bound by a command buffer that is open or in flight is handed out again.
THEOREM DescriptorsStaySafe == Orderly => (Spec => []DescriptorsSafe)
<1>1. StreamInv => DescriptorsSafe
  BY DEF StreamInv, SetsInv, DescriptorsSafe, LiveSets
<1> QED BY <1>1, Inductive, PTL

\* What wait_and_reap completes, resets for and frees has executed.
THEOREM ReapedStaysDone == Orderly => (Spec => []ReapedIsDone)
<1>1. ASSUME StreamInv, NEW t \in Thread, Completed(t), sub[t].cmd \in Live
      PROVE  FALSE
  <2>1. Queued(sub[t]) /\ Signaled(sub[t].fence) /\ sub[t].cmd \in 1 .. opened /\ opened \in Nat
    BY <1>1 DEF StreamInv, ThreadInv, Holding, Queued, TypeOK
  <2>2. sub[t].cmd < sub[t].cmd
    BY <1>1, <2>1, PastIsOlder
  <2> QED BY <2>1, <2>2
<1>2. StreamInv => ReapedIsDone
  BY <1>1 DEF ReapedIsDone, Completed
<1> QED BY <1>2, Inductive, PTL
=============================================================================
