-------------------------- MODULE MCCommandStream --------------------------
(* Small instances of CommandStream for TLC. *)
EXTENDS CommandStream, TLC

\* The engine's own use, one thread recording in order: it drops no buffer the
\* open command buffer refers to and drains the stream only when it is closed.
OrderlyCalls == AllCalls \ {"defer_recorded", "finish_open"}

\* What a session does between two readbacks.
RecordingCalls == {"create", "upload", "dispatch", "flush_wait", "download"}

\* The interpreter releases a temporary right after it records its last use.
DroppingCalls == RecordingCalls \cup {"defer_destroy", "defer_recorded"}

\* Storage buffers and staging buffers are interchangeable.
MemorySymmetry == Permutations(Buffer) \cup Permutations(Staging)
=============================================================================
