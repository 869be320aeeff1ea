------------------------------ MODULE DeviceWork ------------------------------
(***************************************************************************)
(* What the deferred command stream promises to the code above it: a       *)
(* device that takes commands now and executes them later, one command     *)
(* buffer after the other, and memory that is overwritten by the host or   *)
(* destroyed only when no command still to be executed refers to it.       *)
(*                                                                         *)
(* There is no ring, no fence, no lock and no thread here: an operation of *)
(* the stream is one step, and the memory it lets go of is released at some *)
(* later moment that the promise allows.                                   *)
(***************************************************************************)
EXTENDS Integers

CONSTANTS
  Buffer,        \* device-local storage buffers
  Staging        \* host-visible buffers that uploads go through

VARIABLES
  newest,        \* command buffers begun so far
  recording,     \* the newest command buffer takes more commands
  uses,          \* uses[c]: the memory that command buffer c, still to execute, refers to
  place          \* "none", "owned" by a client, in a "pool", or "deferred"

vars == <<newest, recording, uses, place>>

Memory == Buffer \cup Staging

\* What outstanding work refers to.
InUse == UNION {uses[c] : c \in DOMAIN uses}

Init ==
  /\ newest = 0
  /\ recording = FALSE
  /\ uses = [c \in {} |-> {}]
  /\ place = [m \in Memory |-> "none"]

\* One more command, in the command buffer being recorded or in a new one.
Append(memory) ==
  /\ recording' = TRUE
  /\ newest' = IF recording THEN newest ELSE newest + 1
  /\ uses' = [c \in DOMAIN uses \cup {newest'} |->
                IF c = newest' THEN memory \cup (IF recording THEN uses[c] ELSE {})
                               ELSE uses[c]]

Command(bs) ==
  /\ \A b \in bs : place[b] = "owned"
  /\ Append(bs)
  /\ UNCHANGED place

\* The host writes the staging buffer now, the device copies from it later.
Upload(b, s) ==
  /\ place[b] = "owned"
  /\ place[s] \in {"none", "pool"} /\ s \notin InUse
  /\ Append({b, s})
  /\ place' = [place EXCEPT ![s] = "deferred"]

\* A buffer out of the pool may still be in use: the commands to come execute
\* after those already recorded.  A new one is not.
Create(b) ==
  /\ place[b] \in {"none", "pool"}
  /\ place[b] = "none" => b \notin InUse
  /\ place' = [place EXCEPT ![b] = "owned"]
  /\ UNCHANGED <<newest, recording, uses>>

Recycle(b) ==
  /\ place[b] = "owned"
  /\ place' = [place EXCEPT ![b] = "pool"]
  /\ UNCHANGED <<newest, recording, uses>>

GiveUp(bs) ==
  /\ \A b \in bs : place[b] \in {"owned", "pool"}
  /\ place' = [m \in Memory |-> IF m \in bs THEN "deferred" ELSE place[m]]
  /\ UNCHANGED <<newest, recording, uses>>

\* Memory that was given up is destroyed, or back in the staging pool.
Release(ms) ==
  /\ \A m \in ms : place[m] = "deferred" /\ m \notin InUse
  /\ place' = [m \in Memory |-> IF m \notin ms THEN place[m]
                                ELSE IF m \in Staging THEN "pool" ELSE "none"]
  /\ UNCHANGED <<newest, recording, uses>>

\* The command buffer takes no more commands: it is on its way to the device.
Close ==
  /\ recording
  /\ recording' = FALSE
  /\ UNCHANGED <<newest, uses, place>>

\* The device executes the oldest command buffer that is closed.
Execute ==
  \E c \in DOMAIN uses :
    /\ recording => c # newest
    /\ \A d \in DOMAIN uses : c <= d
    /\ uses' = [d \in DOMAIN uses \ {c} |-> uses[d]]
    /\ UNCHANGED <<newest, recording, place>>

Next ==
  \/ \E bs \in SUBSET Buffer : Command(bs) \/ GiveUp(bs)
  \/ \E b \in Buffer, s \in Staging : Upload(b, s)
  \/ \E b \in Buffer : Create(b) \/ Recycle(b)
  \/ \E ms \in SUBSET Memory : Release(ms)
  \/ Close
  \/ Execute

Spec == Init /\ [][Next]_vars
=============================================================================
