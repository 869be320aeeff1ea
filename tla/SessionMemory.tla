----------------------------- MODULE SessionMemory -----------------------------
(***************************************************************************)
(* Who owns device memory while the runs of a session follow one another:  *)
(* the execution environment of a run (execution.rs), the values a client  *)
(* detaches from it and feeds to later runs (device.rs, and the facade in  *)
(* onnx-vulkan/src/lib.rs), and the cache of the session (KernelCache).    *)
(*                                                                         *)
(* The graph is a fixed sequence of nodes on the device.  Its analysis is  *)
(* the subject of GraphExecution; here a node has the asks it puts to the  *)
(* cache, in order, the values it reads and writes, and those that die with it.      *)
(***************************************************************************)
EXTENDS KernelCache, Functions

CONSTANTS
  Program,       \* the nodes: [asks, in order, reads, writes, dead]
  Inputs,        \* the names of the graph's inputs
  Outputs,       \* the names of its outputs
  Handle,        \* handles of persistent values in the client
  Uses,          \* what clients do beyond the ordinary, see OrdinaryUse
  MaxRuns,       \* bound: runs begun, for each host
  MaxOpened      \* bound: command buffers, where a client chooses to submit, for each host

VARIABLES
  host,          \* the program around the engine: "session", the facade, or "provider"
  run,           \* run[t]: the run thread t is in
  runs,          \* how many have begun
  env,           \* env[t][n]: the value bound to name n in t's run
  handle         \* handle[h]: the persistent value behind h

sessionVars == <<host, run, runs, env, handle>>

Name   == Inputs \cup UNION {{Program[i].writes} : i \in DOMAIN Program}
Value  == [run : 0 .. MaxRuns[host], name : Name]
NoRun  == [phase |-> "idle"]
Absent == [home |-> "absent"]

\* Clients that run before the cache is warm on two threads at once ("cold"),
\* drop a session whose work is outstanding ("busy"), or one that transposed an
\* initializer ("transposed"); that let go of memory the open command buffer refers
\* to while older submissions are in flight ("recorded").
OrdinaryUse == {}
AllUses     == {"cold", "busy", "transposed", "recorded"}

\* What clients may let go of when the open command buffer refers to memory.
MayDrop(memory, ms) == "recorded" \in Uses \/ pending = <<>> \/ ms \cap memory = {}

\* What a piece of memory holds when it holds v, and after a kernel read something else.
Is(v)   == [what |-> "value", value |-> v]
Garbage == [what |-> "garbage"]

OnDevice(x) == x.home \in {"owned", "borrowed", "shared"}
Intact(x)   == OnDevice(x) => holds[x.buf][0] = Is(x.value)

Bound(t)   == {n \in Name : env[t][n].home # "absent"}
OwnedBy(t) == {env[t][n].buf : n \in {m \in Name : env[t][m].home = "owned"}}

\* The references that keep a shared buffer alive: handles, and inputs of runs.
Arcs(b) == {h \in Handle : handle[h].home = "shared" /\ handle[h].buf = b}
             \cup {o \in Thread \X Name :
                     env[o[1]][o[2]].home = "shared" /\ env[o[1]][o[2]].buf = b}

SharedIn(t, names) ==
  {env[t][n].buf : n \in {m \in names : env[t][m].home = "shared"}}

SessionInit ==
  /\ host \in {"session", "provider"}
  /\ run = [t \in Thread |-> NoRun]
  /\ runs = 0
  /\ env = [t \in Thread |-> [n \in Name |-> Absent]]
  /\ handle = [h \in Handle |-> Absent]

\* A client value that never was on the device has run number 0.
FromHost(n) == [home |-> "host", value |-> [run |-> 0, name |-> n]]

\* run_values: every input is supplied, from the host or from a handle.
Begin(t, supplied) ==
  /\ host = "session" /\ run[t].phase = "idle" /\ runs < MaxRuns[host]
  /\ \A n \in Inputs : supplied[n] # Absent
  /\ runs' = runs + 1
  /\ run' = [run EXCEPT ![t] = [phase |-> "run", id |-> runs + 1, node |-> 1]]
  /\ env' = [env EXCEPT ![t] = [n \in Name |-> IF n \in Inputs THEN supplied[n] ELSE Absent]]
  /\ UNCHANGED <<streamVars, holds, cacheVars, host, handle>>

SupplyFrom(pick) ==
  [n \in Inputs |-> IF pick[n] \in Handle THEN handle[pick[n]] ELSE FromHost(n)]

Current(t) == Program[run[t].node]
Running(t) == run[t].phase = "run" /\ run[t].node \in DOMAIN Program /\ call[t].stage = "none"

\* A node asks the cache for what it needs and has not got.
AskCache(t, a) ==
  /\ Running(t)
  /\ \E i \in DOMAIN Current(t).asks :
       /\ a = Current(t).asks[i]
       /\ \A j \in 1 .. i - 1 : Cached(Current(t).asks[j])
  /\ Contended(t, a) => "cold" \in Uses \/ a.table = "pipelines"
  /\ \/ Miss(t, a) /\ UNCHANGED holds
     \/ \E b \in Buffer, s \in Staging : MakeZero(a, b, s)
  /\ UNCHANGED sessionVars

\* ensure_device: a value on the host gets a buffer of its own.
EnsureDevice(t, n, b, s) ==
  /\ Running(t)
  /\ n \in Current(t).reads /\ env[t][n].home = "host"
  /\ CreateFilled(b, s)
  /\ holds' = [holds EXCEPT ![b][0] = Is(env[t][n].value)]
  /\ env' = [env EXCEPT ![t][n] = [home |-> "owned", buf |-> b, value |-> env[t][n].value]]
  /\ UNCHANGED <<cacheVars, host, run, runs, handle>>

\* Mutant: the last reference to a shared buffer recycles it like an owned one.
FreedToPool(t, names) ==
  [pool     |-> {env[t][n].buf : n \in {m \in names : env[t][m].home \in {"owned", "shared"}}},
   deferred |-> {}]

\* release: an owned buffer goes to the pool; a shared one is given up with its
\* last reference; a borrowed one stays with its owner.
Freed(t, names) ==
  [pool     |-> {env[t][n].buf : n \in {m \in names : env[t][m].home = "owned"}},
   deferred |-> {b \in SharedIn(t, names) : Arcs(b) \subseteq {<<t, n>> : n \in names}}]

\* Mutant: the run does not see that a node was the last.
AdvanceOnly(t) == run' = [run EXCEPT ![t].node = run[t].node + 1]

Advance(t) ==
  run' = [run EXCEPT ![t].node = run[t].node + 1,
                     ![t].phase = IF run[t].node = Len(Program) THEN "done" ELSE "run"]

\* A node runs: it reads what it asked for and its inputs, and writes a buffer
\* created for its output; then the values that die with it are released.
RunNode(t, b) ==
  LET node == Current(t)
      asked == Range(node.asks)
      reads == {env[t][n] : n \in node.reads}
      used  == {Entry(a) : a \in asked} \cup {x.buf : x \in reads} \cup {b}
      result == [run |-> run[t].id, name |-> node.writes]
      right == /\ \A a \in asked : holds[Entry(a)][0] = Made(a)
               /\ \A x \in reads : holds[x.buf][0] = Is(x.value)
      freed == Freed(t, node.dead)
  IN /\ Running(t)
     /\ \A a \in asked : Cached(a)
     /\ \A x \in reads : OnDevice(x)
     /\ b \in Obtainable(Buffer)
     /\ Stream!Append(used)
     /\ MayDrop(Recorded \cup used, freed.deferred)
     /\ DeferDestroy(pending, deferred, freed.deferred)
     /\ place' = [m \in Memory |-> CASE m = b -> "owned"
                                     [] m \in freed.pool -> "pool"
                                     [] m \in freed.deferred -> "deferred"
                                     [] OTHER -> place[m]]
     /\ holds' = [holds EXCEPT ![b][0] = IF right THEN Is(result) ELSE Garbage]
     /\ env' = [env EXCEPT ![t] = [n \in Name |->
                  CASE n = node.writes -> [home |-> "owned", buf |-> b, value |-> result]
                    [] n \in node.dead -> Absent
                    [] OTHER -> env[t][n]]]
     /\ Advance(t)
     /\ UNCHANGED <<cacheVars, host, runs, handle>>

\* Run::get reads an output on the host: everything recorded executes first.
Get(t, n) ==
  /\ host = "session" /\ run[t].phase = "done" /\ OnDevice(env[t][n])
  /\ newest < MaxOpened[host]
  /\ Submit
  /\ uses' = [c \in {} |-> {}]
  /\ uses # uses'
  /\ UNCHANGED <<newest, place, holds, cacheVars, sessionVars>>

\* Mutant: the environment keeps the value it hands out.
TakeAndKeep(t, n, h) ==
  /\ host = "session" /\ run[t].phase = "done"
  /\ n \in Outputs /\ env[t][n].home = "owned" /\ handle[h] = Absent
  /\ handle' = [handle EXCEPT ![h] = [home |-> "shared", buf |-> env[t][n].buf,
                                      value |-> env[t][n].value]]
  /\ UNCHANGED <<streamVars, holds, cacheVars, host, run, runs, env>>

\* Run::take_device: an owned output leaves the environment and is shared from now on.
Take(t, n, h) ==
  /\ host = "session" /\ run[t].phase = "done"
  /\ n \in Outputs /\ env[t][n].home = "owned" /\ handle[h] = Absent
  /\ handle' = [handle EXCEPT ![h] = [home |-> "shared", buf |-> env[t][n].buf,
                                      value |-> env[t][n].value]]
  /\ env' = [env EXCEPT ![t][n] = Absent]
  /\ UNCHANGED <<streamVars, holds, cacheVars, host, run, runs>>

CloneHandle(h, g) ==
  /\ handle[h] # Absent /\ handle[g] = Absent
  /\ handle' = [handle EXCEPT ![g] = handle[h]]
  /\ UNCHANGED <<streamVars, holds, cacheVars, host, run, runs, env>>

\* The last handle of a buffer that no run reads gives it up.
DropHandle(h) ==
  LET given == IF Arcs(handle[h].buf) = {h} THEN {handle[h].buf} ELSE {} IN
  /\ handle[h] # Absent
  /\ MayDrop(Recorded, given)
  /\ handle' = [handle EXCEPT ![h] = Absent]
  /\ place' = [m \in Memory |-> IF m \in given THEN "deferred" ELSE place[m]]
  /\ DeferDestroy(pending, deferred, given)
  /\ UNCHANGED <<newest, recording, uses, holds, cacheVars, host, run, runs, env>>

\* What the end of t's run gives up: its owned buffers, what it holds the last
\* reference to, and all that is pooled.
Given(t) ==
  Freed(t, Name).deferred \cup OwnedBy(t) \cup {b \in Buffer : place[b] = "pool"}

\* release_owned, with the submissions subs in flight and carried waiting for one.
ReleaseOwned(t, subs, carried) ==
  /\ place' = [m \in Memory |-> IF m \in Given(t) THEN "deferred" ELSE place[m]]
  /\ DeferDestroy(subs, carried, Given(t))
  /\ env' = [env EXCEPT ![t] = [n \in Name |-> Absent]]
  /\ run' = [run EXCEPT ![t] = NoRun]

Finish(t) ==
  /\ host = "session" /\ run[t].phase = "done"
  /\ MayDrop(Recorded, Given(t))
  /\ ReleaseOwned(t, pending, deferred)
  /\ UNCHANGED <<newest, recording, uses, holds, cacheVars, host, runs, handle>>

\* A node fails: the environment is dropped where it stands.
Fail(t) ==
  /\ Running(t)
  /\ MayDrop(Recorded, Given(t))
  /\ ReleaseOwned(t, pending, deferred)
  /\ UNCHANGED <<newest, recording, uses, holds, cacheVars, host, runs, handle>>

\* The work recorded so far is submitted.
Flush ==
  /\ newest < MaxOpened[host]
  /\ recording /\ Submit
  /\ UNCHANGED <<newest, uses, place, holds, cacheVars, sessionVars>>

DropSession ==
  /\ \A t \in Thread : run[t].phase = "idle"
  /\ "busy" \in Uses \/ \A k \in DOMAIN entry : entry[k] \notin InUse
  /\ "transposed" \in Uses \/ \A k \in DOMAIN entry : k[1] # "transposed"
  /\ DropEntries
  /\ UNCHANGED sessionVars

CacheStep(t) ==
  /\ \/ \E r \in Resource : Build(t, r)
     \/ Insert(t)
  /\ UNCHANGED sessionVars

SessionStep(t) ==
  \/ \E pick \in [Inputs -> Handle \cup {"host"}] : Begin(t, SupplyFrom(pick))
  \/ \E a \in Ask : AskCache(t, a)
  \/ \E n \in Name, b \in Buffer, s \in Staging : EnsureDevice(t, n, b, s)
  \/ \E b \in Buffer : RunNode(t, b)
  \/ \E n \in Name : Get(t, n)
  \/ \E n \in Name, h \in Handle : Take(t, n, h)
  \/ Finish(t)
  \/ Fail(t)
  \/ CacheStep(t)

ClientStep ==
  \/ \E h, g \in Handle : CloneHandle(h, g)
  \/ \E h \in Handle : DropHandle(h)
  \/ DropSession
  \/ Flush
  \/ DeviceStep /\ UNCHANGED sessionVars

----------------------------------------------------------------------------
(* Properties.                                                             *)

\* Every value in a run or behind a handle is where it is said to be: the memory
\* it was written to holds it still, whatever was pooled, given up, destroyed and
\* created again since, and whichever thread built what its kernels read.
ContentsKept ==
  /\ \A t \in Thread, n \in Name : Intact(env[t][n])
  /\ \A h \in Handle : Intact(handle[h])

\* No command that is still to execute refers to memory or a pipeline that was
\* destroyed, or copies from a staging buffer that is pooled again.
WorkSafe == \A m \in InUse : place[m] # "none" /\ (m \in Staging => place[m] # "pool")

\* What has to give a resource back: exactly one of the cache, a run, the handles
\* and a thread that is building.  Nothing is owned twice, and nothing is lost.
Owners(b) ==
  {<<"cache", k>> : k \in {k \in DOMAIN entry : entry[k] = b}}
    \cup {<<"run", o>> : o \in {o \in Thread \X Name :
             env[o[1]][o[2]].home = "owned" /\ env[o[1]][o[2]].buf = b}}
    \cup (IF Arcs(b) # {} THEN {<<"arc">>} ELSE {})
    \cup {<<"built", t>> : t \in {t \in Thread : call[t].stage = "insert" /\ call[t].copy = b}}

\* Entries are never removed while the cache lives: a pointer to one stays valid.
EntriesStay ==
  [][\A k \in DOMAIN entry : DOMAIN entry' # {} => k \in DOMAIN entry' /\ entry'[k] = entry[k]]_entry
=============================================================================
