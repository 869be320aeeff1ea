------------------------------ MODULE KernelCache ------------------------------
(***************************************************************************)
(* The resources of a session that outlive a run (cache.rs): compiled      *)
(* pipelines, weights in the layout a kernel wants, and initializers that  *)
(* were uploaded once.                                                     *)
(*                                                                         *)
(* A thread looks an entry up under the lock of its table, builds it with  *)
(* the lock released, and looks again before it inserts: whoever comes     *)
(* second destroys its own copy.  The commands are those of DeviceWork; what *)
(* is let go of follows stream.rs: it is attached to the newest submission in *)
(* flight and destroyed when that one is reaped, and CommandStream has the *)
(* threads, locks and fences in between.                                   *)
(***************************************************************************)
EXTENDS Integers, Sequences, FiniteSets

CONSTANTS
  Thread,
  Buffer,        \* storage buffers
  Pipeline,      \* handles of compiled pipelines
  Staging,       \* host-visible buffers of uploads
  Ask,           \* what nodes ask the cache for: [table, name, variant]
  MaxInFlight    \* max_in_flight()

ASSUME CapAssumption == MaxInFlight \in Nat \ {0}

Tables == {"pipelines", "packed", "uploads", "transposed", "zero"}

Resource == Buffer \cup Pipeline
Memory   == Resource \cup Staging
Nothing  == [what |-> "nothing"]
NoCall   == [stage |-> "none"]

\* The bytes of a piece of memory: a value at each offset that something uses.
Offset == 0 .. 1
Blank  == [o \in Offset |-> Nothing]

VARIABLES
  newest, recording, uses, place,   \* the stream, see DeviceWork
  pending,       \* submissions not yet reaped: their command buffer and on_complete
  deferred,      \* pending_deferred: let go of, and carried to the next submission
  holds,         \* holds[m]: what m contains once the recorded commands have run
  entry,         \* entry[k]: the resource cached under key k
  call           \* call[t]: the request of t that missed, and its own copy

streamVars == <<newest, recording, uses, place, pending, deferred>>
cacheVars  == <<entry, call>>

Stream == INSTANCE DeviceWork WITH Buffer <- Resource

InUse == Stream!InUse

\* What the open command buffer refers to.
Recorded == IF recording THEN uses[newest] ELSE {}

\* flush: the open command buffer is submitted with all that was carried.
Sent == IF recording THEN Append(pending, [cmd |-> newest, frees |-> deferred]) ELSE pending
Kept == IF recording THEN {} ELSE deferred

HasRoom == recording => Len(pending) < MaxInFlight

Submit ==
  /\ HasRoom
  /\ recording' = FALSE
  /\ pending' = Sent /\ deferred' = Kept

\* Mutant: ms is attached to the oldest of the submissions in flight.
DeferToOldest(subs, carried, ms) ==
  IF subs = <<>>
    THEN pending' = subs /\ deferred' = carried \cup ms
    ELSE /\ pending' = [subs EXCEPT ![1].frees = @ \cup ms]
         /\ deferred' = carried

\* defer_destroy: ms is attached to the newest of the submissions subs, whatever the
\* open command buffer refers to; carried is what waits if there are none.
DeferDestroy(subs, carried, ms) ==
  IF subs = <<>>
    THEN pending' = subs /\ deferred' = carried \cup ms
    ELSE /\ pending' = [subs EXCEPT ![Len(subs)].frees = @ \cup ms]
         /\ deferred' = carried

\* What creating a resource may return: one out of the pool, or a new one; which
\* of the new ones makes no difference.
Obtainable(kind) ==
  LET fresh == {r \in kind : place[r] = "none" /\ r \notin InUse} IN
  {r \in kind : place[r] = "pool"} \cup (IF fresh = {} THEN {} ELSE {CHOOSE r \in fresh : TRUE})

\* What a resource built for ask a is.
Made(a) == [what |-> "made", ask |-> a]

\* Operators whose pipeline key is their name whatever their attributes say.
NamedOnly == {"LeakyRelu"}

\* A pipeline: the operator and the variant of its kernel.  A weight: its name
\* and layout.  An initializer: its name, dtype and length.
KeyOf(a) == IF a.name \in NamedOnly THEN <<a.table, a.name>>
                                    ELSE <<a.table, a.name, a.variant>>

Cached(a) == KeyOf(a) \in DOMAIN entry
Entry(a)  == entry[KeyOf(a)]

CacheInit ==
  /\ Stream!Init
  /\ pending = <<>> /\ deferred = {}
  /\ holds = [m \in Memory |-> Blank]
  /\ entry = [k \in {} |-> {}]
  /\ call = [t \in Thread |-> NoCall]

\* Destroyed at once, whatever the commands still to execute refer to.
DestroyNow(rs) ==
  /\ place' = [m \in Memory |-> IF m \in rs THEN "none" ELSE place[m]]
  /\ holds' = [m \in Memory |-> IF m \in rs THEN Blank ELSE holds[m]]
  /\ UNCHANGED <<newest, recording, uses, pending, deferred>>

Resources(a) == IF a.table = "pipelines" THEN Pipeline ELSE Buffer

\* Two threads that miss the same key together: each builds its own.
Contended(t, a) ==
  \E u \in Thread \ {t} : call[u].stage # "none" /\ KeyOf(call[u].ask) = KeyOf(a)

\* The table has no entry for a: t begins to build one.
Miss(t, a) ==
  /\ call[t].stage = "none"
  /\ a.table # "zero" /\ ~Cached(a)
  /\ call' = [call EXCEPT ![t] = [stage |-> "build", ask |-> a]]
  /\ UNCHANGED <<streamVars, holds, entry>>

\* A new buffer, and the command that fills it: an upload through staging s.
CreateFilled(b, s) ==
  /\ b \in Obtainable(Buffer) /\ s \in Obtainable(Staging)
  /\ Stream!Append({b, s})
  /\ place' = [place EXCEPT ![b] = "owned", ![s] = "deferred"]
  /\ deferred' = deferred \cup {s}
  /\ UNCHANGED pending

\* The closure that builds.  A pipeline is compiled, the device has no part in
\* it; a packed weight is written by a dispatch, the others are uploaded.
Build(t, r) ==
  /\ call[t].stage = "build"
  /\ r \in Obtainable(Resources(call[t].ask))
  /\ CASE call[t].ask.table = "pipelines" -> Stream!Create(r) /\ UNCHANGED <<pending, deferred>>
       [] call[t].ask.table = "packed" ->
            /\ Stream!Append({r})
            /\ place' = [place EXCEPT ![r] = "owned"]
            /\ UNCHANGED <<pending, deferred>>
       [] OTHER -> \E s \in Staging : CreateFilled(r, s)
  /\ holds' = [holds EXCEPT ![r][0] = Made(call[t].ask)]
  /\ call' = [call EXCEPT ![t] = [stage |-> "insert", ask |-> call[t].ask, copy |-> r]]
  /\ UNCHANGED entry

\* Mutant: whoever comes second replaces the entry.
InsertOver(t) ==
  /\ call[t].stage = "insert"
  /\ entry' = [k \in DOMAIN entry \cup {KeyOf(call[t].ask)} |->
                 IF k = KeyOf(call[t].ask) THEN call[t].copy ELSE entry[k]]
  /\ IF Cached(call[t].ask) THEN DestroyNow({Entry(call[t].ask)})
                            ELSE UNCHANGED <<streamVars, holds>>
  /\ call' = [call EXCEPT ![t] = NoCall]

\* The table again: the entry of whoever came first stays.
Insert(t) ==
  /\ call[t].stage = "insert"
  /\ IF Cached(call[t].ask)
       THEN DestroyNow({call[t].copy}) /\ UNCHANGED entry
       ELSE /\ entry' = [k \in DOMAIN entry \cup {KeyOf(call[t].ask)} |->
                           IF k \in DOMAIN entry THEN entry[k] ELSE call[t].copy]
            /\ UNCHANGED <<streamVars, holds>>
  /\ call' = [call EXCEPT ![t] = NoCall]

\* The zero scalar is made with the lock of its slot held.
MakeZero(a, b, s) ==
  /\ a.table = "zero" /\ ~Cached(a)
  /\ CreateFilled(b, s)
  /\ holds' = [holds EXCEPT ![b][0] = Made(a)]
  /\ entry' = [k \in DOMAIN entry \cup {KeyOf(a)} |->
                 IF k \in DOMAIN entry THEN entry[k] ELSE b]
  /\ UNCHANGED call

\* Drop: what was recorded is submitted, and every entry but the transposed
\* ones is destroyed at once.
DropEntries ==
  /\ \A t \in Thread : call[t].stage = "none"
  /\ DOMAIN entry # {}
  /\ LET dropped == {entry[k] : k \in {k \in DOMAIN entry : k[1] # "transposed"}} IN
       /\ Submit
       /\ place' = [m \in Memory |-> IF m \in dropped THEN "none" ELSE place[m]]
       /\ holds' = [m \in Memory |-> IF m \in dropped THEN Blank ELSE holds[m]]
  /\ entry' = [k \in {} |-> {}]
  /\ UNCHANGED <<newest, uses, call>>

\* wait_and_reap and run_completion: a submission's on_complete list runs.
Reaped(ms) ==
  [m \in Memory |-> IF m \notin ms THEN place[m] ELSE IF m \in Staging THEN "pool" ELSE "none"]

\* flush with the ring full: the oldest submission is reaped before the open
\* command buffer is submitted.
BackPressure ==
  /\ recording /\ Len(pending) >= MaxInFlight
  /\ Head(pending).cmd \notin DOMAIN uses
  /\ place' = Reaped(Head(pending).frees)
  /\ pending' = Tail(pending)
  /\ UNCHANGED <<newest, recording, uses, deferred>>

\* finish_stream, between runs: every submission is waited for and reaped.
FinishStream ==
  /\ ~recording /\ pending # <<>> /\ DOMAIN uses = {}
  /\ place' = Reaped(UNION {pending[i].frees : i \in DOMAIN pending})
  /\ pending' = <<>>
  /\ UNCHANGED <<newest, recording, uses, deferred>>

\* The device executes by itself; memory comes back when a submission is reaped.
DeviceStep ==
  /\ \/ Stream!Execute /\ UNCHANGED <<pending, deferred>>
     \/ BackPressure
     \/ FinishStream
  /\ holds' = [m \in Memory |-> IF place'[m] = "none" THEN Blank ELSE holds[m]]
  /\ UNCHANGED cacheVars

=============================================================================
