-------------------------- MODULE SessionMemoryProofs --------------------------
(***************************************************************************)
(* Memory across runs, for any program, clients, threads and allocations   *)
(* of ORT: nothing is owned twice or lost, no outstanding work refers to   *)
(* what was destroyed, and every value is where it is said to be.          *)
(***************************************************************************)
EXTENDS ProviderMemory, FiniteSetTheorems, TLAPS

----------------------------------------------------------------------------
(* The inductive invariant.                                                *)

\* Types.
Typed ==
  [home : {"host"}, value : Value]
    \cup [home : {"owned", "borrowed", "shared"}, buf : Buffer, value : Value]

RunIs(t) ==
  \/ run[t] = NoRun
  \/ /\ run[t] \in [phase : {"inputs", "run", "done", "written"}, id : Nat, node : Nat]
     /\ run[t].id \in 1 .. runs
     /\ run[t].phase = "run" => run[t].node \in DOMAIN Program

CallIs(t) ==
  \/ call[t] = NoCall
  \/ call[t] \in [stage : {"build"}, ask : Ask]
  \/ /\ call[t] \in [stage : {"insert"}, ask : Ask, copy : Resource]
     /\ call[t].copy \in Resources(call[t].ask)

PlaceT ==
  /\ place \in [Memory -> {"none", "owned", "pool", "deferred"}]
  /\ \A p \in Pipeline : place[p] \in {"none", "owned"}

HoldsT  == DOMAIN holds = Memory /\ \A m \in Memory : DOMAIN holds[m] = Offset
EntryT  == \A k \in DOMAIN entry : entry[k] \in IF k[1] = "pipelines" THEN Pipeline ELSE Buffer
CallT   == DOMAIN call = Thread /\ \A t \in Thread : CallIs(t)
RunT    == /\ host \in {"session", "provider"} /\ runs \in 0 .. MaxRuns[host]
           /\ DOMAIN run = Thread /\ \A t \in Thread : RunIs(t)
EnvT    == env \in [Thread -> [Name -> {Absent} \cup Typed]]
HandleT == handle \in [Handle -> {Absent} \cup [home : {"shared"}, buf : Buffer, value : Value]]
LiveT ==
  /\ \A s \in DOMAIN live :
       s \in Address /\ live[s] \in [span : {Span(size) : size \in Sizes}, size : Sizes, buf : Buffer]
  /\ \A p \in DOMAIN tensors : tensors[p] \in Value

TypeInv == PlaceT /\ HoldsT /\ EntryT /\ CallT /\ RunT /\ EnvT /\ HandleT /\ LiveT

\* A thread that is not running binds nothing, and nothing is bound yet that a node
\* still to execute writes.
FreshInv ==
  \A t \in Thread :
    /\ run[t].phase = "idle" => \A n \in Name : env[t][n] = Absent
    /\ run[t].phase = "inputs" => \A n \in Name \ Inputs : env[t][n] = Absent
    /\ run[t].phase = "run" =>
         \A i \in DOMAIN Program : i >= run[t].node => env[t][Program[i].writes] = Absent

\* A thread builds while it runs a node; threads that build the same build pipelines,
\* and what nobody else builds nobody inserts meanwhile.
Building(t) == call[t].stage # "none"

CallInv ==
  \A t \in Thread : Building(t) =>
    /\ run[t].phase = "run"
    /\ call[t].ask.table # "zero"
    /\ call[t].ask.table # "pipelines" =>
         /\ ~Cached(call[t].ask)
         /\ \A u \in Thread \ {t} : Building(u) => KeyOf(call[u].ask) # KeyOf(call[t].ask)

\* What the cache, the runs, the handles, the threads that build, and ORT own.
Owned     == {r \in Resource : place[r] = "owned"}
CacheBufs == {entry[k] : k \in DOMAIN entry}
RunBufs   == {r \in Resource : \E t \in Thread, n \in Name :
                                 env[t][n].home = "owned" /\ env[t][n].buf = r}
ArcBufs   == {r \in Resource :
                \/ \E h \in Handle : handle[h].home = "shared" /\ handle[h].buf = r
                \/ \E t \in Thread, n \in Name : env[t][n].home = "shared" /\ env[t][n].buf = r}
BuiltBufs == {r \in Resource : \E t \in Thread : call[t].stage = "insert" /\ call[t].copy = r}
OrtBufs   == {r \in Resource : \E s \in DOMAIN live : live[s].buf = r}

Split(all, cached, ran, shared, built, ort) ==
  /\ all = cached \cup ran \cup shared \cup built \cup ort
  /\ cached \cap (ran \cup shared \cup built \cup ort) = {}
  /\ ran \cap (shared \cup built \cup ort) = {}
  /\ shared \cap (built \cup ort) = {}
  /\ built \cap ort = {}

OneEntry == \A k, l \in DOMAIN entry : entry[k] = entry[l] => k = l
OneName  == \A t, u \in Thread, n, m \in Name :
              env[t][n].home = "owned" /\ env[u][m].home = "owned" /\ env[t][n].buf = env[u][m].buf
                => t = u /\ n = m
OneCopy  == \A t, u \in Thread :
              call[t].stage = "insert" /\ call[u].stage = "insert" /\ call[t].copy = call[u].copy
                => t = u
OneRange == \A s, r \in DOMAIN live : live[s].buf = live[r].buf => s = r

LedgerInv ==
  /\ Split(Owned, CacheBufs, RunBufs, ArcBufs, BuiltBufs, OrtBufs)
  /\ OneEntry /\ OneName /\ OneCopy /\ OneRange

\* Work refers to memory that is there, and not to a pipeline that is being built.
StreamT ==
  /\ newest \in Nat /\ (recording => newest \in DOMAIN uses)
  /\ \A c \in DOMAIN uses : c \in Nat /\ c <= newest
  /\ InUse \subseteq Memory

CopiesIdle ==
  \A t \in Thread : call[t].stage = "insert" /\ call[t].copy \in Pipeline =>
                      call[t].copy \notin InUse

Submission == [cmd : Nat, frees : SUBSET Memory]

\* What is let go of hangs on one submission, or is carried to the next; and no command
\* refers to it that executes after that submission.
Attached(subs, carried, top, open, us, at) ==
  /\ subs \in Seq(Submission) /\ carried \subseteq Memory
  /\ \A i, j \in DOMAIN subs : i < j => subs[i].cmd < subs[j].cmd
  /\ \A i \in DOMAIN subs : subs[i].cmd <= top /\ (open => subs[i].cmd < top)
  /\ \A c \in DOMAIN us : (open /\ c = top) \/ \E i \in DOMAIN subs : subs[i].cmd = c
  /\ \A i \in DOMAIN subs : \A m \in subs[i].frees :
       /\ at[m] = "deferred" /\ m \notin carried
       /\ \A j \in DOMAIN subs : m \in subs[j].frees => j = i
       /\ \A c \in DOMAIN us : m \in us[c] => c <= subs[i].cmd
  /\ \A m \in carried : at[m] = "deferred"

AttachInv == Attached(pending, deferred, newest, recording, uses, place)

WorkInv == StreamT /\ WorkSafe /\ CopiesIdle /\ AttachInv

\* Ranges are apart, tensors lie inside, and what a run borrows is a tensor's.
AddressInv ==
  /\ \A s, r \in DOMAIN live : s = r \/ s + live[s].span <= r \/ r + live[r].span <= s
  /\ \A p \in DOMAIN tensors : \E s \in DOMAIN live, o \in Offset : p = s + o
  /\ \A t \in Thread, n \in Name : env[t][n].home = "borrowed" =>
       \E s \in DOMAIN live : /\ live[s].buf = env[t][n].buf
                              /\ s \in DOMAIN tensors /\ tensors[s] = env[t][n].value

\* Memory holds what it is said to hold.
Holds(r, v) == holds[r][0] = v

EnvHolds    == \A t \in Thread, n \in Name : env[t][n].home \in {"owned", "shared"} =>
                 Holds(env[t][n].buf, Is(env[t][n].value))
HandleHolds == \A h \in Handle : handle[h].home = "shared" =>
                 Holds(handle[h].buf, Is(handle[h].value))
EntryHolds  == \A a \in Ask : Cached(a) => Holds(Entry(a), Made(a))
CopyHolds   == \A t \in Thread : call[t].stage = "insert" =>
                 Holds(call[t].copy, Made(call[t].ask))
TensorHolds == \A s \in DOMAIN live, o \in Offset : s + o \in DOMAIN tensors =>
                 holds[live[s].buf][o] = Is(tensors[s + o])

ContentInv == EnvHolds /\ HandleHolds /\ EntryHolds /\ CopyHolds /\ TensorHolds

MemoryInv == TypeInv /\ FreshInv /\ CallInv /\ LedgerInv /\ WorkInv /\ AddressInv

----------------------------------------------------------------------------
(* Entries of the cache.                                                   *)

\* While the cache lives an entry that a thread has found stays where it is, also
\* when two threads build it at once (pipeline, packed_weight, initializer).
THEOREM EntriesAlwaysStay == Spec => EntriesStay
<1>1. ASSUME [Next]_vars
      PROVE  [\A k \in DOMAIN entry : DOMAIN entry' # {} =>
                k \in DOMAIN entry' /\ entry'[k] = entry[k]]_entry
  <2> SUFFICES ASSUME entry' # entry, NEW k \in DOMAIN entry, DOMAIN entry' # {}
               PROVE  k \in DOMAIN entry' /\ entry'[k] = entry[k]
    OBVIOUS
  <2>1. ASSUME NEW t \in Thread, Insert(t) PROVE k \in DOMAIN entry' /\ entry'[k] = entry[k]
    BY <2>1 DEF Insert
  <2>2. ASSUME NEW a, NEW b, NEW s, MakeZero(a, b, s)
        PROVE  k \in DOMAIN entry' /\ entry'[k] = entry[k]
    BY <2>2 DEF MakeZero
  <2>3. CASE DropSession
    BY <2>3 DEF DropSession, DropEntries
  <2>4. ASSUME NEW t \in Thread, SessionStep(t)
        PROVE  k \in DOMAIN entry' /\ entry'[k] = entry[k]
    <3>1. CASE \E a \in Ask : AskCache(t, a)
      BY <2>2, <3>1 DEF AskCache, Miss
    <3>2. CASE CacheStep(t)
      BY <2>1, <3>2 DEF CacheStep, Build
    <3> QED BY <2>4, <3>1, <3>2
            DEF SessionStep, cacheVars, Begin, EnsureDevice, RunNode, Get, Take, Finish, Fail
  <2>5. CASE ClientStep
    BY <2>3, <2>5 DEF ClientStep, cacheVars, CloneHandle, DropHandle, Flush, DeviceStep
  <2>6. CASE ProviderStep
    BY <2>6 DEF ProviderStep, cacheVars, Alloc, Free, ForgetTensor, CopyIn, CopyAcross,
                ReadInput, WriteOutput, Return
  <2>7. CASE UNCHANGED vars
    BY <2>7 DEF vars, cacheVars
  <2> QED BY <1>1, <2>4, <2>5, <2>6, <2>7 DEF Next
<1>2. Spec => [][\A k \in DOMAIN entry : DOMAIN entry' # {} =>
                   k \in DOMAIN entry' /\ entry'[k] = entry[k]]_entry
  BY <1>1, PTL DEF Spec
<1> QED BY <1>2 DEF EntriesStay

----------------------------------------------------------------------------
(* What the helpers of the model return.                                   *)

LEMMA Kinds ==
  ASSUME Ordinary
  PROVE  /\ Buffer \subseteq Resource /\ Pipeline \subseteq Resource /\ Resource \subseteq Memory
         /\ Staging \subseteq Memory /\ Buffer \subseteq Memory
         /\ Buffer \cap Pipeline = {} /\ Resource \cap Staging = {}
BY DEF Ordinary, Resource, Memory

\* What may be created is pooled, or new and not referred to.
LEMMA ObtainableIs ==
  ASSUME NEW kind, NEW r \in Obtainable(kind)
  PROVE  r \in kind /\ (place[r] = "pool" \/ (place[r] = "none" /\ r \notin InUse))
<1> DEFINE fresh == {q \in kind : place[q] = "none" /\ q \notin InUse}
<1>1. r \in {q \in kind : place[q] = "pool"} \/ (fresh # {} /\ r = CHOOSE q \in fresh : TRUE)
  BY DEF Obtainable
<1>2. fresh # {} => (CHOOSE q \in fresh : TRUE) \in fresh
  OBVIOUS
<1> QED BY <1>1, <1>2

\* The key of an entry begins with its table.
LEMMA KeyHead ==
  ASSUME NEW a
  PROVE  KeyOf(a)[1] = a.table
BY DEF KeyOf

\* Where the values of a run are.
LEMMA EnvIs ==
  ASSUME EnvT, NEW t \in Thread, NEW n \in Name
  PROVE  /\ env[t] \in [Name -> {Absent} \cup Typed]
         /\ \/ env[t][n] = Absent
            \/ env[t][n].home = "host" /\ env[t][n].value \in Value
            \/ /\ env[t][n].home \in {"owned", "borrowed", "shared"}
               /\ env[t][n].buf \in Buffer /\ env[t][n].value \in Value
         /\ OnDevice(env[t][n]) => env[t][n].buf \in Buffer /\ env[t][n].value \in Value
<1>1. env[t] \in [Name -> {Absent} \cup Typed]
  BY DEF EnvT
<1>2. env[t][n] \in {Absent} \cup Typed
  BY <1>1
<1> QED BY <1>1, <1>2 DEF Typed, OnDevice, Absent

LEMMA HandleIs ==
  ASSUME HandleT, NEW h \in Handle, handle[h] # Absent
  PROVE  /\ handle[h] \in [home : {"shared"}, buf : Buffer, value : Value]
         /\ handle[h].home = "shared" /\ handle[h].buf \in Buffer /\ handle[h].value \in Value
<1>1. handle[h] \in [home : {"shared"}, buf : Buffer, value : Value]
  BY DEF HandleT
<1> QED BY <1>1

LEMMA LiveIs ==
  ASSUME Ordinary, LiveT, NEW s \in DOMAIN live
  PROVE  /\ s \in Nat /\ live[s].buf \in Buffer
         /\ live[s].span \in Nat /\ live[s].span >= Page /\ live[s].size \in Nat
<1>1. live[s] \in [span : {Span(size) : size \in Sizes}, size : Sizes, buf : Buffer]
  BY DEF LiveT
<1>2. PICK size \in Sizes : live[s].span = Span(size)
  BY <1>1
<1>3. size \in Nat
  BY DEF Ordinary
<1>4. Span(size) \in Nat /\ Span(size) >= Page
  <2>1. size # 0 => (size + 1) \div 2 >= 1 /\ (size + 1) \div 2 \in Nat
    BY <1>3
  <2> QED BY <1>3, <2>1 DEF Span, Page
<1>5. s \in Nat /\ live[s].size \in Nat /\ live[s].buf \in Buffer
  BY <1>1 DEF LiveT, Ordinary
<1> QED BY <1>2, <1>4, <1>5

\* What ends with its last reader is a buffer.
LEMMA FreedIs ==
  ASSUME EnvT, NEW t \in Thread, NEW names \in SUBSET Name
  PROVE  /\ Freed(t, names).pool \subseteq Buffer /\ Freed(t, names).deferred \subseteq Buffer
         /\ OwnedBy(t) \subseteq Buffer
         /\ Freed(t, names).pool =
              {env[t][n].buf : n \in {m \in names : env[t][m].home = "owned"}}
         /\ Freed(t, names).deferred =
              {b \in SharedIn(t, names) : Arcs(b) \subseteq {<<t, n>> : n \in names}}
<1>1. \A n \in Name : env[t][n].home \in {"owned", "shared"} => env[t][n].buf \in Buffer
  BY EnvIs DEF OnDevice
<1> QED BY <1>1 DEF Freed, SharedIn, OwnedBy

LEMMA NodeIs ==
  ASSUME Ordinary, RunT, NEW t \in Thread, run[t].phase = "run"
  PROVE  /\ run[t].node \in DOMAIN Program /\ DOMAIN Program = 1 .. Len(Program)
         /\ Len(Program) \in Nat /\ run[t].node \in Nat
         /\ run[t].id \in 1 .. runs /\ runs \in Nat
         /\ Current(t).reads \subseteq Name /\ Current(t).dead \subseteq Name
         /\ Current(t).writes \in Name /\ Current(t).writes \notin Inputs
         /\ Current(t).writes \notin Current(t).dead
         /\ Current(t).asks \in Seq(Ask)
         /\ Range(Current(t).asks) \subseteq Ask
<1>1. /\ run[t].node \in DOMAIN Program /\ run[t].id \in 1 .. runs /\ run[t].node \in Nat
  BY DEF RunT, RunIs, NoRun
<1>2. Program \in Seq(NodeOfProgram)
  BY DEF Ordinary
<1>3. Program[run[t].node] \in NodeOfProgram /\ DOMAIN Program = 1 .. Len(Program)
      /\ Len(Program) \in Nat
  BY <1>1, <1>2
<1>4. Current(t).asks \in Seq(Ask)
  BY <1>3 DEF NodeOfProgram, Current
<1>5. Range(Current(t).asks) \subseteq Ask
  BY <1>4 DEF Range
<1>6. Current(t).writes \notin Inputs /\ Current(t).writes \notin Current(t).dead
  BY <1>1 DEF Ordinary, Current
<1>7. runs \in Nat
  BY DEF RunT, Ordinary
<1> QED BY <1>1, <1>3, <1>4, <1>5, <1>6, <1>7 DEF NodeOfProgram, Current

----------------------------------------------------------------------------
(* What a step leaves alone.                                               *)

LEMMA SameTypes ==
  /\ PlaceT /\ UNCHANGED place => PlaceT'
  /\ HoldsT /\ UNCHANGED holds => HoldsT'
  /\ EntryT /\ UNCHANGED entry => EntryT'
  /\ CallT /\ UNCHANGED call => CallT'
  /\ RunT /\ UNCHANGED <<host, runs, run>> => RunT'
  /\ EnvT /\ UNCHANGED <<host, env>> => EnvT'
  /\ HandleT /\ UNCHANGED <<host, handle>> => HandleT'
  /\ LiveT /\ UNCHANGED <<host, live, tensors>> => LiveT'
<1>1. PlaceT /\ UNCHANGED place => PlaceT'
  BY DEF PlaceT
<1>2. HoldsT /\ UNCHANGED holds => HoldsT'
  BY DEF HoldsT
<1>3. EntryT /\ UNCHANGED entry => EntryT'
  BY DEF EntryT
<1>4. CallT /\ UNCHANGED call => CallT'
  BY DEF CallT, CallIs
<1>5. RunT /\ UNCHANGED <<host, runs, run>> => RunT'
  BY DEF RunT, RunIs
<1>6. UNCHANGED host => Value' = Value /\ Typed' = Typed
  BY DEF Value, Typed
<1>7. EnvT /\ UNCHANGED <<host, env>> => EnvT'
  BY <1>6 DEF EnvT
<1>8. HandleT /\ UNCHANGED <<host, handle>> => HandleT'
  BY <1>6 DEF HandleT
<1>9. LiveT /\ UNCHANGED <<host, live, tensors>> => LiveT'
  BY <1>6 DEF LiveT
<1> QED BY <1>1, <1>2, <1>3, <1>4, <1>5, <1>7, <1>8, <1>9

LEMMA SameSets ==
  /\ UNCHANGED place => Owned' = Owned
  /\ UNCHANGED entry => CacheBufs' = CacheBufs /\ (OneEntry => OneEntry')
  /\ UNCHANGED env => RunBufs' = RunBufs /\ (OneName => OneName')
  /\ UNCHANGED <<env, handle>> => ArcBufs' = ArcBufs
  /\ UNCHANGED call => BuiltBufs' = BuiltBufs /\ (OneCopy => OneCopy')
  /\ UNCHANGED live => OrtBufs' = OrtBufs /\ (OneRange => OneRange')
<1>1. UNCHANGED place => Owned' = Owned
  BY DEF Owned
<1>2. UNCHANGED entry => CacheBufs' = CacheBufs /\ (OneEntry => OneEntry')
  BY DEF CacheBufs, OneEntry
<1>3. UNCHANGED env => RunBufs' = RunBufs /\ (OneName => OneName')
  BY DEF RunBufs, OneName
<1>4. UNCHANGED <<env, handle>> => ArcBufs' = ArcBufs
  BY DEF ArcBufs
<1>5. UNCHANGED call => BuiltBufs' = BuiltBufs /\ (OneCopy => OneCopy')
  BY DEF BuiltBufs, OneCopy
<1>6. UNCHANGED live => OrtBufs' = OrtBufs /\ (OneRange => OneRange')
  BY DEF OrtBufs, OneRange
<1> QED BY <1>1, <1>2, <1>3, <1>4, <1>5, <1>6

LEMMA SameRest ==
  /\ FreshInv /\ UNCHANGED <<run, env>> => FreshInv'
  /\ CallInv /\ UNCHANGED <<run, call, entry>> => CallInv'
  /\ AddressInv /\ UNCHANGED <<live, tensors, env>> => AddressInv'
  /\ StreamT /\ UNCHANGED <<newest, recording, uses>> => StreamT' /\ InUse' = InUse
  /\ CopiesIdle /\ UNCHANGED <<uses, call>> => CopiesIdle'
  /\ WorkSafe /\ UNCHANGED <<uses, place>> => WorkSafe'
  /\ AttachInv /\ UNCHANGED <<newest, recording, uses, place, pending, deferred>> => AttachInv'
<1>1. FreshInv /\ UNCHANGED <<run, env>> => FreshInv'
  BY DEF FreshInv
<1>2. CallInv /\ UNCHANGED <<run, call, entry>> => CallInv'
  BY DEF CallInv, Building, Cached
<1>3. AddressInv /\ UNCHANGED <<live, tensors, env>> => AddressInv'
  BY DEF AddressInv
<1>4. UNCHANGED uses => InUse' = InUse
  BY DEF InUse, Stream!InUse
<1>5. AttachInv /\ UNCHANGED <<newest, recording, uses, place, pending, deferred>> => AttachInv'
  BY DEF AttachInv
<1> QED BY <1>1, <1>2, <1>3, <1>4, <1>5 DEF StreamT, CopiesIdle, WorkSafe

----------------------------------------------------------------------------
(* What is attached to submissions.                                        *)

LEMMA SubmissionsAre ==
  ASSUME NEW subs \in Seq(Submission)
  PROVE  /\ Len(subs) \in Nat /\ DOMAIN subs = 1 .. Len(subs)
         /\ \A i \in DOMAIN subs : /\ subs[i] \in Submission
                                   /\ subs[i].cmd \in Nat /\ subs[i].frees \subseteq Memory
<1>1. /\ Len(subs) \in Nat /\ DOMAIN subs = 1 .. Len(subs)
      /\ \A i \in DOMAIN subs : subs[i] \in Submission
  OBVIOUS
<1> QED BY <1>1 DEF Submission

\* Commands that refer to nothing that was let go of.
LEMMA Appends ==
  ASSUME StreamT, AttachInv, NEW M \in SUBSET Memory, Stream!Append(M),
         \A m \in M : place[m] # "deferred"
  PROVE  /\ Attached(pending, deferred, newest', recording', uses', place)
         /\ newest' \in Nat /\ recording' = TRUE
         /\ uses'[newest'] = M \cup Recorded
<1>1. /\ newest' \in Nat /\ recording' = TRUE /\ newest \in Nat
      /\ newest' = IF recording THEN newest ELSE newest + 1
      /\ DOMAIN uses' = DOMAIN uses \cup {newest'}
      /\ uses'[newest'] = M \cup Recorded
      /\ \A c \in DOMAIN uses : c # newest' => uses'[c] = uses[c]
  BY DEF StreamT, Stream!Append, Recorded
<1>2. \A c \in DOMAIN uses' : \A m \in uses'[c] :
        m \in M \/ (c \in DOMAIN uses /\ m \in uses[c])
  BY <1>1 DEF Recorded, StreamT
<1>3. \A i \in DOMAIN pending : pending[i].cmd \in Nat
  BY SubmissionsAre DEF AttachInv, Attached
<1>4. \A i \in DOMAIN pending : pending[i].cmd <= newest' /\ pending[i].cmd < newest'
  BY <1>1, <1>3 DEF AttachInv, Attached
<1>5. \A c \in DOMAIN uses' : c = newest' \/ \E i \in DOMAIN pending : pending[i].cmd = c
  BY <1>1 DEF AttachInv, Attached
<1>6. ASSUME NEW i \in DOMAIN pending, NEW m \in pending[i].frees,
             NEW c \in DOMAIN uses', m \in uses'[c]
      PROVE  c <= pending[i].cmd
  BY <1>2, <1>6 DEF AttachInv, Attached
<1> QED BY <1>1, <1>4, <1>5, <1>6 DEF AttachInv, Attached

\* Less outstanding work, and places where what was let go of stays let go of.
LEMMA Moves ==
  ASSUME NEW subs, NEW carried, NEW top, NEW open, NEW us, NEW vs, NEW at, NEW to,
         Attached(subs, carried, top, open, us, at),
         \A m \in Memory : at[m] = "deferred" => to[m] = "deferred",
         DOMAIN vs \subseteq DOMAIN us, \A c \in DOMAIN vs : vs[c] = us[c]
  PROVE  Attached(subs, carried, top, open, vs, to)
<1>1. \A i \in DOMAIN subs : subs[i].frees \subseteq Memory
  BY SubmissionsAre DEF Attached
<1> QED BY <1>1 DEF Attached

\* Staging buffers are carried to the submission that copies from them.
LEMMA Carries ==
  ASSUME NEW subs, NEW carried, NEW top, NEW open, NEW us, NEW at, NEW to,
         Attached(subs, carried, top, open, us, at),
         NEW ms \in SUBSET Memory, \A m \in ms : at[m] # "deferred" /\ to[m] = "deferred",
         \A m \in Memory : at[m] = "deferred" => to[m] = "deferred"
  PROVE  Attached(subs, carried \cup ms, top, open, us, to)
<1>1. \A i \in DOMAIN subs : subs[i].frees \subseteq Memory
  BY SubmissionsAre DEF Attached
<1> QED BY <1>1 DEF Attached

\* Other memory is attached to the newest submission, unless the open command buffer
\* refers to it.
LEMMA Defers ==
  ASSUME NEW subs, NEW carried, NEW top, NEW open, NEW us, NEW at, NEW to,
         Attached(subs, carried, top, open, us, at),
         NEW ms \in SUBSET Memory, \A m \in ms : at[m] # "deferred" /\ to[m] = "deferred",
         \A m \in Memory : at[m] = "deferred" => to[m] = "deferred",
         subs = <<>> \/ (open => us[top] \cap ms = {}),
         DeferDestroy(subs, carried, ms)
  PROVE  Attached(pending', deferred', top, open, us, to)
<1>1. \A i \in DOMAIN subs : subs[i].cmd \in Nat /\ subs[i].frees \subseteq Memory
  BY SubmissionsAre DEF Attached
<1>2. CASE subs = <<>>
  <2>1. pending' = subs /\ deferred' = carried \cup ms
    BY <1>2 DEF DeferDestroy
  <2> QED BY <2>1, Carries
<1>3. CASE subs # <<>>
  <2> DEFINE last == Len(subs)
  <2>1. pending' = [subs EXCEPT ![last].frees = @ \cup ms] /\ deferred' = carried
    BY <1>3 DEF DeferDestroy
  <2>2. DOMAIN subs = 1 .. last /\ last \in Nat /\ last \in DOMAIN subs
    BY <1>3 DEF Attached
  <2>3. /\ DOMAIN pending' = DOMAIN subs /\ Len(pending') = last
        /\ \A i \in DOMAIN subs :
             /\ pending'[i].cmd = subs[i].cmd
             /\ pending'[i].frees = IF i = last THEN subs[i].frees \cup ms ELSE subs[i].frees
        /\ pending' \in Seq(Submission)
    <3>1. \A i \in DOMAIN subs : subs[i] \in Submission
      BY SubmissionsAre DEF Attached
    <3>2. /\ DOMAIN pending' = DOMAIN subs
          /\ \A i \in DOMAIN subs :
               pending'[i] = IF i = last THEN [subs[i] EXCEPT !.frees = @ \cup ms] ELSE subs[i]
      BY <2>1, <2>2 DEF Attached
    <3>3. \A i \in DOMAIN subs :
            /\ pending'[i].cmd = subs[i].cmd
            /\ pending'[i].frees = IF i = last THEN subs[i].frees \cup ms ELSE subs[i].frees
            /\ pending'[i] \in Submission
      <4>1. ASSUME NEW x \in Submission
            PROVE  /\ [x EXCEPT !.frees = @ \cup ms] \in Submission
                   /\ [x EXCEPT !.frees = @ \cup ms].cmd = x.cmd
                   /\ [x EXCEPT !.frees = @ \cup ms].frees = x.frees \cup ms
        BY DEF Submission
      <4> QED BY <3>1, <3>2, <4>1
    <3>4. Len(pending') = last
      BY <2>2, <3>2
    <3>5. pending' \in Seq(Submission)
      <4> DEFINE more == [subs[last] EXCEPT !.frees = @ \cup ms]
      <4>1. more \in Submission
        BY <2>2, <3>1 DEF Submission
      <4>2. subs \in Seq(Submission) /\ pending' = [subs EXCEPT ![last] = more]
        BY <2>1, <2>2 DEF Attached
      <4> HIDE DEF more
      <4> QED BY <2>2, <4>1, <4>2
    <3> QED BY <2>2, <3>2, <3>3, <3>4, <3>5
  <2>4. ASSUME NEW m \in ms, NEW c \in DOMAIN us, m \in us[c]
        PROVE  c <= subs[last].cmd
    <3>1. PICK i \in DOMAIN subs : subs[i].cmd = c
      BY <1>3, <2>4 DEF Attached
    <3>2. i = last \/ i < last
      BY <2>2
    <3> QED BY <1>1, <2>2, <3>1, <3>2 DEF Attached
  <2>5. ASSUME NEW i \in DOMAIN subs, NEW m \in pending'[i].frees
        PROVE  /\ to[m] = "deferred" /\ m \notin carried
               /\ \A j \in DOMAIN subs : m \in pending'[j].frees => j = i
               /\ \A c \in DOMAIN us : m \in us[c] => c <= subs[i].cmd
    <3>1. CASE m \in ms
      <4>1. \A j \in DOMAIN subs : m \notin subs[j].frees
        BY <3>1 DEF Attached
      <4>2. i = last /\ m \notin carried /\ \A j \in DOMAIN subs : m \in pending'[j].frees => j = last
        BY <2>3, <2>5, <3>1, <4>1 DEF Attached
      <4> QED BY <2>3, <2>4, <3>1, <4>2
    <3>2. CASE m \notin ms
      <4>1. m \in subs[i].frees /\ m \in Memory
        BY <1>1, <2>3, <2>5, <3>2
      <4> QED BY <2>3, <3>2, <4>1 DEF Attached
    <3> QED BY <3>1, <3>2
  <2> HIDE DEF last
  <2>6. /\ \A i, j \in DOMAIN pending' : i < j => pending'[i].cmd < pending'[j].cmd
        /\ \A i \in DOMAIN pending' : pending'[i].cmd <= top /\ (open => pending'[i].cmd < top)
        /\ \A c \in DOMAIN us : (open /\ c = top) \/ \E i \in DOMAIN pending' : pending'[i].cmd = c
    <3>1. DOMAIN pending' = DOMAIN subs /\ \A i \in DOMAIN subs : pending'[i].cmd = subs[i].cmd
      BY <2>3
    <3>2. /\ \A i, j \in DOMAIN subs : i < j => subs[i].cmd < subs[j].cmd
          /\ \A i \in DOMAIN subs : subs[i].cmd <= top /\ (open => subs[i].cmd < top)
          /\ \A c \in DOMAIN us : (open /\ c = top) \/ \E i \in DOMAIN subs : subs[i].cmd = c
      BY DEF Attached
    <3>3. \A i, j \in DOMAIN pending' : i < j => pending'[i].cmd < pending'[j].cmd
      BY <3>1, <3>2
    <3>4. \A i \in DOMAIN pending' : pending'[i].cmd <= top /\ (open => pending'[i].cmd < top)
      BY <3>1, <3>2
    <3>5. \A c \in DOMAIN us : (open /\ c = top) \/ \E i \in DOMAIN pending' : pending'[i].cmd = c
      BY <3>1, <3>2
    <3> QED BY <3>3, <3>4, <3>5
  <2>7. deferred' \subseteq Memory /\ \A m \in deferred' : to[m] = "deferred"
    BY <2>1 DEF Attached
  <2>8. \A i \in DOMAIN pending' : \A m \in pending'[i].frees :
          /\ to[m] = "deferred" /\ m \notin deferred'
          /\ \A j \in DOMAIN pending' : m \in pending'[j].frees => j = i
          /\ \A c \in DOMAIN us : m \in us[c] => c <= pending'[i].cmd
    BY <2>1, <2>3, <2>5
  <2> QED BY <2>3, <2>6, <2>7, <2>8 DEF Attached
<1> QED BY <1>2, <1>3

\* The open command buffer takes its place in the ring, and what was carried with it.
LEMMA Submits ==
  ASSUME StreamT, AttachInv
  PROVE  Attached(Sent, Kept, newest, FALSE, uses, place)
<1>1. CASE ~recording
  BY <1>1 DEF AttachInv, Attached, Sent, Kept
<1>2. CASE recording
  <2> DEFINE n == Len(pending)
             new == [cmd |-> newest, frees |-> deferred]
  <2>1. /\ Sent = Append(pending, new) /\ Kept = {}
        /\ newest \in Nat /\ \A c \in DOMAIN uses : c \in Nat /\ c <= newest
    BY <1>2 DEF Sent, Kept, StreamT
  <2>2. /\ new \in Submission /\ new.cmd = newest /\ new.frees = deferred
        /\ pending \in Seq(Submission)
    <3>1. pending \in Seq(Submission) /\ deferred \subseteq Memory
      BY DEF AttachInv, Attached
    <3> QED BY <2>1, <3>1 DEF Submission
  <2>3. n \in Nat /\ DOMAIN pending = 1 .. n
    BY <2>2
  <2> HIDE DEF new
  <2>4. /\ Sent \in Seq(Submission)
        /\ DOMAIN Sent = 1 .. n + 1 /\ Sent[n + 1] = new
        /\ \A i \in 1 .. n : Sent[i] = pending[i]
    BY <2>1, <2>2, <2>3
  <2>5. \A i \in DOMAIN Sent : i = n + 1 \/ i \in DOMAIN pending
    BY <2>3, <2>4
  <2> HIDE DEF n
  <2>6. \A i \in DOMAIN pending : pending[i].cmd < newest /\ i < n + 1 /\ pending[i].cmd <= newest
    BY <1>2, <2>1, <2>3 DEF AttachInv, Attached
  <2>7. \A i, j \in DOMAIN Sent : i < j => Sent[i].cmd < Sent[j].cmd
    <3> SUFFICES ASSUME NEW i \in DOMAIN Sent, NEW j \in DOMAIN Sent, i < j
                 PROVE  Sent[i].cmd < Sent[j].cmd
      OBVIOUS
    <3>1. i \in DOMAIN pending
      BY <2>3, <2>4, <2>5
    <3>2. CASE j = n + 1
      BY <2>2, <2>3, <2>4, <2>6, <3>1, <3>2
    <3>3. CASE j \in DOMAIN pending
      BY <2>3, <2>4, <3>1, <3>3 DEF AttachInv, Attached
    <3> QED BY <2>5, <3>2, <3>3
  <2>8. \A c \in DOMAIN uses : \E i \in DOMAIN Sent : Sent[i].cmd = c
    <3> SUFFICES ASSUME NEW c \in DOMAIN uses PROVE \E i \in DOMAIN Sent : Sent[i].cmd = c
      OBVIOUS
    <3>1. CASE c = newest
      BY <2>2, <2>3, <2>4, <3>1
    <3>2. CASE c # newest
      <4>1. PICK i \in DOMAIN pending : pending[i].cmd = c
        BY <3>2 DEF AttachInv, Attached
      <4> QED BY <2>3, <2>4, <4>1
    <3> QED BY <3>1, <3>2
  <2>9. ASSUME NEW i \in DOMAIN Sent, NEW m \in Sent[i].frees
        PROVE  /\ place[m] = "deferred"
               /\ \A j \in DOMAIN Sent : m \in Sent[j].frees => j = i
               /\ \A c \in DOMAIN uses : m \in uses[c] => c <= Sent[i].cmd
    <3>1. \A j \in DOMAIN pending : Sent[j] = pending[j]
      BY <2>3, <2>4
    <3>2. CASE i = n + 1
      <4>1. m \in deferred /\ Sent[i].cmd = newest
        BY <2>2, <2>4, <2>9, <3>2
      <4>2. \A j \in DOMAIN pending : m \notin pending[j].frees
        BY <4>1 DEF AttachInv, Attached
      <4> QED BY <2>1, <2>5, <3>1, <3>2, <4>1, <4>2 DEF AttachInv, Attached
    <3>3. CASE i \in DOMAIN pending
      <4>1. m \in pending[i].frees /\ m \notin deferred
        BY <2>9, <3>1, <3>3 DEF AttachInv, Attached
      <4>2. \A j \in DOMAIN Sent : m \in Sent[j].frees => j \in DOMAIN pending
        BY <2>2, <2>4, <2>5, <4>1
      <4> QED BY <3>1, <3>3, <4>1, <4>2 DEF AttachInv, Attached
    <3> QED BY <2>5, <3>2, <3>3
  <2>10. \A i \in DOMAIN Sent : Sent[i].cmd <= newest
    <3>1. \A i \in DOMAIN pending : Sent[i].cmd <= newest
      BY <2>3, <2>4, <2>6
    <3> QED BY <2>1, <2>2, <2>4, <2>5, <3>1
  <2> QED BY <2>1, <2>4, <2>7, <2>8, <2>9, <2>10 DEF Attached
<1> QED BY <1>1, <1>2

\* When the fence of the oldest submission has signaled, nothing outstanding refers to
\* what was attached to it.
LEMMA Reaps ==
  ASSUME Ordinary, StreamT, AttachInv, recording, pending # <<>>, Head(pending).cmd \notin DOMAIN uses
  PROVE  /\ Attached(Tail(pending), deferred, newest, recording, uses, Reaped(Head(pending).frees))
         /\ Head(pending).frees \cap InUse = {}
         /\ \A m \in Head(pending).frees : m \in Memory /\ place[m] = "deferred"
<1> DEFINE n == Len(pending)
           ms == Head(pending).frees
           to == Reaped(ms)
<1>1. /\ pending \in Seq(Submission)
      /\ n \in Nat /\ n >= 1 /\ DOMAIN pending = 1 .. n /\ 1 \in DOMAIN pending
      /\ Head(pending) = pending[1] /\ ms = pending[1].frees
      /\ Tail(pending) \in Seq(Submission)
      /\ DOMAIN Tail(pending) = 1 .. n - 1
      /\ \A i \in 1 .. n - 1 : Tail(pending)[i] = pending[i + 1] /\ i + 1 \in DOMAIN pending
  BY DEF AttachInv, Attached
<1>2. \A i \in DOMAIN pending : pending[i].cmd \in Nat /\ pending[i].frees \subseteq Memory
  BY SubmissionsAre DEF AttachInv, Attached
<1>3. \A m \in ms : m \in Memory /\ place[m] = "deferred"
  BY <1>1, <1>2 DEF AttachInv, Attached
<1>4. ms \cap InUse = {}
  <2> SUFFICES ASSUME NEW m \in ms, NEW c \in DOMAIN uses, m \in uses[c] PROVE FALSE
    BY DEF InUse, Stream!InUse
  <2>1. c <= pending[1].cmd /\ c # pending[1].cmd /\ c \in Nat
    BY <1>1 DEF AttachInv, Attached, StreamT
  <2>2. pending[1].cmd < newest
    BY <1>1 DEF AttachInv, Attached
  <2>3. PICK i \in DOMAIN pending : pending[i].cmd = c
    BY <1>1, <1>2, <2>1, <2>2 DEF AttachInv, Attached, StreamT
  <2>4. i # 1 /\ 1 < i
    BY <1>1, <2>1, <2>3
  <2>5. pending[1].cmd < pending[i].cmd
    BY <1>1, <2>4 DEF AttachInv, Attached
  <2> QED BY <1>1, <1>2, <2>1, <2>3, <2>5
<1>5. \A i \in DOMAIN Tail(pending) : \A m \in Tail(pending)[i].frees :
        /\ m \in Memory /\ m \notin ms /\ to[m] = "deferred" /\ m \notin deferred
        /\ \A c \in DOMAIN uses : m \in uses[c] => c <= Tail(pending)[i].cmd
  <2> SUFFICES ASSUME NEW i \in 1 .. n - 1, NEW m \in pending[i + 1].frees
               PROVE  /\ m \in Memory /\ m \notin ms /\ to[m] = "deferred" /\ m \notin deferred
                      /\ \A c \in DOMAIN uses : m \in uses[c] => c <= pending[i + 1].cmd
    BY <1>1
  <2>1. i + 1 \in DOMAIN pending /\ i + 1 # 1
    BY <1>1
  <2>2. m \in Memory /\ m \notin ms /\ place[m] = "deferred" /\ m \notin deferred
    BY <1>1, <1>2, <2>1 DEF AttachInv, Attached
  <2>3. to[m] = place[m]
    BY <2>2 DEF Reaped
  <2> QED BY <2>1, <2>2, <2>3 DEF AttachInv, Attached
<1>6. \A i, j \in DOMAIN Tail(pending) :
        /\ i < j => Tail(pending)[i].cmd < Tail(pending)[j].cmd
        /\ \A m \in Tail(pending)[i].frees : m \in Tail(pending)[j].frees => j = i
  <2> SUFFICES ASSUME NEW i \in 1 .. n - 1, NEW j \in 1 .. n - 1
               PROVE  /\ i < j => Tail(pending)[i].cmd < Tail(pending)[j].cmd
                      /\ \A m \in Tail(pending)[i].frees : m \in Tail(pending)[j].frees => j = i
    BY <1>1
  <2> USE <1>1
  <2>1. i + 1 \in DOMAIN pending /\ j + 1 \in DOMAIN pending /\ (i < j => i + 1 < j + 1)
        /\ (i + 1 = j + 1 => i = j)
    BY <1>1
  <2>2. i < j => pending[i + 1].cmd < pending[j + 1].cmd
    BY <2>1 DEF AttachInv, Attached
  <2>3. \A m \in pending[i + 1].frees : m \in pending[j + 1].frees => j + 1 = i + 1
    BY <2>1 DEF AttachInv, Attached
  <2> QED BY <2>1, <2>2, <2>3
<1>7. \A c \in DOMAIN uses : (recording /\ c = newest) \/ \E i \in DOMAIN Tail(pending) : Tail(pending)[i].cmd = c
  <2> SUFFICES ASSUME NEW c \in DOMAIN uses, c # newest
               PROVE  \E i \in DOMAIN Tail(pending) : Tail(pending)[i].cmd = c
    OBVIOUS
  <2>1. PICK i \in DOMAIN pending : pending[i].cmd = c
    BY DEF AttachInv, Attached
  <2>2. i # 1
    BY <1>1, <2>1
  <2>3. i - 1 \in 1 .. n - 1 /\ (i - 1) + 1 = i
    BY <1>1, <2>2
  <2>4. i - 1 \in DOMAIN Tail(pending) /\ Tail(pending)[i - 1] = pending[(i - 1) + 1]
    BY <1>1, <2>3
  <2> QED BY <2>1, <2>3, <2>4
<1>8. \A m \in deferred : to[m] = "deferred"
  <2>1. \A m \in deferred : m \in Memory /\ m \notin ms /\ place[m] = "deferred"
    BY <1>1 DEF AttachInv, Attached
  <2> QED BY <2>1 DEF Reaped
<1>9. \A i \in DOMAIN Tail(pending) : Tail(pending)[i].cmd <= newest /\ Tail(pending)[i].cmd < newest
  <2>1. \A i \in DOMAIN pending : pending[i].cmd <= newest /\ pending[i].cmd < newest
    BY DEF AttachInv, Attached
  <2> QED BY <1>1, <2>1
<1>10. deferred \subseteq Memory
  BY DEF AttachInv, Attached
<1> HIDE DEF to
<1>11. Attached(Tail(pending), deferred, newest, recording, uses, to)
  BY <1>1, <1>5, <1>6, <1>7, <1>8, <1>9, <1>10 DEF Attached
<1> QED BY <1>3, <1>4, <1>11 DEF to

\* An operation that lets go of nothing, and one that appends commands besides.
LEMMA StaysAttached ==
  ASSUME AttachInv, UNCHANGED <<newest, recording, uses, pending, deferred>>,
         \A m \in Memory : place[m] = "deferred" => place'[m] = "deferred"
  PROVE  AttachInv'
<1>1. Attached(pending, deferred, newest, recording, uses, place')
  BY Moves DEF AttachInv
<1> QED BY <1>1 DEF AttachInv

LEMMA AppendStaysAttached ==
  ASSUME StreamT, AttachInv, NEW M \in SUBSET Memory, Stream!Append(M),
         \A m \in M : place[m] # "deferred", UNCHANGED <<pending, deferred>>,
         \A m \in Memory : place[m] = "deferred" => place'[m] = "deferred"
  PROVE  AttachInv'
<1>1. Attached(pending, deferred, newest', recording', uses', place)
  BY Appends
<1>2. Attached(pending, deferred, newest', recording', uses', place')
  BY <1>1, Moves
<1> QED BY <1>2 DEF AttachInv

\* An operation that lets go of ms, which the open command buffer does not refer to.
LEMMA GivesUp ==
  ASSUME AttachInv, UNCHANGED <<newest, recording, uses>>,
         NEW ms \in SUBSET Memory, \A m \in ms : place[m] # "deferred" /\ place'[m] = "deferred",
         \A m \in Memory : place[m] = "deferred" => place'[m] = "deferred",
         pending = <<>> \/ ms \cap Recorded = {}, DeferDestroy(pending, deferred, ms)
  PROVE  AttachInv'
<1>1. pending = <<>> \/ (recording => uses[newest] \cap ms = {})
  BY DEF Recorded
<1>2. Attached(pending', deferred', newest, recording, uses, place')
  BY <1>1, Defers DEF AttachInv
<1> QED BY <1>2 DEF AttachInv

----------------------------------------------------------------------------
(* What an operation does to places, values and names.                     *)

\* Commands are appended: what they refer to is in use besides.
LEMMA AppendWork ==
  ASSUME Ordinary, StreamT, NEW M \in SUBSET Memory, Stream!Append(M)
  PROVE  StreamT' /\ InUse' \subseteq InUse \cup M
<1>1. /\ newest' \in Nat /\ recording' = TRUE
      /\ newest' = IF recording THEN newest ELSE newest + 1
      /\ uses' = [c \in DOMAIN uses \cup {newest'} |->
                    IF c = newest' THEN M \cup (IF recording THEN uses[c] ELSE {}) ELSE uses[c]]
  BY DEF StreamT, Stream!Append
<1>2. DOMAIN uses' = DOMAIN uses \cup {newest'}
  BY <1>1
<1>3. \A c \in DOMAIN uses' : c \in Nat /\ c <= newest'
  BY <1>1, <1>2 DEF StreamT
<1>4. \A c \in DOMAIN uses' : \A m \in uses'[c] : m \in InUse \cup M
  <2> SUFFICES ASSUME NEW c \in DOMAIN uses', NEW m \in uses'[c], m \notin M
               PROVE  m \in InUse
    OBVIOUS
  <2>1. c \in DOMAIN uses /\ m \in uses[c]
    BY <1>1, <1>2 DEF StreamT
  <2> QED BY <2>1 DEF InUse, Stream!InUse
<1>5. InUse' \subseteq InUse \cup M
  BY <1>4 DEF InUse, Stream!InUse
<1> QED BY <1>1, <1>2, <1>3, <1>5 DEF StreamT

\* A buffer that is created and filled through a staging buffer.
LEMMA Filled ==
  ASSUME Ordinary, PlaceT, StreamT, WorkSafe, AttachInv, NEW b, NEW s, CreateFilled(b, s)
  PROVE  /\ b \in Buffer /\ b \in Resource /\ b \in Memory /\ b \notin Owned /\ b \notin Pipeline
         /\ PlaceT' /\ Owned' = Owned \cup {b}
         /\ StreamT' /\ WorkSafe' /\ AttachInv' /\ InUse' \cap Pipeline \subseteq InUse
<1>1. /\ b \in Buffer /\ s \in Staging
      /\ place[b] \in {"pool", "none"} /\ place[s] \in {"pool", "none"}
  BY ObtainableIs DEF CreateFilled
<1>2. b \in Resource /\ b \in Memory /\ b \notin Owned /\ b \notin Pipeline /\ s \notin Resource
      /\ s \in Memory /\ b # s /\ s \notin Pipeline
  BY <1>1, Kinds DEF Owned
<1>3. place' = [place EXCEPT ![b] = "owned", ![s] = "deferred"]
  BY DEF CreateFilled
<1>4. PlaceT'
  BY <1>2, <1>3, Kinds DEF PlaceT
<1>5. \A m \in Memory : place'[m] = IF m = s THEN "deferred" ELSE IF m = b THEN "owned" ELSE place[m]
  BY <1>2, <1>3 DEF PlaceT
<1>6. Owned' = Owned \cup {b}
  BY <1>2, <1>5, Kinds DEF Owned
<1>7. StreamT' /\ InUse' \subseteq InUse \cup {b, s}
  BY <1>2, AppendWork DEF CreateFilled
<1>8. WorkSafe'
  BY <1>5, <1>7 DEF WorkSafe, StreamT
<1>9. AttachInv'
  <2>1. {b, s} \in SUBSET Memory /\ Stream!Append({b, s}) /\ {s} \in SUBSET Memory
        /\ pending' = pending /\ deferred' = deferred \cup {s}
    BY <1>2 DEF CreateFilled
  <2>2. \A m \in {b, s} : place[m] # "deferred"
    BY <1>1
  <2>3. Attached(pending, deferred, newest', recording', uses', place)
    BY <2>1, <2>2, Appends
  <2>4. /\ \A m \in {s} : place[m] # "deferred" /\ place'[m] = "deferred"
        /\ \A m \in Memory : place[m] = "deferred" => place'[m] = "deferred"
    BY <1>1, <1>2, <1>5
  <2>5. Attached(pending, deferred \cup {s}, newest', recording', uses', place')
    BY <2>1, <2>3, <2>4, Carries
  <2> QED BY <2>1, <2>5 DEF AttachInv
<1> QED BY <1>1, <1>2, <1>4, <1>6, <1>7, <1>8, <1>9

\* A resource that is created.
LEMMA Created ==
  ASSUME Ordinary, PlaceT, StreamT, WorkSafe, NEW kind \in SUBSET Resource,
         NEW b \in Obtainable(kind), place' = [place EXCEPT ![b] = "owned"]
  PROVE  /\ b \in Resource /\ b \in Memory /\ b \notin Owned /\ b \in kind /\ place[b] # "deferred"
         /\ PlaceT' /\ Owned' = Owned \cup {b}
         /\ \A m \in Memory : place'[m] = IF m = b THEN "owned" ELSE place[m]
<1>1. b \in Resource /\ b \in Memory /\ b \notin Owned /\ b \in kind /\ place[b] # "deferred"
  BY ObtainableIs, Kinds DEF Owned
<1>2. \A m \in Memory : place'[m] = IF m = b THEN "owned" ELSE place[m]
  BY <1>1 DEF PlaceT
<1>3. PlaceT'
  BY <1>1, <1>2, Kinds DEF PlaceT
<1>4. Owned' = Owned \cup {b}
  BY <1>1, <1>2, Kinds DEF Owned
<1> QED BY <1>1, <1>2, <1>3, <1>4

\* One name of one run is rebound.
LEMMA OneBound ==
  ASSUME EnvT, UNCHANGED host, NEW t \in Thread, NEW n \in Name, NEW x \in {Absent} \cup Typed,
         env' = [env EXCEPT ![t][n] = x]
  PROVE  /\ EnvT'
         /\ \A u \in Thread, m \in Name : env'[u][m] = IF u = t /\ m = n THEN x ELSE env[u][m]
<1>1. Typed' = Typed
  BY DEF Value, Typed
<1> QED BY <1>1 DEF EnvT

\* All names of one run are.
LEMMA AllBound ==
  ASSUME EnvT, UNCHANGED host, NEW t \in Thread, NEW f \in [Name -> {Absent} \cup Typed],
         env' = [env EXCEPT ![t] = f]
  PROVE  /\ EnvT'
         /\ \A u \in Thread, m \in Name : env'[u][m] = IF u = t THEN f[m] ELSE env[u][m]
<1>1. Typed' = Typed
  BY DEF Value, Typed
<1> QED BY <1>1 DEF EnvT

\* One place in memory is overwritten.
LEMMA OneWritten ==
  ASSUME HoldsT, NEW m \in Memory, NEW o \in Offset, NEW v, holds' = [holds EXCEPT ![m][o] = v]
  PROVE  /\ HoldsT'
         /\ \A q \in Memory, p \in Offset :
              holds'[q][p] = IF q = m /\ p = o THEN v ELSE holds[q][p]
BY DEF HoldsT

LEMMA ZeroOffset == 0 \in Offset /\ 1 \in Offset
BY DEF Offset

LEMMA AbsentIs ==
  /\ Absent.home = "absent" /\ ~OnDevice(Absent)
  /\ NoRun.phase = "idle" /\ NoCall.stage = "none"
BY DEF Absent, OnDevice, NoRun, NoCall

----------------------------------------------------------------------------
(* The actions of the cache.                                               *)

LEMMA MissStep ==
  ASSUME Ordinary, MemoryInv, NEW t \in Thread, NEW a \in Ask, AskCache(t, a), Miss(t, a),
         UNCHANGED providerVars
  PROVE  MemoryInv'
<1>1. /\ UNCHANGED <<newest, recording, uses, place, pending, deferred, holds, entry>>
      /\ UNCHANGED <<host, run, runs, env, handle, live, tensors>>
      /\ call' = [call EXCEPT ![t] = [stage |-> "build", ask |-> a]]
      /\ call[t].stage = "none" /\ a.table # "zero" /\ ~Cached(a) /\ run[t].phase = "run"
      /\ Contended(t, a) => a.table = "pipelines"
  <2>1. UNCHANGED holds
    BY DEF Miss, AskCache, MakeZero
  <2> QED BY <2>1 DEF Miss, AskCache, Running, streamVars, sessionVars, providerVars, Ordinary,
                      OrdinaryUse
<1>2. DOMAIN call' = Thread
      /\ \A u \in Thread : call'[u] = IF u = t THEN [stage |-> "build", ask |-> a] ELSE call[u]
  BY <1>1 DEF MemoryInv, TypeInv, CallT
<1>3. CallT'
  <2>1. [stage |-> "build", ask |-> a] \in [stage : {"build"}, ask : Ask]
    OBVIOUS
  <2> QED BY <1>2, <2>1 DEF MemoryInv, TypeInv, CallT, CallIs
<1>4. CallInv'
  <2>1. \A u \in Thread : Building(u)' <=> u = t \/ Building(u)
    BY <1>2, AbsentIs DEF Building
  <2>2. \A b : Cached(b)' <=> Cached(b)
    BY <1>1 DEF Cached
  <2>3. ASSUME NEW u \in Thread \ {t}, Building(u), KeyOf(call[u].ask) = KeyOf(a)
        PROVE  a.table = "pipelines" /\ call[u].ask.table = "pipelines"
    BY <1>1, <2>3, KeyHead DEF Contended, Building
  <2> QED BY <1>1, <1>2, <2>1, <2>2, <2>3 DEF MemoryInv, CallInv
<1>5. BuiltBufs' = BuiltBufs /\ OneCopy'
  <2>1. \A u \in Thread : call'[u].stage = "insert" => u # t /\ call'[u] = call[u]
    BY <1>2
  <2>2. \A u \in Thread : call[u].stage = "insert" => u # t /\ call'[u] = call[u]
    BY <1>1, <1>2
  <2> QED BY <2>1, <2>2 DEF MemoryInv, LedgerInv, BuiltBufs, OneCopy
<1>6. CopiesIdle'
  BY <1>1, <1>2, SameRest DEF MemoryInv, WorkInv, CopiesIdle
<1> QED BY <1>1, <1>3, <1>4, <1>5, <1>6, SameTypes, SameSets, SameRest
        DEF MemoryInv, TypeInv, LedgerInv, WorkInv

LEMMA ZeroStep ==
  ASSUME Ordinary, MemoryInv, NEW t \in Thread, NEW a \in Ask, AskCache(t, a),
         NEW b, NEW s, MakeZero(a, b, s), UNCHANGED providerVars
  PROVE  MemoryInv'
<1>1. /\ UNCHANGED <<call, host, run, runs, env, handle, live, tensors>>
      /\ CreateFilled(b, s) /\ a.table = "zero" /\ ~Cached(a)
      /\ entry' = [k \in DOMAIN entry \cup {KeyOf(a)} |-> IF k \in DOMAIN entry THEN entry[k] ELSE b]
      /\ holds' = [holds EXCEPT ![b][0] = Made(a)]
  BY DEF MakeZero, AskCache, sessionVars, providerVars
<1>2. /\ b \in Buffer /\ b \in Resource /\ b \in Memory /\ b \notin Owned
      /\ PlaceT' /\ Owned' = Owned \cup {b}
      /\ StreamT' /\ WorkSafe' /\ AttachInv' /\ InUse' \cap Pipeline \subseteq InUse
  BY <1>1, Filled DEF MemoryInv, TypeInv, WorkInv
<1>3. KeyOf(a)[1] = "zero" /\ KeyOf(a) \notin DOMAIN entry
  BY <1>1, KeyHead DEF Cached
<1>4. /\ DOMAIN entry' = DOMAIN entry \cup {KeyOf(a)} /\ entry'[KeyOf(a)] = b
      /\ \A k \in DOMAIN entry : entry'[k] = entry[k]
  BY <1>1, <1>3
<1>5. EntryT'
  BY <1>2, <1>3, <1>4 DEF MemoryInv, TypeInv, EntryT
<1>6. HoldsT'
  BY <1>1, <1>2, OneWritten, ZeroOffset DEF MemoryInv, TypeInv
<1>7. CallInv'
  <2>1. \A u \in Thread : Building(u) => (Cached(call[u].ask)' => Cached(call[u].ask))
    BY <1>1, <1>3, <1>4, KeyHead DEF MemoryInv, CallInv, Cached
  <2> QED BY <1>1, <2>1 DEF MemoryInv, CallInv, Building, Cached
<1>8. CacheBufs' = CacheBufs \cup {b}
  BY <1>4 DEF CacheBufs
<1>9. OneEntry'
  <2>1. \A k \in DOMAIN entry : entry[k] # b
    BY <1>2 DEF MemoryInv, LedgerInv, Split, CacheBufs
  <2> QED BY <1>4, <2>1 DEF MemoryInv, LedgerInv, OneEntry
<1>10. LedgerInv'
  BY <1>1, <1>2, <1>8, <1>9, SameSets DEF MemoryInv, LedgerInv, Split
<1>11. CopiesIdle'
  BY <1>1, <1>2 DEF MemoryInv, WorkInv, CopiesIdle
<1> QED BY <1>1, <1>2, <1>5, <1>6, <1>7, <1>10, <1>11, SameTypes, SameRest
        DEF MemoryInv, TypeInv, WorkInv

\* What a thread asks for and builds.
LEMMA CallOf ==
  ASSUME CallT, NEW t \in Thread
  PROVE  /\ call[t].stage = "build" => call[t].ask \in Ask
         /\ call[t].stage = "insert" =>
              /\ call[t].ask \in Ask /\ call[t].copy \in Resource
              /\ call[t].copy \in IF call[t].ask.table = "pipelines" THEN Pipeline ELSE Buffer
BY DEF CallT, CallIs, NoCall, Resources

LEMMA BuildStep ==
  ASSUME Ordinary, MemoryInv, NEW t \in Thread, NEW r, Build(t, r),
         UNCHANGED <<sessionVars, providerVars>>
  PROVE  MemoryInv'
<1> DEFINE a == call[t].ask
<1>1. /\ UNCHANGED <<entry, host, run, runs, env, handle, live, tensors>>
      /\ call[t].stage = "build" /\ r \in Obtainable(Resources(a))
      /\ call' = [call EXCEPT ![t] = [stage |-> "insert", ask |-> a, copy |-> r]]
      /\ holds' = [holds EXCEPT ![r][0] = Made(a)]
  BY DEF Build, sessionVars, providerVars
<1>2. a \in Ask /\ Resources(a) \in SUBSET Resource
  BY <1>1, CallOf DEF MemoryInv, TypeInv, Resources, Resource
<1>3. /\ r \in Resource /\ r \in Memory /\ r \notin Owned /\ r \in Resources(a)
      /\ PlaceT' /\ Owned' = Owned \cup {r}
      /\ StreamT' /\ WorkSafe' /\ AttachInv' /\ InUse' \cap Pipeline \subseteq InUse
      /\ r \in Pipeline => r \notin InUse'
  <2>1. CASE /\ place' = [place EXCEPT ![r] = "owned"] /\ Stream!Append({r}) /\ a.table = "packed"
             /\ UNCHANGED <<pending, deferred>>
    <3>1. /\ r \in Resource /\ r \in Memory /\ r \notin Owned /\ r \in Resources(a)
          /\ place[r] # "deferred"
          /\ PlaceT' /\ Owned' = Owned \cup {r}
          /\ \A m \in Memory : place'[m] = IF m = r THEN "owned" ELSE place[m]
      BY <1>1, <1>2, <2>1, Created DEF MemoryInv, TypeInv, WorkInv
    <3>2. r \in Buffer /\ r \notin Pipeline
      BY <2>1, <3>1, Kinds DEF Resources
    <3>3. StreamT' /\ InUse' \subseteq InUse \cup {r}
      BY <2>1, <3>1, AppendWork DEF MemoryInv, WorkInv
    <3>4. WorkSafe'
      BY <3>1, <3>3 DEF WorkSafe, StreamT, MemoryInv, WorkInv
    <3>5. AttachInv'
      BY <2>1, <3>1, AppendStaysAttached DEF MemoryInv, WorkInv
    <3> QED BY <3>1, <3>2, <3>3, <3>4, <3>5
  <2>2. CASE Stream!Create(r) /\ a.table = "pipelines" /\ UNCHANGED <<pending, deferred>>
    <3>1. place' = [place EXCEPT ![r] = "owned"] /\ UNCHANGED <<newest, recording, uses>>
      BY <2>2 DEF Stream!Create
    <3>2. /\ r \in Resource /\ r \in Memory /\ r \notin Owned /\ r \in Resources(a)
          /\ place[r] # "deferred"
          /\ PlaceT' /\ Owned' = Owned \cup {r}
          /\ \A m \in Memory : place'[m] = IF m = r THEN "owned" ELSE place[m]
      BY <1>1, <1>2, <3>1, Created DEF MemoryInv, TypeInv, WorkInv
    <3>3. StreamT' /\ InUse' = InUse
      BY <3>1, SameRest DEF MemoryInv, WorkInv
    <3>4. WorkSafe'
      BY <3>2, <3>3 DEF WorkSafe, StreamT, MemoryInv, WorkInv
    <3>5. r \notin InUse
      <4>1. r \in Pipeline /\ (place[r] = "pool" \/ r \notin InUse)
        BY <1>1, <2>2, <3>2, ObtainableIs DEF Resources
      <4>2. place[r] # "pool"
        BY <4>1 DEF MemoryInv, TypeInv, PlaceT
      <4> QED BY <4>1, <4>2
    <3>6. AttachInv'
      BY <2>2, <3>1, <3>2, StaysAttached DEF MemoryInv, WorkInv
    <3> QED BY <3>2, <3>3, <3>4, <3>5, <3>6
  <2>3. ASSUME NEW s, CreateFilled(r, s), a.table # "pipelines"
        PROVE  /\ r \in Resource /\ r \in Memory /\ r \notin Owned /\ r \in Resources(a)
               /\ PlaceT' /\ Owned' = Owned \cup {r}
               /\ StreamT' /\ WorkSafe' /\ AttachInv' /\ InUse' \cap Pipeline \subseteq InUse
               /\ r \in Pipeline => r \notin InUse'
    <3>1. /\ r \in Buffer /\ r \in Resource /\ r \in Memory /\ r \notin Owned /\ r \notin Pipeline
          /\ PlaceT' /\ Owned' = Owned \cup {r}
          /\ StreamT' /\ WorkSafe' /\ AttachInv' /\ InUse' \cap Pipeline \subseteq InUse
      BY <2>3, Filled DEF MemoryInv, TypeInv, WorkInv
    <3>2. r \in Resources(a)
      BY <2>3, <3>1 DEF Resources
    <3> QED BY <3>1, <3>2
  <2> QED BY <2>1, <2>2, <2>3 DEF Build
<1>4. DOMAIN call' = Thread
      /\ \A u \in Thread :
           call'[u] = IF u = t THEN [stage |-> "insert", ask |-> a, copy |-> r] ELSE call[u]
  BY <1>1 DEF MemoryInv, TypeInv, CallT
<1>5. CallT'
  <2>1. [stage |-> "insert", ask |-> a, copy |-> r] \in [stage : {"insert"}, ask : Ask, copy : Resource]
    BY <1>2, <1>3
  <2>2. CallIs(t)'
    BY <1>3, <1>4, <2>1 DEF CallIs, Resources
  <2>3. \A u \in Thread \ {t} : CallIs(u)'
    BY <1>4 DEF MemoryInv, TypeInv, CallT, CallIs, Resources
  <2> QED BY <1>4, <2>2, <2>3 DEF CallT
<1>6. HoldsT'
  BY <1>1, <1>3, OneWritten, ZeroOffset DEF MemoryInv, TypeInv
<1>7. CallInv'
  <2>1. \A u \in Thread : (Building(u)' <=> Building(u)) /\ call'[u].ask = call[u].ask
    BY <1>1, <1>4 DEF Building
  <2>2. \A b : Cached(b)' <=> Cached(b)
    BY <1>1 DEF Cached
  <2> QED BY <1>1, <2>1, <2>2 DEF MemoryInv, CallInv
<1>8. BuiltBufs' = BuiltBufs \cup {r}
  BY <1>1, <1>3, <1>4 DEF BuiltBufs
<1>9. OneCopy'
  <2>1. \A u \in Thread : call[u].stage = "insert" => call[u].copy # r
    BY <1>3 DEF MemoryInv, LedgerInv, Split, BuiltBufs
  <2> QED BY <1>4, <2>1 DEF MemoryInv, LedgerInv, OneCopy
<1>10. LedgerInv'
  BY <1>1, <1>3, <1>8, <1>9, SameSets DEF MemoryInv, LedgerInv, Split
<1>11. CopiesIdle'
  BY <1>3, <1>4 DEF MemoryInv, WorkInv, CopiesIdle
<1> QED BY <1>1, <1>3, <1>5, <1>6, <1>7, <1>10, <1>11, SameTypes, SameRest
        DEF MemoryInv, TypeInv, WorkInv

LEMMA InsertStep ==
  ASSUME Ordinary, MemoryInv, NEW t \in Thread, Insert(t), UNCHANGED <<sessionVars, providerVars>>
  PROVE  MemoryInv'
<1> DEFINE a == call[t].ask
           r == call[t].copy
<1>1. /\ UNCHANGED <<newest, recording, uses, host, run, runs, env, handle, live, tensors>>
      /\ call[t].stage = "insert"
      /\ call' = [call EXCEPT ![t] = NoCall]
  BY DEF Insert, DestroyNow, streamVars, sessionVars, providerVars
<1>2. /\ a \in Ask /\ r \in Resource /\ r \in Memory
      /\ r \in IF a.table = "pipelines" THEN Pipeline ELSE Buffer
      /\ r \in BuiltBufs /\ r \in Owned /\ place[r] = "owned"
  <2>1. a \in Ask /\ r \in Resource /\ r \in IF a.table = "pipelines" THEN Pipeline ELSE Buffer
    BY <1>1, CallOf DEF MemoryInv, TypeInv
  <2>2. r \in BuiltBufs
    BY <1>1, <2>1 DEF BuiltBufs
  <2>3. r \in Owned
    BY <2>2 DEF MemoryInv, LedgerInv, Split
  <2> QED BY <2>1, <2>2, <2>3, Kinds DEF Owned
<1>3. DOMAIN call' = Thread /\ \A u \in Thread : call'[u] = IF u = t THEN NoCall ELSE call[u]
  BY <1>1 DEF MemoryInv, TypeInv, CallT
<1>4. CallT'
  BY <1>3 DEF MemoryInv, TypeInv, CallT, CallIs
<1>5. BuiltBufs' = BuiltBufs \ {r}
  <2>1. ASSUME NEW q \in Resource, q \in BuiltBufs, q # r PROVE q \in BuiltBufs'
    BY <1>3, <2>1 DEF BuiltBufs
  <2>2. ASSUME NEW q \in Resource, q \in BuiltBufs' PROVE q \in BuiltBufs /\ q # r
    <3>1. PICK u \in Thread : call'[u].stage = "insert" /\ call'[u].copy = q
      BY <2>2 DEF BuiltBufs
    <3>2. u # t /\ call[u] = call'[u]
      BY <1>3, <3>1, AbsentIs
    <3> QED BY <1>1, <3>1, <3>2 DEF BuiltBufs, MemoryInv, LedgerInv, OneCopy
  <2>3. BuiltBufs' \subseteq Resource /\ BuiltBufs \subseteq Resource
    BY DEF BuiltBufs
  <2> QED BY <2>1, <2>2, <2>3
<1>6. OneCopy'
  BY <1>3, AbsentIs DEF MemoryInv, LedgerInv, OneCopy
<1>7. CASE Cached(a)
  <2>1. /\ UNCHANGED entry
        /\ place' = [m \in Memory |-> IF m \in {r} THEN "none" ELSE place[m]]
        /\ holds' = [m \in Memory |-> IF m \in {r} THEN Blank ELSE holds[m]]
    BY <1>7 DEF Insert, DestroyNow
  <2>2. a.table = "pipelines" /\ r \in Pipeline
    BY <1>1, <1>2, <1>7 DEF MemoryInv, CallInv, Building
  <2>3. PlaceT'
    BY <2>1, Kinds DEF MemoryInv, TypeInv, PlaceT
  <2>4. HoldsT'
    BY <2>1 DEF MemoryInv, TypeInv, HoldsT, Blank
  <2>5. CallInv'
    BY <1>1, <1>3, <2>1, AbsentIs DEF MemoryInv, CallInv, Building, Cached
  <2>6. Owned' = Owned \ {r}
    BY <2>1, Kinds DEF Owned
  <2>7. LedgerInv'
    BY <1>1, <1>2, <1>5, <1>6, <2>1, <2>6, SameSets DEF MemoryInv, LedgerInv, Split
  <2>8. InUse' = InUse /\ StreamT' /\ r \notin InUse
    BY <1>1, <2>2, SameRest DEF MemoryInv, WorkInv, CopiesIdle
  <2>9. WorkSafe'
    BY <2>1, <2>8 DEF MemoryInv, WorkInv, WorkSafe, StreamT
  <2>10. CopiesIdle'
    BY <1>3, <2>8, AbsentIs DEF MemoryInv, WorkInv, CopiesIdle
  <2>11. AttachInv'
    <3>1. UNCHANGED <<pending, deferred>>
      BY <1>7 DEF Insert, DestroyNow
    <3>2. \A m \in Memory : place[m] = "deferred" => place'[m] = "deferred"
      BY <1>2, <2>1
    <3> QED BY <1>1, <3>1, <3>2, StaysAttached DEF MemoryInv, WorkInv
  <2> QED BY <1>1, <1>4, <2>1, <2>3, <2>4, <2>5, <2>7, <2>8, <2>9, <2>10, <2>11, SameTypes, SameRest
          DEF MemoryInv, TypeInv, WorkInv
<1>8. CASE ~Cached(a)
  <2>1. /\ UNCHANGED <<place, pending, deferred, holds>>
        /\ entry' = [k \in DOMAIN entry \cup {KeyOf(a)} |-> IF k \in DOMAIN entry THEN entry[k] ELSE r]
    BY <1>8 DEF Insert, streamVars
  <2>2. /\ KeyOf(a) \notin DOMAIN entry /\ KeyOf(a)[1] = a.table
        /\ DOMAIN entry' = DOMAIN entry \cup {KeyOf(a)} /\ entry'[KeyOf(a)] = r
        /\ \A k \in DOMAIN entry : entry'[k] = entry[k]
    BY <1>8, <2>1, KeyHead DEF Cached
  <2>3. EntryT'
    BY <1>2, <2>2 DEF MemoryInv, TypeInv, EntryT
  <2>4. CallInv'
    <3> SUFFICES ASSUME NEW u \in Thread, Building(u)'
                 PROVE  /\ run'[u].phase = "run" /\ call'[u].ask.table # "zero"
                        /\ call'[u].ask.table # "pipelines" =>
                             /\ KeyOf(call'[u].ask) \notin DOMAIN entry'
                             /\ \A v \in Thread \ {u} : Building(v)' =>
                                  KeyOf(call'[v].ask) # KeyOf(call'[u].ask)
      BY DEF CallInv, Cached
    <3>1. u # t /\ call'[u] = call[u] /\ Building(u)
      BY <1>3, AbsentIs DEF Building
    <3>2. call[u].ask.table # "pipelines" => KeyOf(call[u].ask) # KeyOf(a)
      BY <1>1, <3>1 DEF MemoryInv, CallInv, Building
    <3>3. \A v \in Thread \ {u} : Building(v)' => Building(v) /\ call'[v] = call[v]
      BY <1>3, AbsentIs DEF Building
    <3> QED BY <1>1, <2>2, <3>1, <3>2, <3>3 DEF MemoryInv, CallInv, Cached
  <2>5. CacheBufs' = CacheBufs \cup {r}
    BY <2>2 DEF CacheBufs
  <2>6. OneEntry'
    <3>1. \A k \in DOMAIN entry : entry[k] # r
      BY <1>2 DEF MemoryInv, LedgerInv, Split, CacheBufs
    <3> QED BY <2>2, <3>1 DEF MemoryInv, LedgerInv, OneEntry
  <2>7. LedgerInv'
    BY <1>1, <1>2, <1>5, <1>6, <2>1, <2>5, <2>6, SameSets DEF MemoryInv, LedgerInv, Split
  <2>8. CopiesIdle'
    BY <1>1, <1>3, SameRest, AbsentIs DEF MemoryInv, WorkInv, CopiesIdle
  <2> QED BY <1>1, <1>4, <2>1, <2>3, <2>4, <2>7, <2>8, SameTypes, SameRest
          DEF MemoryInv, TypeInv, WorkInv
<1> QED BY <1>7, <1>8

LEMMA DropSessionStep ==
  ASSUME Ordinary, MemoryInv, DropSession, UNCHANGED providerVars
  PROVE  MemoryInv'
<1>1. /\ UNCHANGED <<newest, uses, call, host, run, runs, env, handle, live, tensors>>
      /\ recording' = FALSE
      /\ \A t \in Thread : call[t].stage = "none"
      /\ \A k \in DOMAIN entry : entry[k] \notin InUse /\ k[1] # "transposed"
      /\ DOMAIN entry' = {}
  BY DEF DropSession, DropEntries, Submit, sessionVars, providerVars, Ordinary, OrdinaryUse
<1>2. {entry[k] : k \in {k \in DOMAIN entry : k[1] # "transposed"}} = CacheBufs
  BY <1>1 DEF CacheBufs
<1>3. /\ place' = [m \in Memory |-> IF m \in CacheBufs THEN "none" ELSE place[m]]
      /\ holds' = [m \in Memory |-> IF m \in CacheBufs THEN Blank ELSE holds[m]]
  BY <1>2 DEF DropSession, DropEntries
<1>4. PlaceT' /\ HoldsT' /\ EntryT'
  BY <1>1, <1>3, Kinds DEF MemoryInv, TypeInv, PlaceT, HoldsT, EntryT, Blank
<1>5. CallInv'
  BY <1>1 DEF CallInv, Building
<1>6. Owned' = Owned \ CacheBufs /\ CacheBufs' = {}
  BY <1>1, <1>3, Kinds DEF Owned, CacheBufs
<1>7. LedgerInv'
  BY <1>1, <1>6, SameSets DEF MemoryInv, LedgerInv, Split, OneEntry
<1>8. InUse' = InUse
  BY <1>1 DEF InUse, Stream!InUse
<1>9. StreamT'
  BY <1>1, <1>8 DEF MemoryInv, WorkInv, StreamT
<1>10. WorkSafe'
  BY <1>1, <1>3, <1>8 DEF MemoryInv, WorkInv, WorkSafe, StreamT, CacheBufs
<1>11. AttachInv'
  <2>1. Attached(Sent, Kept, newest, FALSE, uses, place)
    BY Submits DEF MemoryInv, WorkInv
  <2>2. \A m \in Memory : place[m] = "deferred" => place'[m] = "deferred"
    BY <1>3 DEF MemoryInv, LedgerInv, Split, Owned
  <2>3. Attached(Sent, Kept, newest, FALSE, uses, place')
    BY <2>1, <2>2, Moves
  <2> QED BY <1>1, <2>3 DEF DropSession, DropEntries, Submit, AttachInv
<1> QED BY <1>1, <1>4, <1>5, <1>7, <1>9, <1>10, <1>11, SameTypes, SameRest
        DEF MemoryInv, TypeInv, WorkInv

----------------------------------------------------------------------------
(* The device.                                                             *)

LEMMA FlushStep ==
  ASSUME Ordinary, MemoryInv, Flush, UNCHANGED providerVars
  PROVE  MemoryInv'
<1>1. /\ UNCHANGED <<newest, uses, place, holds, entry, call>>
      /\ UNCHANGED <<host, run, runs, env, handle, live, tensors>>
      /\ recording' = FALSE
  BY DEF Flush, Submit, cacheVars, sessionVars, providerVars
<1>2. InUse' = InUse
  BY <1>1 DEF InUse, Stream!InUse
<1>3. StreamT'
  BY <1>1, <1>2 DEF MemoryInv, WorkInv, StreamT
<1>4. AttachInv'
  BY <1>1, Submits DEF Flush, Submit, MemoryInv, WorkInv, AttachInv
<1> QED BY <1>1, <1>3, <1>4, SameTypes, SameSets, SameRest DEF MemoryInv, TypeInv, LedgerInv, WorkInv

LEMMA GetStep ==
  ASSUME Ordinary, MemoryInv, NEW t \in Thread, NEW n \in Name, Get(t, n), UNCHANGED providerVars
  PROVE  MemoryInv'
<1>1. /\ UNCHANGED <<newest, place, holds, entry, call>>
      /\ UNCHANGED <<host, run, runs, env, handle, live, tensors>>
      /\ recording' = FALSE /\ DOMAIN uses' = {}
  BY DEF Get, Submit, cacheVars, sessionVars, providerVars
<1>2. InUse' = {}
  BY <1>1 DEF InUse, Stream!InUse
<1>3. StreamT' /\ CopiesIdle' /\ WorkSafe'
  BY <1>1, <1>2 DEF MemoryInv, WorkInv, StreamT, CopiesIdle, WorkSafe
<1>4. AttachInv'
  <2>1. Attached(Sent, Kept, newest, FALSE, uses, place)
    BY Submits DEF MemoryInv, WorkInv
  <2>2. Attached(Sent, Kept, newest, FALSE, uses', place)
    BY <1>1, <2>1, Moves
  <2> QED BY <1>1, <2>2 DEF Get, Submit, AttachInv
<1> QED BY <1>1, <1>3, <1>4, SameTypes, SameSets, SameRest DEF MemoryInv, TypeInv, LedgerInv, WorkInv

\* Only memory that was given up leaves its place, and nothing outstanding refers to it.
LEMMA ReapMoves ==
  ASSUME Ordinary, MemoryInv, NEW ms \in SUBSET Memory, place' = Reaped(ms),
         \A m \in ms : place[m] = "deferred" /\ m \notin InUse, UNCHANGED uses
  PROVE  /\ PlaceT' /\ Owned' = Owned /\ WorkSafe' /\ InUse' = InUse
         /\ \A m \in Memory : place'[m] = "none" => place[m] # "owned"
<1>1. /\ DOMAIN place' = Memory
      /\ \A m \in Memory : place'[m] = IF m \notin ms THEN place[m]
                                       ELSE IF m \in Staging THEN "pool" ELSE "none"
  BY DEF Reaped
<1>2. InUse' = InUse
  BY DEF InUse, Stream!InUse
<1>3. PlaceT'
  <2>1. place' = [m \in Memory |-> place'[m]]
    BY DEF Reaped
  <2> QED BY <1>1, <2>1, Kinds DEF MemoryInv, TypeInv, PlaceT
<1>4. Owned' = Owned
  BY <1>1, Kinds DEF Owned
<1>5. WorkSafe'
  BY <1>1, <1>2 DEF MemoryInv, WorkInv, WorkSafe, StreamT
<1> QED BY <1>1, <1>2, <1>3, <1>4, <1>5

LEMMA DeviceMoves ==
  ASSUME Ordinary, MemoryInv, DeviceStep
  PROVE  /\ PlaceT' /\ Owned' = Owned
         /\ \A m \in Memory : place'[m] = "none" => place[m] # "owned"
         /\ StreamT' /\ WorkSafe' /\ AttachInv' /\ InUse' \subseteq InUse
<1>1. CASE Stream!Execute /\ UNCHANGED <<pending, deferred>>
  <2>1. PICK c \in DOMAIN uses :
          /\ recording => c # newest
          /\ uses' = [d \in DOMAIN uses \ {c} |-> uses[d]]
          /\ UNCHANGED <<newest, recording, place>>
    BY <1>1 DEF Stream!Execute
  <2>2. DOMAIN uses' = DOMAIN uses \ {c} /\ \A d \in DOMAIN uses' : uses'[d] = uses[d]
    BY <2>1
  <2>3. InUse' \subseteq InUse
    BY <2>2 DEF InUse, Stream!InUse
  <2>4. StreamT'
    BY <2>1, <2>2, <2>3 DEF MemoryInv, WorkInv, StreamT
  <2>5. PlaceT' /\ Owned' = Owned
    BY <2>1, SameTypes, SameSets DEF MemoryInv, TypeInv
  <2>6. WorkSafe' /\ \A m \in Memory : place'[m] = "none" => place[m] # "owned"
    BY <2>1, <2>3 DEF MemoryInv, WorkInv, WorkSafe
  <2>7. AttachInv'
    <3>1. Attached(pending, deferred, newest, recording, uses', place)
      BY <2>2, Moves DEF MemoryInv, WorkInv, AttachInv
    <3> QED BY <1>1, <2>1, <3>1 DEF AttachInv
  <2> QED BY <2>3, <2>4, <2>5, <2>6, <2>7
<1>2. CASE BackPressure
  <2> DEFINE ms == Head(pending).frees
  <2>1. /\ recording /\ Len(pending) >= MaxInFlight /\ Head(pending).cmd \notin DOMAIN uses
        /\ place' = Reaped(ms) /\ pending' = Tail(pending)
        /\ UNCHANGED <<newest, recording, uses, deferred>>
    BY <1>2 DEF BackPressure
  <2>2. pending # <<>>
    <3>1. Len(<<>>) = 0
      OBVIOUS
    <3> QED BY <2>1, <3>1, CapAssumption
  <2>3. /\ Attached(Tail(pending), deferred, newest, recording, uses, Reaped(ms))
        /\ ms \cap InUse = {} /\ \A m \in ms : m \in Memory /\ place[m] = "deferred"
    BY <2>1, <2>2, Reaps DEF MemoryInv, WorkInv
  <2> HIDE DEF ms
  <2>4. /\ PlaceT' /\ Owned' = Owned /\ WorkSafe' /\ InUse' = InUse
        /\ \A m \in Memory : place'[m] = "none" => place[m] # "owned"
    <3>1. ms \in SUBSET Memory /\ \A m \in ms : place[m] = "deferred" /\ m \notin InUse
      BY <2>3
    <3> QED BY <2>1, <3>1, ReapMoves
  <2>5. StreamT'
    BY <2>1, SameRest DEF MemoryInv, WorkInv
  <2>6. AttachInv'
    BY <2>1, <2>3 DEF AttachInv
  <2> QED BY <2>4, <2>5, <2>6
<1>3. CASE FinishStream
  <2> DEFINE ms == UNION {pending[i].frees : i \in DOMAIN pending}
  <2>1. /\ ~recording /\ DOMAIN uses = {} /\ place' = Reaped(ms) /\ pending' = <<>>
        /\ UNCHANGED <<newest, recording, uses, deferred>>
    BY <1>3 DEF FinishStream
  <2>2. \A m \in ms : m \in Memory /\ place[m] = "deferred" /\ m \notin deferred
    BY SubmissionsAre DEF MemoryInv, WorkInv, AttachInv, Attached
  <2>3. InUse = {}
    BY <2>1 DEF InUse, Stream!InUse
  <2> HIDE DEF ms
  <2>4. /\ PlaceT' /\ Owned' = Owned /\ WorkSafe' /\ InUse' = InUse
        /\ \A m \in Memory : place'[m] = "none" => place[m] # "owned"
    <3>1. ms \in SUBSET Memory /\ \A m \in ms : place[m] = "deferred" /\ m \notin InUse
      BY <2>2, <2>3
    <3> QED BY <2>1, <3>1, ReapMoves
  <2>5. StreamT'
    BY <2>1, SameRest DEF MemoryInv, WorkInv
  <2>6. AttachInv'
    <3>1. deferred \subseteq Memory /\ \A m \in deferred : place[m] = "deferred"
      BY DEF MemoryInv, WorkInv, AttachInv, Attached
    <3>2. \A m \in deferred : place'[m] = "deferred"
      BY <2>1, <2>2, <3>1 DEF Reaped
    <3>3. <<>> \in Seq(Submission) /\ DOMAIN <<>> = {}
      OBVIOUS
    <3>4. Attached(<<>>, deferred, newest, recording, uses, place')
      BY <2>1, <3>1, <3>2, <3>3 DEF Attached
    <3> QED BY <2>1, <3>4 DEF AttachInv
  <2> QED BY <2>4, <2>5, <2>6
<1> QED BY <1>1, <1>2, <1>3 DEF DeviceStep

LEMMA DeviceStepKeeps ==
  ASSUME Ordinary, MemoryInv, DeviceStep, UNCHANGED <<sessionVars, providerVars>>
  PROVE  MemoryInv'
<1>1. /\ UNCHANGED <<entry, call, host, run, runs, env, handle, live, tensors>>
      /\ holds' = [m \in Memory |-> IF place'[m] = "none" THEN Blank ELSE holds[m]]
  BY DEF DeviceStep, cacheVars, sessionVars, providerVars
<1>2. HoldsT'
  BY <1>1 DEF MemoryInv, TypeInv, HoldsT, Blank
<1>3. LedgerInv'
  BY <1>1, DeviceMoves, SameSets DEF MemoryInv, LedgerInv
<1>4. CopiesIdle'
  BY <1>1, DeviceMoves DEF MemoryInv, WorkInv, CopiesIdle
<1> QED BY <1>1, <1>2, <1>3, <1>4, DeviceMoves, SameTypes, SameRest
        DEF MemoryInv, TypeInv, WorkInv

----------------------------------------------------------------------------
(* The actions of a session and its clients.                               *)

LEMMA ArcsAre ==
  ASSUME Ordinary, NEW b
  PROVE  /\ \A h \in Handle : h \in Arcs(b) <=> handle[h].home = "shared" /\ handle[h].buf = b
         /\ \A t \in Thread, n \in Name :
              <<t, n>> \in Arcs(b) <=> env[t][n].home = "shared" /\ env[t][n].buf = b
         /\ \A x \in Arcs(b) : x \in Handle \/ \E t \in Thread, n \in Name : x = <<t, n>>
         /\ b \in Resource => (b \in ArcBufs <=> Arcs(b) # {})
<1>1. \A h \in Handle : h \notin Thread \X Name
  BY DEF Ordinary
<1>2. \A h \in Handle : h \in Arcs(b) <=> handle[h].home = "shared" /\ handle[h].buf = b
  BY <1>1 DEF Arcs
<1>3. \A t \in Thread, n \in Name : <<t, n>> \in Thread \X Name /\ <<t, n>> \notin Handle
  BY <1>1
<1>4. \A t \in Thread, n \in Name :
        <<t, n>> \in Arcs(b) <=> env[t][n].home = "shared" /\ env[t][n].buf = b
  <2> SUFFICES ASSUME NEW t \in Thread, NEW n \in Name
               PROVE  <<t, n>> \in Arcs(b) <=> env[t][n].home = "shared" /\ env[t][n].buf = b
    OBVIOUS
  <2>1. <<t, n>>[1] = t /\ <<t, n>>[2] = n
    OBVIOUS
  <2> QED BY <1>3, <2>1 DEF Arcs
<1>5. \A x \in Arcs(b) : x \in Handle \/ \E t \in Thread, n \in Name : x = <<t, n>>
  BY DEF Arcs
<1>6. ASSUME b \in Resource, b \in ArcBufs PROVE Arcs(b) # {}
  <2>1. CASE \E h \in Handle : handle[h].home = "shared" /\ handle[h].buf = b
    BY <1>2, <2>1
  <2>2. CASE \E t \in Thread, n \in Name : env[t][n].home = "shared" /\ env[t][n].buf = b
    BY <1>4, <2>2
  <2> QED BY <1>6, <2>1, <2>2 DEF ArcBufs
<1>7. ASSUME b \in Resource, NEW x \in Arcs(b) PROVE b \in ArcBufs
  <2>1. CASE x \in Handle
    BY <1>2, <1>7, <2>1 DEF ArcBufs
  <2>2. ASSUME NEW t \in Thread, NEW n \in Name, x = <<t, n>> PROVE b \in ArcBufs
    BY <1>4, <1>7, <2>2 DEF ArcBufs
  <2> QED BY <1>5, <1>7, <2>1, <2>2
<1> QED BY <1>2, <1>4, <1>5, <1>6, <1>7

\* A value that comes from the host belongs to no run.
LEMMA HostValue ==
  ASSUME Ordinary, RunT, NEW n \in Inputs
  PROVE  FromHost(n).value \in Value /\ FromHost(n).home = "host"
<1>1. 0 \in 0 .. MaxRuns[host] /\ n \in Name
  BY DEF RunT, Ordinary, Name
<1> QED BY <1>1 DEF FromHost, Value

\* What a client or ORT starts a run with.
LEMMA BeginStep ==
  ASSUME Ordinary, MemoryInv, NEW t \in Thread, NEW pick \in [Inputs -> Handle \cup {"host"}],
         Begin(t, SupplyFrom(pick)), UNCHANGED providerVars
  PROVE  MemoryInv'
<1> DEFINE f == [n \in Name |-> IF n \in Inputs THEN SupplyFrom(pick)[n] ELSE Absent]
           now == [phase |-> "run", id |-> runs + 1, node |-> 1]
<1>1. /\ UNCHANGED <<newest, recording, uses, place, pending, deferred, holds, entry, call, host, handle, live, tensors>>
      /\ run[t].phase = "idle" /\ runs < MaxRuns[host] /\ runs' = runs + 1
      /\ run' = [run EXCEPT ![t] = now] /\ env' = [env EXCEPT ![t] = f]
      /\ \A n \in Inputs : SupplyFrom(pick)[n] # Absent
  BY DEF Begin, streamVars, cacheVars, providerVars
<1>2. /\ runs \in Nat /\ MaxRuns[host] \in Nat /\ runs <= MaxRuns[host]
  BY DEF MemoryInv, TypeInv, RunT, Ordinary
<1>3. \A n \in Inputs : \/ f[n] = FromHost(n)
                        \/ \E h \in Handle : f[n] = handle[h] /\ handle[h] # Absent
  <2>1. Inputs \subseteq Name
    BY DEF Name
  <2> QED BY <1>1, <2>1 DEF SupplyFrom
<1>4. \A n \in Name \ Inputs : f[n] = Absent
  OBVIOUS
<1>5. f \in [Name -> {Absent} \cup Typed]
  <2> SUFFICES ASSUME NEW n \in Name PROVE f[n] \in {Absent} \cup Typed
    OBVIOUS
  <2>1. CASE f[n] = FromHost(n)
    <3>1. [run |-> 0, name |-> n] \in Value
      BY <1>2 DEF Value
    <3> QED BY <2>1, <3>1 DEF FromHost, Typed
  <2>2. ASSUME NEW h \in Handle, f[n] = handle[h], handle[h] # Absent
        PROVE  f[n] \in {Absent} \cup Typed
    <3>1. handle[h] \in [home : {"shared"}, buf : Buffer, value : Value]
      BY <2>2, HandleIs DEF MemoryInv, TypeInv
    <3>2. handle[h] \in [home : {"owned", "borrowed", "shared"}, buf : Buffer, value : Value]
      BY <3>1
    <3> QED BY <2>2, <3>2 DEF Typed
  <2> QED BY <1>3, <1>4, <2>1, <2>2
<1> HIDE DEF f
<1>6. EnvT' /\ \A u \in Thread, m \in Name : env'[u][m] = IF u = t THEN f[m] ELSE env[u][m]
  BY <1>1, <1>5, AllBound DEF MemoryInv, TypeInv
<1>7. DOMAIN run' = Thread /\ \A u \in Thread : run'[u] = IF u = t THEN now ELSE run[u]
  BY <1>1 DEF MemoryInv, TypeInv, RunT
<1>8. RunT'
  <2>1. now \in [phase : {"inputs", "run", "done", "written"}, id : Nat, node : Nat]
    BY <1>2
  <2>2. 1 \in DOMAIN Program
    BY DEF Ordinary
  <2>3. RunIs(t)'
    BY <1>1, <1>2, <1>7, <2>1, <2>2 DEF RunIs
  <2>4. \A u \in Thread \ {t} : RunIs(u)'
    BY <1>1, <1>2, <1>7 DEF MemoryInv, TypeInv, RunT, RunIs
  <2>5. runs' \in 0 .. MaxRuns[host']
    BY <1>1, <1>2
  <2> QED BY <1>1, <1>7, <2>3, <2>4, <2>5 DEF MemoryInv, TypeInv, RunT
<1>9. FreshInv'
  <2>1. \A i \in DOMAIN Program : Program[i].writes \in Name \ Inputs
    BY DEF Ordinary, Name
  <2> QED BY <1>4, <1>6, <1>7, <2>1 DEF MemoryInv, FreshInv
<1>10. CallInv'
  <2>1. ~Building(t)
    BY <1>1 DEF MemoryInv, CallInv
  <2> QED BY <1>1, <1>7, <2>1 DEF MemoryInv, CallInv, Building, Cached
<1>11. \A n \in Name : /\ env[t][n].home = "absent"
                       /\ f[n].home # "owned" /\ f[n].home # "borrowed"
                       /\ f[n].home = "shared" =>
                            \E h \in Handle : handle[h].home = "shared" /\ handle[h].buf = f[n].buf
  <2>1. \A n \in Name : env[t][n].home = "absent"
    BY <1>1, AbsentIs DEF MemoryInv, FreshInv
  <2>2. \A n \in Inputs : FromHost(n).home = "host"
    BY DEF FromHost
  <2>3. \A h \in Handle : handle[h] # Absent => handle[h].home = "shared"
    BY HandleIs DEF MemoryInv, TypeInv
  <2> QED BY <1>3, <1>4, <2>1, <2>2, <2>3, AbsentIs
<1>12. RunBufs' = RunBufs /\ OneName'
  BY <1>6, <1>11 DEF RunBufs, MemoryInv, LedgerInv, OneName
<1>13. ArcBufs' = ArcBufs
  BY <1>1, <1>6, <1>11 DEF ArcBufs
<1>14. AddressInv'
  BY <1>1, <1>6, <1>11 DEF MemoryInv, AddressInv
<1> QED BY <1>1, <1>6, <1>8, <1>9, <1>10, <1>12, <1>13, <1>14, SameTypes, SameSets, SameRest
        DEF MemoryInv, TypeInv, LedgerInv, WorkInv

\* A buffer that a run makes for a name that no device memory was bound to.
LEMMA RunGains ==
  ASSUME Ordinary, MemoryInv, NEW t \in Thread, NEW n \in Name, NEW b \in Resource, b \notin Owned,
         ~OnDevice(env[t][n]),
         \A u \in Thread, m \in Name :
           IF u = t /\ m = n THEN env'[u][m].home = "owned" /\ env'[u][m].buf = b
                             ELSE env'[u][m] = env[u][m]
  PROVE  RunBufs' = RunBufs \cup {b} /\ OneName' /\ (UNCHANGED handle => ArcBufs' = ArcBufs)
<1>1. env[t][n].home \notin {"owned", "shared"}
  BY DEF OnDevice
<1>2. \A u \in Thread, m \in Name : env[u][m].home = "owned" => env[u][m].buf # b
  BY DEF MemoryInv, LedgerInv, Split, RunBufs
<1>3. RunBufs' = RunBufs \cup {b}
  BY <1>1 DEF RunBufs
<1>4. OneName'
  BY <1>2 DEF MemoryInv, LedgerInv, OneName
<1>5. UNCHANGED handle => ArcBufs' = ArcBufs
  BY <1>1 DEF ArcBufs
<1> QED BY <1>3, <1>4, <1>5

LEMMA EnsureStep ==
  ASSUME Ordinary, MemoryInv, NEW t \in Thread, NEW n \in Name, NEW b, NEW s,
         EnsureDevice(t, n, b, s), UNCHANGED providerVars
  PROVE  MemoryInv'
<1> DEFINE x == [home |-> "owned", buf |-> b, value |-> env[t][n].value]
<1>1. /\ UNCHANGED <<entry, call, host, run, runs, handle, live, tensors>>
      /\ env[t][n].home = "host" /\ run[t].phase = "run" /\ CreateFilled(b, s)
      /\ holds' = [holds EXCEPT ![b][0] = Is(env[t][n].value)]
      /\ env' = [env EXCEPT ![t][n] = x]
  BY DEF EnsureDevice, Running, cacheVars, providerVars
<1>2. /\ b \in Buffer /\ b \in Resource /\ b \in Memory /\ b \notin Owned
      /\ PlaceT' /\ Owned' = Owned \cup {b}
      /\ StreamT' /\ WorkSafe' /\ AttachInv' /\ InUse' \cap Pipeline \subseteq InUse
  BY <1>1, Filled DEF MemoryInv, TypeInv, WorkInv
<1>3. env[t][n].value \in Value
  BY <1>1, EnvIs, AbsentIs DEF MemoryInv, TypeInv, OnDevice
<1>4. x \in {Absent} \cup Typed
  BY <1>2, <1>3 DEF Typed
<1>5. EnvT' /\ \A u \in Thread, m \in Name :
        env'[u][m] = IF u = t /\ m = n THEN x ELSE env[u][m]
  <2> HIDE DEF x
  <2> QED BY <1>1, <1>4, OneBound DEF MemoryInv, TypeInv
<1>6. HoldsT'
  BY <1>1, <1>2, OneWritten, ZeroOffset DEF MemoryInv, TypeInv
<1>7. FreshInv'
  <2>1. \A i \in DOMAIN Program : i >= run[t].node => Program[i].writes # n
    BY <1>1, AbsentIs DEF MemoryInv, FreshInv
  <2> QED BY <1>1, <1>5, <2>1 DEF MemoryInv, FreshInv
<1>8. RunBufs' = RunBufs \cup {b} /\ OneName' /\ ArcBufs' = ArcBufs
  BY <1>1, <1>2, <1>5, RunGains DEF OnDevice
<1>9. LedgerInv'
  BY <1>1, <1>2, <1>8, SameSets DEF MemoryInv, LedgerInv, Split
<1>10. AddressInv'
  BY <1>1, <1>5 DEF MemoryInv, AddressInv
<1>11. CopiesIdle'
  BY <1>1, <1>2 DEF MemoryInv, WorkInv, CopiesIdle
<1> QED BY <1>1, <1>2, <1>5, <1>6, <1>7, <1>9, <1>10, <1>11, SameTypes, SameRest
        DEF MemoryInv, TypeInv, WorkInv

\* What a run lets go of: the names of it are not bound to what they were.
Keeps(t, names, home) ==
  \A u \in Thread, m \in Name :
    IF u = t /\ m \in names THEN env'[u][m].home # home
                            ELSE env[u][m].home = home => env'[u][m] = env[u][m]

LEMMA ArcsReleased ==
  ASSUME Ordinary, EnvT, NEW t \in Thread, NEW names \in SUBSET Name, UNCHANGED handle,
         Keeps(t, names, "shared"),
         \A u \in Thread, m \in Name : env'[u][m].home = "shared" => env'[u][m] = env[u][m]
  PROVE  ArcBufs' = ArcBufs \ Freed(t, names).deferred
<1>1. Freed(t, names).deferred =
        {b \in SharedIn(t, names) : Arcs(b) \subseteq {<<t, n>> : n \in names}}
  BY FreedIs
<1>2. \A u \in Thread, m \in Name :
        env'[u][m].home = "shared" <=> env[u][m].home = "shared" /\ ~(u = t /\ m \in names)
  BY DEF Keeps
<1>3. ASSUME NEW r \in Resource, r \in ArcBufs' PROVE r \in ArcBufs /\ r \notin Freed(t, names).deferred
  <2>1. r \in ArcBufs
    BY <1>3 DEF ArcBufs
  <2>2. ASSUME NEW h \in Handle, handle[h].home = "shared", handle[h].buf = r
        PROVE  ~(Arcs(r) \subseteq {<<t, n>> : n \in names})
    <3>1. h \in Arcs(r)
      BY <2>2, ArcsAre
    <3>2. h \notin {<<t, n>> : n \in names}
      BY DEF Ordinary
    <3> QED BY <3>1, <3>2
  <2>3. ASSUME NEW u \in Thread, NEW m \in Name, env'[u][m].home = "shared", env'[u][m].buf = r
        PROVE  ~(Arcs(r) \subseteq {<<t, n>> : n \in names})
    <3>1. <<u, m>> \in Arcs(r)
      BY <2>3, ArcsAre
    <3>2. <<u, m>> \notin {<<t, n>> : n \in names}
      BY <1>2, <2>3
    <3> QED BY <3>1, <3>2
  <2> QED BY <1>1, <1>3, <2>1, <2>2, <2>3 DEF ArcBufs
<1>4. ASSUME NEW r \in Resource, r \in ArcBufs, r \notin ArcBufs'
      PROVE  r \in Freed(t, names).deferred
  <2>1. ASSUME NEW x \in Arcs(r) PROVE \E n \in names : x = <<t, n>> /\ env[t][n].home = "shared"
                                                        /\ env[t][n].buf = r
    <3>1. x \notin Handle
      BY <1>4, <2>1, ArcsAre DEF ArcBufs
    <3>2. PICK u \in Thread, m \in Name : x = <<u, m>>
      BY <2>1, <3>1, ArcsAre
    <3>3. env[u][m].home = "shared" /\ env[u][m].buf = r
      BY <2>1, <3>2, ArcsAre
    <3>4. u = t /\ m \in names
      BY <1>2, <1>4, <3>3 DEF ArcBufs
    <3> QED BY <3>2, <3>3, <3>4
  <2>2. PICK x : x \in Arcs(r)
    BY <1>4, ArcsAre
  <2>3. r \in SharedIn(t, names)
    BY <2>1, <2>2 DEF SharedIn
  <2>4. Arcs(r) \subseteq {<<t, n>> : n \in names}
    BY <2>1
  <2> QED BY <1>1, <2>3, <2>4
<1>5. ArcBufs \subseteq Resource /\ ArcBufs' \subseteq Resource
  BY DEF ArcBufs
<1> QED BY <1>3, <1>4, <1>5

LEMMA RunsReleased ==
  ASSUME Ordinary, EnvT, OneName, NEW t \in Thread, NEW names \in SUBSET Name,
         Keeps(t, names, "owned"),
         \A u \in Thread, m \in Name : env'[u][m].home = "owned" => env'[u][m] = env[u][m]
  PROVE  RunBufs' = RunBufs \ Freed(t, names).pool /\ OneName'
<1>1. Freed(t, names).pool = {env[t][n].buf : n \in {m \in names : env[t][m].home = "owned"}}
  BY FreedIs
<1>2. \A u \in Thread, m \in Name :
        env'[u][m].home = "owned" <=> env[u][m].home = "owned" /\ ~(u = t /\ m \in names)
  BY DEF Keeps
<1>3. OneName'
  BY <1>2 DEF OneName
<1>4. ASSUME NEW r \in Resource PROVE r \in RunBufs' <=> r \in RunBufs /\ r \notin Freed(t, names).pool
  <2>1. ASSUME r \in RunBufs' PROVE r \in RunBufs /\ r \notin Freed(t, names).pool
    <3>1. PICK u \in Thread, m \in Name : env'[u][m].home = "owned" /\ env'[u][m].buf = r
      BY <2>1 DEF RunBufs
    <3>2. env[u][m].home = "owned" /\ env[u][m].buf = r /\ ~(u = t /\ m \in names)
      BY <1>2, <3>1
    <3>3. \A n \in names : env[t][n].home = "owned" => env[t][n].buf # r
      BY <3>2 DEF OneName
    <3> QED BY <1>1, <3>2, <3>3 DEF RunBufs
  <2>2. ASSUME r \in RunBufs, r \notin Freed(t, names).pool PROVE r \in RunBufs'
    <3>1. PICK u \in Thread, m \in Name : env[u][m].home = "owned" /\ env[u][m].buf = r
      BY <2>2 DEF RunBufs
    <3>2. ~(u = t /\ m \in names)
      BY <1>1, <2>2, <3>1
    <3>3. env'[u][m] = env[u][m]
      BY <3>1, <3>2 DEF Keeps
    <3> QED BY <3>1, <3>3 DEF RunBufs
  <2> QED BY <2>1, <2>2
<1>5. RunBufs \subseteq Resource /\ RunBufs' \subseteq Resource
  BY DEF RunBufs
<1> QED BY <1>3, <1>4, <1>5

\* The environment of a run is given up, and what is pooled with it.
LEMMA ReleaseStep ==
  ASSUME Ordinary, MemoryInv, NEW t \in Thread, NEW subs, NEW carried,
         ReleaseOwned(t, subs, carried), ~Building(t),
         UNCHANGED <<newest, uses, holds, cacheVars, host, runs, handle, providerVars>>,
         recording' \in {recording, FALSE},
         Attached(subs, carried, newest, recording', uses, place),
         subs = <<>> \/ (recording' => uses[newest] \cap Given(t) = {})
  PROVE  /\ MemoryInv'
         /\ \A u \in Thread, m \in Name : env'[u][m] = IF u = t THEN Absent ELSE env[u][m]
<1>1. UNCHANGED <<newest, uses, entry, call, live, tensors, host>>
  BY DEF cacheVars, providerVars
<1> DEFINE f == [n \in Name |-> Absent]
           given == Freed(t, Name).deferred \cup OwnedBy(t)
<1>2. /\ env' = [env EXCEPT ![t] = f] /\ run' = [run EXCEPT ![t] = NoRun]
      /\ place' = [m \in Memory |-> IF m \in given \/ (m \in Buffer /\ place[m] = "pool")
                                      THEN "deferred" ELSE place[m]]
      /\ Given(t) = given \cup {b \in Buffer : place[b] = "pool"}
      /\ DeferDestroy(subs, carried, Given(t))
  BY DEF ReleaseOwned, Given
<1>3. f \in [Name -> {Absent} \cup Typed] /\ \A m \in Name : f[m] = Absent
  OBVIOUS
<1> HIDE DEF f
<1>4. EnvT' /\ \A u \in Thread, m \in Name : env'[u][m] = IF u = t THEN Absent ELSE env[u][m]
  <2>1. EnvT
    BY DEF MemoryInv, TypeInv
  <2>2. EnvT' /\ \A u \in Thread, m \in Name : env'[u][m] = IF u = t THEN f[m] ELSE env[u][m]
    BY <1>1, <1>2, <1>3, <2>1, AllBound
  <2> QED BY <1>3, <2>2
<1>5. DOMAIN run' = Thread /\ \A u \in Thread : run'[u] = IF u = t THEN NoRun ELSE run[u]
  BY <1>2 DEF MemoryInv, TypeInv, RunT
<1>6. RunT'
  BY <1>5 DEF MemoryInv, TypeInv, RunT, RunIs
<1>7. FreshInv'
  <2>1. \A m \in Name : env'[t][m] = Absent
    BY <1>4
  <2>2. run'[t].phase = "idle"
    BY <1>5, AbsentIs
  <2>3. \A u \in Thread \ {t} : run'[u] = run[u] /\ \A m \in Name : env'[u][m] = env[u][m]
    BY <1>4, <1>5
  <2>4. \A i \in DOMAIN Program : Program[i].writes \in Name
    BY DEF Ordinary, Name
  <2> QED BY <2>1, <2>2, <2>3, <2>4 DEF MemoryInv, FreshInv
<1>8. CallInv'
  BY <1>1, <1>5 DEF MemoryInv, CallInv, Building, Cached
<1>9. given \subseteq Buffer
  BY FreedIs DEF MemoryInv, TypeInv
<1>10. OwnedBy(t) = Freed(t, Name).pool
  BY FreedIs DEF OwnedBy, MemoryInv, TypeInv
<1>11. ArcBufs' = ArcBufs \ Freed(t, Name).deferred
  <2>1. Keeps(t, Name, "shared")
    BY <1>4, AbsentIs DEF Keeps
  <2> QED BY <1>4, <2>1, AbsentIs, ArcsReleased DEF MemoryInv, TypeInv
<1>12. RunBufs' = RunBufs \ Freed(t, Name).pool /\ OneName'
  <2>1. Keeps(t, Name, "owned")
    BY <1>4, AbsentIs DEF Keeps
  <2> QED BY <1>4, <2>1, AbsentIs, RunsReleased DEF MemoryInv, TypeInv, LedgerInv
<1>13. Owned' = Owned \ given
  BY <1>2, Kinds DEF Owned
<1>14. Freed(t, Name).pool \subseteq RunBufs /\ Freed(t, Name).deferred \subseteq ArcBufs
  <2>1. Freed(t, Name).pool \subseteq RunBufs
    BY <1>9, <1>10, Kinds DEF OwnedBy, RunBufs
  <2>2. Freed(t, Name).deferred \subseteq ArcBufs
    BY <1>9, FreedIs, Kinds DEF SharedIn, ArcBufs, MemoryInv, TypeInv
  <2> QED BY <2>1, <2>2
<1>15. LedgerInv'
  BY <1>1, <1>10, <1>11, <1>12, <1>13, <1>14, SameSets DEF MemoryInv, LedgerInv, Split
<1>16. PlaceT'
  <2>1. \A m \in Memory : place'[m] \in {"none", "owned", "pool", "deferred"}
    BY <1>2 DEF MemoryInv, TypeInv, PlaceT
  <2>2. \A p \in Pipeline : place'[p] = place[p]
    BY <1>2, <1>9, Kinds
  <2> QED BY <1>2, <2>1, <2>2 DEF MemoryInv, TypeInv, PlaceT
<1>17. StreamT' /\ InUse' = InUse
  <2>1. InUse' = InUse
    BY DEF InUse, Stream!InUse
  <2>2. CASE recording' = recording
    BY <1>1, <2>1, <2>2 DEF MemoryInv, WorkInv, StreamT
  <2>3. CASE recording' = FALSE
    BY <1>1, <2>1, <2>3 DEF MemoryInv, WorkInv, StreamT
  <2> QED BY <2>1, <2>2, <2>3
<1>18. WorkSafe'
  <2>1. \A m \in Memory : place'[m] = place[m] \/ place'[m] = "deferred"
    BY <1>2
  <2> QED BY <1>17, <2>1 DEF MemoryInv, WorkInv, StreamT, WorkSafe
<1>20. AttachInv'
  <2>1. Given(t) \in SUBSET Memory
    BY <1>2, <1>9, Kinds
  <2>2. \A m \in given : place[m] = "owned"
    BY <1>10, <1>14 DEF MemoryInv, LedgerInv, Split, Owned
  <2>3. /\ \A m \in Given(t) : place[m] # "deferred" /\ place'[m] = "deferred"
        /\ \A m \in Memory : place[m] = "deferred" => place'[m] = "deferred"
    BY <1>2, <2>1, <2>2
  <2>4. Attached(pending', deferred', newest, recording', uses, place')
    BY <1>2, <2>1, <2>3, Defers
  <2> QED BY <1>1, <2>4 DEF AttachInv
<1>19. AddressInv'
  BY <1>1, <1>4, AbsentIs DEF MemoryInv, AddressInv
<1> QED BY <1>1, <1>4, <1>6, <1>7, <1>8, <1>15, <1>16, <1>17, <1>18, <1>19, <1>20, SameTypes, SameRest
        DEF MemoryInv, TypeInv, WorkInv

LEMMA EndStep ==
  ASSUME Ordinary, MemoryInv, NEW t \in Thread, Finish(t) \/ Fail(t), UNCHANGED providerVars
  PROVE  MemoryInv'
<1>1. ~Building(t)
  BY DEF MemoryInv, CallInv, Finish, Fail, Running, Building
<1>2. /\ ReleaseOwned(t, pending, deferred) /\ MayDrop(Recorded, Given(t))
      /\ UNCHANGED <<newest, recording, uses, holds, cacheVars, host, runs, handle>>
  BY DEF Finish, Fail
<1>3. Attached(pending, deferred, newest, recording, uses, place)
  BY DEF MemoryInv, WorkInv, AttachInv
<1>4. pending = <<>> \/ (recording => uses[newest] \cap Given(t) = {})
  BY <1>2 DEF MayDrop, Recorded, Ordinary, OrdinaryUse
<1>5. /\ recording' = recording /\ recording' \in {recording, FALSE}
      /\ UNCHANGED <<newest, uses, holds, cacheVars, host, runs, handle, providerVars>>
  BY <1>2
<1> QED BY <1>1, <1>2, <1>3, <1>4, <1>5, ReleaseStep

\* Whatever a run reads on the device belongs to somebody.
LEMMA OnDeviceOwned ==
  ASSUME Ordinary, MemoryInv, NEW t \in Thread, NEW n \in Name, OnDevice(env[t][n])
  PROVE  env[t][n].buf \in Owned
<1>1. env[t][n].buf \in Resource
  BY EnvIs, Kinds DEF MemoryInv, TypeInv
<1>2. RunBufs \subseteq Owned /\ ArcBufs \subseteq Owned /\ OrtBufs \subseteq Owned
  BY DEF MemoryInv, LedgerInv, Split
<1>3. CASE env[t][n].home = "borrowed"
  BY <1>1, <1>2, <1>3 DEF MemoryInv, AddressInv, OrtBufs
<1>4. CASE env[t][n].home = "owned"
  BY <1>1, <1>2, <1>4 DEF RunBufs
<1>5. CASE env[t][n].home = "shared"
  BY <1>1, <1>2, <1>5 DEF ArcBufs
<1> QED BY <1>3, <1>4, <1>5 DEF OnDevice

LEMMA RunNodeStep ==
  ASSUME Ordinary, MemoryInv, NEW t \in Thread, NEW b \in Buffer, RunNode(t, b),
         UNCHANGED providerVars
  PROVE  MemoryInv'
<1> DEFINE node == Current(t)
           asked == Range(node.asks)
           used == {Entry(a) : a \in asked} \cup {x.buf : x \in {env[t][n] : n \in node.reads}}
                     \cup {b}
           freed == Freed(t, node.dead)
           x == [home |-> "owned", buf |-> b,
                 value |-> [run |-> run[t].id, name |-> node.writes]]
           f == [n \in Name |-> CASE n = node.writes -> x
                                  [] n \in node.dead -> Absent
                                  [] OTHER -> env[t][n]]
<1>1. /\ UNCHANGED <<entry, call, host, runs, handle, live, tensors>>
      /\ run[t].phase = "run" /\ call[t].stage = "none"
      /\ \A a \in asked : Cached(a)
      /\ \A n \in node.reads : OnDevice(env[t][n])
      /\ b \in Obtainable(Buffer)
      /\ Stream!Append(used)
      /\ MayDrop(Recorded \cup used, freed.deferred)
      /\ DeferDestroy(pending, deferred, freed.deferred)
      /\ place' = [m \in Memory |-> CASE m = b -> "owned"
                                      [] m \in freed.pool -> "pool"
                                      [] m \in freed.deferred -> "deferred"
                                      [] OTHER -> place[m]]
      /\ env' = [env EXCEPT ![t] = f]
      /\ Advance(t)
  BY DEF RunNode, Running, cacheVars, providerVars
<1>2. PICK v : holds' = [holds EXCEPT ![b][0] = v]
  BY DEF RunNode
<1>3. /\ run[t].node \in DOMAIN Program /\ DOMAIN Program = 1 .. Len(Program)
      /\ Len(Program) \in Nat /\ run[t].node \in Nat
      /\ run[t].id \in 1 .. runs /\ runs \in Nat
      /\ node.reads \subseteq Name /\ node.dead \subseteq Name
      /\ node.writes \in Name /\ node.writes \notin Inputs /\ node.writes \notin node.dead
      /\ asked \subseteq Ask
  BY <1>1, NodeIs DEF MemoryInv, TypeInv
<1>4. b \in Resource /\ b \in Memory /\ b \notin Owned /\ b \notin Pipeline
  BY <1>1, ObtainableIs, Kinds DEF Owned
<1>5. \A i \in DOMAIN Program : i >= run[t].node => env[t][Program[i].writes] = Absent
  BY <1>1 DEF MemoryInv, FreshInv
<1>6. env[t][node.writes] = Absent
  BY <1>3, <1>5 DEF Current
<1>7. x \in {Absent} \cup Typed
  <2>1. [run |-> run[t].id, name |-> node.writes] \in Value
    BY <1>3 DEF Value, MemoryInv, TypeInv, RunT, Ordinary
  <2> QED BY <1>4, <2>1 DEF Typed
<1>8. /\ f \in [Name -> {Absent} \cup Typed]
      /\ \A n \in Name : f[n] = IF n = node.writes THEN x
                                ELSE IF n \in node.dead THEN Absent ELSE env[t][n]
  <2> HIDE DEF x, node
  <2>1. env[t] \in [Name -> {Absent} \cup Typed]
    BY DEF MemoryInv, TypeInv, EnvT
  <2>2. \A n \in Name : f[n] = IF n = node.writes THEN x
                               ELSE IF n \in node.dead THEN Absent ELSE env[t][n]
    BY <1>3
  <2>3. f = [n \in Name |-> f[n]]
    OBVIOUS
  <2> HIDE DEF f
  <2>4. \A n \in Name : f[n] \in {Absent} \cup Typed
    BY <1>7, <2>1, <2>2
  <2> QED BY <2>2, <2>3, <2>4
<1>9. x.home = "owned" /\ x.buf = b
  OBVIOUS
<1>10. EnvT' /\ \A u \in Thread, m \in Name : env'[u][m] = IF u = t THEN f[m] ELSE env[u][m]
  <2> HIDE DEF f
  <2>1. EnvT
    BY DEF MemoryInv, TypeInv
  <2> QED BY <1>1, <1>8, <2>1, AllBound
<1> HIDE DEF f, x, used, freed
<1>11. /\ DOMAIN run' = Thread
       /\ \A u \in Thread \ {t} : run'[u] = run[u]
       /\ run'[t].node = run[t].node + 1 /\ run'[t].id = run[t].id
       /\ \/ run[t].node = Len(Program) /\ run'[t].phase = "done"
          \/ run[t].node # Len(Program) /\ run'[t].phase = "run"
       /\ run'[t] \in [phase : {"inputs", "run", "done", "written"}, id : Nat, node : Nat]
  <2>1. /\ DOMAIN run = Thread
        /\ run[t] \in [phase : {"inputs", "run", "done", "written"}, id : Nat, node : Nat]
    BY <1>1, AbsentIs DEF MemoryInv, TypeInv, RunT, RunIs
  <2>2. run' = [run EXCEPT ![t].node = run[t].node + 1,
                           ![t].phase = IF run[t].node = Len(Program) THEN "done" ELSE "run"]
    BY <1>1 DEF Advance
  <2>3. run'[t] = [phase |-> IF run[t].node = Len(Program) THEN "done" ELSE "run",
                   id |-> run[t].id, node |-> run[t].node + 1]
    BY <2>1, <2>2
  <2>4. DOMAIN run' = Thread /\ \A u \in Thread \ {t} : run'[u] = run[u]
    BY <2>1, <2>2
  <2> QED BY <1>3, <2>1, <2>3, <2>4
<1>12. RunT'
  <2>1. /\ run'[t].id \in 1 .. runs'
        /\ run'[t].phase = "run" => run'[t].node \in DOMAIN Program
    <3>1. runs' = runs
      BY <1>1
    <3>2. run'[t].phase = "run" => run[t].node # Len(Program)
      BY <1>11
    <3>3. run[t].node # Len(Program) => run[t].node + 1 \in 1 .. Len(Program)
      BY <1>3
    <3> QED BY <1>3, <1>11, <3>1, <3>2, <3>3
  <2>3. RunIs(t)'
    BY <1>11, <2>1 DEF RunIs
  <2>2. \A u \in Thread \ {t} : RunIs(u)'
    BY <1>1, <1>11 DEF MemoryInv, TypeInv, RunT, RunIs
  <2> QED BY <1>1, <1>11, <2>2, <2>3 DEF MemoryInv, TypeInv, RunT
<1>13. FreshInv'
  <2>1. \A i \in DOMAIN Program : Program[i].writes \in Name
    BY DEF Ordinary, Name
  <2>2. \A u \in Thread \ {t} : run'[u] = run[u] /\ \A m \in Name : env'[u][m] = env[u][m]
    BY <1>10, <1>11
  <2>3. \A i \in DOMAIN Program : i >= run[t].node + 1 =>
          /\ i >= run[t].node /\ Program[i].writes # node.writes
    BY <1>3 DEF Ordinary, Current
  <2>4. \A i \in DOMAIN Program : i >= run[t].node + 1 => env'[t][Program[i].writes] = Absent
    BY <1>5, <1>8, <1>10, <2>1, <2>3
  <2>5. run'[t].phase # "idle" /\ run'[t].phase # "inputs" /\ run'[t].node = run[t].node + 1
    BY <1>11
  <2> QED BY <2>1, <2>2, <2>4, <2>5 DEF MemoryInv, FreshInv
<1>14. CallInv'
  BY <1>1, <1>11 DEF MemoryInv, CallInv, Building, Cached
<1>15. freed.pool \subseteq Buffer /\ freed.deferred \subseteq Buffer
       /\ freed.pool = {env[t][n].buf : n \in {m \in node.dead : env[t][m].home = "owned"}}
       /\ freed.deferred \subseteq SharedIn(t, node.dead)
  BY <1>3, FreedIs DEF MemoryInv, TypeInv, freed
<1>16. freed.pool \subseteq RunBufs /\ freed.deferred \subseteq ArcBufs
  <2>1. freed.pool \subseteq RunBufs
    BY <1>3, <1>15, Kinds DEF RunBufs
  <2>2. freed.deferred \subseteq ArcBufs
    BY <1>3, <1>15, Kinds DEF SharedIn, ArcBufs
  <2> QED BY <2>1, <2>2
<1> HIDE DEF node
<1>17. ArcBufs' = ArcBufs \ freed.deferred
  <2>1. Keeps(t, node.dead, "shared")
    BY <1>6, <1>8, <1>9, <1>10, AbsentIs DEF Keeps
  <2>2. \A u \in Thread, m \in Name : env'[u][m].home = "shared" => env'[u][m] = env[u][m]
    BY <1>8, <1>9, <1>10, AbsentIs
  <2> QED BY <1>1, <1>3, <2>1, <2>2, ArcsReleased DEF MemoryInv, TypeInv, freed
<1>18. RunBufs' = (RunBufs \ freed.pool) \cup {b} /\ OneName'
  <2>1. \A u \in Thread, m \in Name : env'[u][m].home = "owned" <=>
          \/ u = t /\ m = node.writes
          \/ env[u][m].home = "owned" /\ ~(u = t /\ m \in node.dead)
    BY <1>6, <1>8, <1>9, <1>10, AbsentIs
  <2>2. \A u \in Thread, m \in Name : env'[u][m].home = "owned" /\ ~(u = t /\ m = node.writes) =>
          env'[u][m] = env[u][m]
    BY <1>8, <1>9, <1>10, AbsentIs
  <2>3. \A u \in Thread, m \in Name : env[u][m].home = "owned" => env[u][m].buf # b
    BY <1>4 DEF MemoryInv, LedgerInv, Split, RunBufs
  <2>4. env'[t][node.writes].buf = b
    BY <1>3, <1>8, <1>9, <1>10
  <2>5. OneName'
    BY <2>1, <2>2, <2>3, <2>4 DEF MemoryInv, LedgerInv, OneName
  <2>6. ASSUME NEW r \in Resource, r \in RunBufs' PROVE r = b \/ (r \in RunBufs /\ r \notin freed.pool)
    <3>1. PICK u \in Thread, m \in Name : env'[u][m].home = "owned" /\ env'[u][m].buf = r
      BY <2>6 DEF RunBufs
    <3>2. CASE u = t /\ m = node.writes
      BY <2>4, <3>1, <3>2
    <3>3. CASE ~(u = t /\ m = node.writes)
      <4>1. env[u][m].home = "owned" /\ env[u][m].buf = r /\ ~(u = t /\ m \in node.dead)
        BY <2>1, <2>2, <3>1, <3>3
      <4>2. \A n \in node.dead : env[t][n].home = "owned" => env[t][n].buf # r
        BY <1>3, <4>1 DEF MemoryInv, LedgerInv, OneName
      <4> QED BY <1>15, <4>1, <4>2 DEF RunBufs
    <3> QED BY <3>2, <3>3
  <2>7. ASSUME NEW r \in Resource, r \in RunBufs, r \notin freed.pool PROVE r \in RunBufs'
    <3>1. PICK u \in Thread, m \in Name : env[u][m].home = "owned" /\ env[u][m].buf = r
      BY <2>7 DEF RunBufs
    <3>2. ~(u = t /\ m \in node.dead)
      BY <1>15, <2>7, <3>1
    <3>3. env'[u][m].home = "owned"
      BY <2>1, <3>1, <3>2
    <3>4. ~(u = t /\ m = node.writes)
      BY <1>6, <3>1, AbsentIs
    <3>5. env'[u][m] = env[u][m]
      BY <2>2, <3>3, <3>4
    <3> QED BY <3>1, <3>5 DEF RunBufs
  <2>8. b \in RunBufs'
    BY <1>3, <1>4, <2>1, <2>4 DEF RunBufs
  <2>9. RunBufs' \subseteq Resource /\ RunBufs \subseteq Resource /\ b \notin freed.pool
    BY <1>4, <1>16 DEF RunBufs, MemoryInv, LedgerInv, Split
  <2> QED BY <2>5, <2>6, <2>7, <2>8, <2>9
<1>19. Owned' = (Owned \ (freed.pool \cup freed.deferred)) \cup {b}
  <2>1. b \notin freed.pool /\ b \notin freed.deferred /\ freed.pool \cap freed.deferred = {}
    BY <1>4, <1>16 DEF MemoryInv, LedgerInv, Split
  <2>2. \A m \in Memory : place'[m] = IF m = b THEN "owned" ELSE IF m \in freed.pool THEN "pool"
                                      ELSE IF m \in freed.deferred THEN "deferred" ELSE place[m]
    BY <1>1, <2>1
  <2> QED BY <1>4, <2>1, <2>2, Kinds DEF Owned
<1>20. LedgerInv'
  BY <1>1, <1>4, <1>16, <1>17, <1>18, <1>19, SameSets DEF MemoryInv, LedgerInv, Split
<1>21. PlaceT'
  <2>1. \A m \in Memory : place'[m] \in {"none", "owned", "pool", "deferred"}
    BY <1>1 DEF MemoryInv, TypeInv, PlaceT
  <2>2. \A p \in Pipeline : place'[p] = place[p]
    BY <1>1, <1>4, <1>15, Kinds
  <2> QED BY <1>1, <2>1, <2>2 DEF MemoryInv, TypeInv, PlaceT
<1>22. HoldsT'
  BY <1>2, <1>4, OneWritten, ZeroOffset DEF MemoryInv, TypeInv
<1>23. used \subseteq Owned \cup {b}
  <2>1. \A a \in asked : Entry(a) \in Owned
    BY <1>1 DEF Cached, Entry, CacheBufs, MemoryInv, LedgerInv, Split
  <2>2. ASSUME NEW n \in node.reads PROVE env[t][n].buf \in Owned
    BY <1>1, <1>3, <2>2, OnDeviceOwned
  <2> QED BY <2>1, <2>2 DEF used
<1>24. StreamT' /\ InUse' \subseteq InUse \cup used
  <2>1. used \in SUBSET Memory
    BY <1>4, <1>23, Kinds DEF Owned
  <2> QED BY <1>1, <2>1, AppendWork DEF MemoryInv, WorkInv
<1>25. WorkSafe'
  <2>1. \A m \in Memory : /\ place'[m] = "none" => m # b /\ place[m] = "none"
                          /\ m \in Staging => place'[m] = place[m]
    BY <1>1, <1>4, <1>15, Kinds
  <2>2. \A m \in InUse' : m \in Memory /\ (m \in InUse \/ m = b \/ m \in Owned)
    BY <1>4, <1>23, <1>24, Kinds DEF Owned, MemoryInv, WorkInv, StreamT
  <2>3. b \notin Staging /\ \A m \in InUse : place[m] # "none" /\ (m \in Staging => place[m] # "pool")
    BY <1>4, Kinds DEF MemoryInv, WorkInv, WorkSafe
  <2>4. \A m \in InUse' : place'[m] # "none" /\ (m \in Staging => place'[m] # "pool")
    <3>1. \A m \in Owned : place[m] = "owned" /\ m \notin Staging
      BY Kinds DEF Owned
    <3>2. ASSUME NEW m \in InUse' PROVE place[m] # "none" \/ m = b
      BY <2>2, <2>3, <3>1, <3>2
    <3>3. ASSUME NEW m \in InUse', m \in Staging PROVE place[m] # "pool" /\ place'[m] = place[m]
      BY <2>1, <2>2, <2>3, <3>1, <3>3
    <3> QED BY <2>1, <2>2, <3>2, <3>3
  <2> QED BY <2>4 DEF WorkSafe
<1>28. AttachInv'
  <2> DEFINE ms == freed.deferred
  <2>1. used \in SUBSET Memory /\ \A m \in used : place[m] # "deferred"
    BY <1>1, <1>4, <1>23, ObtainableIs, Kinds DEF Owned
  <2>2. /\ Attached(pending, deferred, newest', recording', uses', place)
        /\ recording' = TRUE /\ uses'[newest'] = used \cup Recorded
    BY <1>1, <2>1, Appends DEF MemoryInv, WorkInv
  <2>3. /\ ms \in SUBSET Memory /\ b \notin ms /\ ms \cap freed.pool = {}
        /\ \A m \in ms : place[m] = "owned"
    BY <1>4, <1>15, <1>16, Kinds DEF MemoryInv, LedgerInv, Split, Owned
  <2>4. /\ \A m \in ms : place'[m] = "deferred"
        /\ \A m \in Memory : place[m] = "deferred" => place'[m] = "deferred"
    <3>1. b \in Owned' /\ place[b] # "deferred"
      BY <1>1, <1>19, ObtainableIs
    <3>2. \A m \in freed.pool : place[m] = "owned"
      BY <1>16 DEF MemoryInv, LedgerInv, Split, Owned
    <3> QED BY <1>1, <2>3, <3>1, <3>2
  <2>5. pending = <<>> \/ uses'[newest'] \cap ms = {}
    BY <1>1, <2>2 DEF MayDrop, Ordinary, OrdinaryUse
  <2>6. DeferDestroy(pending, deferred, ms) /\ \A m \in ms : place[m] # "deferred"
    BY <1>1, <2>3
  <2> HIDE DEF ms
  <2>7. Attached(pending', deferred', newest', recording', uses', place')
    BY <2>2, <2>3, <2>4, <2>5, <2>6, Defers
  <2> QED BY <2>7 DEF AttachInv
<1>26. CopiesIdle'
  <2> SUFFICES ASSUME NEW u \in Thread, call[u].stage = "insert", call[u].copy \in Pipeline
               PROVE  call[u].copy \notin used
    BY <1>1, <1>24 DEF MemoryInv, WorkInv, CopiesIdle
  <2>1. call[u].copy \in BuiltBufs
    BY Kinds DEF BuiltBufs
  <2>2. call[u].copy # b
    BY <1>4
  <2>3. \A a \in asked : Entry(a) # call[u].copy
    BY <1>1, <2>1 DEF Cached, Entry, CacheBufs, MemoryInv, LedgerInv, Split
  <2>4. \A n \in node.reads : env[t][n].buf # call[u].copy
    BY <1>1, <1>3, EnvIs, Kinds DEF MemoryInv, TypeInv
  <2> QED BY <2>2, <2>3, <2>4 DEF used
<1>27. AddressInv'
  <2>1. \A u \in Thread, m \in Name : env'[u][m].home = "borrowed" => env'[u][m] = env[u][m]
    BY <1>8, <1>9, <1>10, AbsentIs
  <2> QED BY <1>1, <2>1 DEF MemoryInv, AddressInv
<1> QED BY <1>1, <1>10, <1>12, <1>13, <1>14, <1>20, <1>21, <1>22, <1>24, <1>25, <1>26, <1>27, <1>28,
           SameTypes, SameRest DEF MemoryInv, TypeInv, WorkInv

LEMMA TakeStep ==
  ASSUME Ordinary, MemoryInv, NEW t \in Thread, NEW n \in Name, NEW h \in Handle, Take(t, n, h),
         UNCHANGED providerVars
  PROVE  MemoryInv'
<1> DEFINE b == env[t][n].buf
           x == [home |-> "shared", buf |-> b, value |-> env[t][n].value]
<1>1. /\ UNCHANGED <<newest, recording, uses, place, pending, deferred, holds, entry, call>>
      /\ UNCHANGED <<host, run, runs, live, tensors>>
      /\ env[t][n].home = "owned" /\ handle[h] = Absent
      /\ handle' = [handle EXCEPT ![h] = x] /\ env' = [env EXCEPT ![t][n] = Absent]
  BY DEF Take, streamVars, cacheVars, providerVars
<1>2. b \in Buffer /\ b \in Resource /\ env[t][n].value \in Value
  BY <1>1, EnvIs, Kinds DEF OnDevice, MemoryInv, TypeInv
<1>3. EnvT' /\ \A u \in Thread, m \in Name :
        env'[u][m] = IF u = t /\ m = n THEN Absent ELSE env[u][m]
  <2>1. EnvT /\ Typed' = Typed
    BY <1>1 DEF MemoryInv, TypeInv, Value, Typed
  <2>2. env' = [env EXCEPT ![t][n] = Absent]
    BY <1>1
  <2> HIDE DEF b
  <2> QED BY <2>1, <2>2 DEF EnvT
<1>4. x \in [home : {"shared"}, buf : Buffer, value : Value] /\ x.home = "shared" /\ x.buf = b
  BY <1>2
<1> HIDE DEF x
<1>5. Value' = Value
  BY <1>1 DEF Value
<1>6. /\ HandleT'
      /\ \A g \in Handle : handle'[g] = IF g = h THEN x ELSE handle[g]
  BY <1>1, <1>4, <1>5 DEF MemoryInv, TypeInv, HandleT
<1>7. FreshInv'
  <2>1. \A i \in DOMAIN Program : Program[i].writes \in Name
    BY DEF Ordinary, Name
  <2> QED BY <1>1, <1>3, <2>1 DEF MemoryInv, FreshInv
<1>8. RunBufs' = RunBufs \ {b} /\ b \in RunBufs /\ OneName'
  <2>1. \A u \in Thread, m \in Name :
          /\ env'[u][m].home = "owned" => env[u][m] = env'[u][m] /\ ~(u = t /\ m = n)
          /\ env[u][m].home = "owned" /\ ~(u = t /\ m = n) => env[u][m] = env'[u][m]
    BY <1>3, AbsentIs
  <2>2. OneName'
    BY <2>1 DEF MemoryInv, LedgerInv, OneName
  <2>3. ASSUME NEW r \in Resource PROVE r \in RunBufs' <=> r \in RunBufs /\ r # b
    <3>1. ASSUME NEW u \in Thread, NEW m \in Name, env[u][m].home = "owned", env[u][m].buf = r, r # b
          PROVE  env'[u][m].home = "owned" /\ env'[u][m].buf = r
      BY <2>1, <3>1
    <3>2. ASSUME NEW u \in Thread, NEW m \in Name, env'[u][m].home = "owned", env'[u][m].buf = r
          PROVE  env[u][m].home = "owned" /\ env[u][m].buf = r /\ r # b
      <4>1. env[u][m] = env'[u][m] /\ ~(u = t /\ m = n)
        BY <2>1, <3>2
      <4> QED BY <1>1, <3>2, <4>1 DEF MemoryInv, LedgerInv, OneName
    <3> HIDE DEF b
    <3> QED BY <3>1, <3>2 DEF RunBufs
  <2>4. b \in RunBufs
    BY <1>1, <1>2 DEF RunBufs
  <2>5. RunBufs \subseteq Resource /\ RunBufs' \subseteq Resource
    BY DEF RunBufs
  <2> HIDE DEF b
  <2> QED BY <2>2, <2>3, <2>4, <2>5
<1>9. ArcBufs' = ArcBufs \cup {b}
  <2>1. \A u \in Thread, m \in Name : env'[u][m].home = "shared" <=> env[u][m].home = "shared"
    BY <1>1, <1>3, AbsentIs
  <2>2. \A u \in Thread, m \in Name : env[u][m].home = "shared" => env'[u][m] = env[u][m]
    BY <1>1, <1>3, AbsentIs
  <2>3. \A g \in Handle : handle[g].home = "shared" => handle'[g] = handle[g] /\ g # h
    BY <1>1, <1>6, AbsentIs
  <2> HIDE DEF b
  <2> QED BY <1>2, <1>4, <1>6, <2>1, <2>2, <2>3 DEF ArcBufs
<1>10. LedgerInv'
  <2> HIDE DEF b
  <2> QED BY <1>1, <1>8, <1>9, SameSets DEF MemoryInv, LedgerInv, Split
<1>11. AddressInv'
  BY <1>1, <1>3, AbsentIs DEF MemoryInv, AddressInv
<1> QED BY <1>1, <1>3, <1>6, <1>7, <1>10, <1>11, SameTypes, SameRest
        DEF MemoryInv, TypeInv, WorkInv

LEMMA CloneStep ==
  ASSUME Ordinary, MemoryInv, NEW h \in Handle, NEW g \in Handle, CloneHandle(h, g),
         UNCHANGED providerVars
  PROVE  MemoryInv'
<1>1. /\ UNCHANGED <<newest, recording, uses, place, pending, deferred, holds, entry, call>>
      /\ UNCHANGED <<host, run, runs, env, live, tensors>>
      /\ handle[h] # Absent /\ handle[g] = Absent /\ handle' = [handle EXCEPT ![g] = handle[h]]
  BY DEF CloneHandle, streamVars, cacheVars, providerVars
<1>2. /\ HandleT'
      /\ \A i \in Handle : handle'[i] = IF i = g THEN handle[h] ELSE handle[i]
  BY <1>1 DEF MemoryInv, TypeInv, HandleT, Value
<1>3. ArcBufs' = ArcBufs
  <2>1. handle[h].home = "shared" /\ handle[g].home = "absent"
    BY <1>1, HandleIs, AbsentIs DEF MemoryInv, TypeInv
  <2> QED BY <1>1, <1>2, <2>1 DEF ArcBufs
<1> QED BY <1>1, <1>2, <1>3, SameTypes, SameSets, SameRest
        DEF MemoryInv, TypeInv, LedgerInv, WorkInv

LEMMA DropHandleStep ==
  ASSUME Ordinary, MemoryInv, NEW h \in Handle, DropHandle(h), UNCHANGED providerVars
  PROVE  MemoryInv'
<1> DEFINE b == handle[h].buf
           last == Arcs(b) = {h}
           given == IF last THEN {b} ELSE {}
<1>1. /\ UNCHANGED <<newest, recording, uses, holds, entry, call>>
      /\ UNCHANGED <<host, run, runs, env, live, tensors>>
      /\ handle[h] # Absent /\ handle' = [handle EXCEPT ![h] = Absent]
      /\ place' = [m \in Memory |-> IF m \in given THEN "deferred" ELSE place[m]]
      /\ MayDrop(Recorded, given) /\ DeferDestroy(pending, deferred, given)
  BY DEF DropHandle, cacheVars, providerVars
<1>2. handle[h].home = "shared" /\ b \in Buffer /\ b \in Resource /\ b \in Memory /\ b \notin Pipeline
  BY <1>1, HandleIs, Kinds DEF MemoryInv, TypeInv
<1>3. /\ HandleT'
      /\ \A i \in Handle : handle'[i] = IF i = h THEN Absent ELSE handle[i]
  BY <1>1 DEF MemoryInv, TypeInv, HandleT, Value
<1>4. b \in ArcBufs /\ b \in Owned /\ place[b] = "owned"
  <2>1. b \in ArcBufs
    BY <1>2 DEF ArcBufs
  <2> QED BY <2>1 DEF MemoryInv, LedgerInv, Split, Owned
<1>5. ArcBufs' = IF last THEN ArcBufs \ {b} ELSE ArcBufs
  <2>1. ASSUME NEW r \in Resource, r # b PROVE r \in ArcBufs' <=> r \in ArcBufs
    BY <1>1, <1>2, <1>3, <2>1, AbsentIs DEF ArcBufs
  <2>2. \A u \in Thread, m \in Name : <<u, m>> \in Thread \X Name /\ <<u, m>> # h
    BY DEF Ordinary
  <2>3. ASSUME last PROVE b \notin ArcBufs'
    <3>1. \A g \in Handle : g # h => ~(handle[g].home = "shared" /\ handle[g].buf = b)
      BY <2>3, ArcsAre
    <3>2. \A u \in Thread, m \in Name : ~(env[u][m].home = "shared" /\ env[u][m].buf = b)
      BY <2>2, <2>3, ArcsAre
    <3> QED BY <1>1, <1>3, <3>1, <3>2, AbsentIs DEF ArcBufs
  <2>4. ASSUME ~last PROVE b \in ArcBufs'
    <3>1. h \in Arcs(b)
      BY <1>2, ArcsAre
    <3>2. PICK x \in Arcs(b) : x # h
      BY <2>4, <3>1
    <3>3. CASE x \in Handle
      BY <1>2, <1>3, <3>2, <3>3, ArcsAre DEF ArcBufs
    <3>4. CASE \E u \in Thread, m \in Name : x = <<u, m>>
      BY <1>1, <1>2, <3>2, <3>4, ArcsAre DEF ArcBufs
    <3> QED BY <3>2, <3>3, <3>4, ArcsAre
  <2>5. ArcBufs \subseteq Resource /\ ArcBufs' \subseteq Resource
    BY DEF ArcBufs
  <2> HIDE DEF last, b
  <2> QED BY <1>4, <2>1, <2>3, <2>4, <2>5
<1>11. given \in SUBSET Memory /\ \A m \in given : m = b
  BY <1>2
<1> HIDE DEF last, b
<1>6. /\ DOMAIN place' = Memory
      /\ \A m \in Memory : place'[m] = IF m = b /\ last THEN "deferred" ELSE place[m]
  BY <1>1
<1>7. PlaceT'
  BY <1>1, <1>2, <1>6, Kinds DEF MemoryInv, TypeInv, PlaceT
<1>8. Owned' = IF last THEN Owned \ {b} ELSE Owned
  BY <1>2, <1>6, Kinds DEF Owned
<1>9. LedgerInv'
  BY <1>1, <1>4, <1>5, <1>8, SameSets DEF MemoryInv, LedgerInv, Split
<1>10. WorkSafe'
  <2>1. InUse' = InUse
    BY <1>1 DEF InUse, Stream!InUse
  <2> QED BY <1>6, <2>1 DEF MemoryInv, WorkInv, StreamT, WorkSafe
<1>12. AttachInv'
  <2>1. pending = <<>> \/ given \cap Recorded = {}
    BY <1>1 DEF MayDrop, Ordinary, OrdinaryUse
  <2>2. /\ \A m \in given : place[m] # "deferred" /\ place'[m] = "deferred"
        /\ \A m \in Memory : place[m] = "deferred" => place'[m] = "deferred"
    BY <1>1, <1>4, <1>11
  <2> HIDE DEF given
  <2> QED BY <1>1, <1>11, <2>1, <2>2, GivesUp DEF MemoryInv, WorkInv
<1> QED BY <1>1, <1>3, <1>7, <1>9, <1>10, <1>12, SameTypes, SameRest DEF MemoryInv, TypeInv, WorkInv

----------------------------------------------------------------------------
(* Addresses.                                                              *)

\* An address in the first page of an allocation resolves to that allocation.
LEMMA Resolved ==
  ASSUME Ordinary, LiveT, AddressInv, NEW s \in DOMAIN live, NEW o \in Offset
  PROVE  Resolve(s + o) = <<live[s].buf, o>>
<1> DEFINE p == s + o
           below == {r \in DOMAIN live : r <= p}
<1>1. s \in Nat /\ o \in 0 .. 1 /\ live[s].span \in Nat /\ live[s].span >= 2
  BY LiveIs DEF Offset, Page
<1>2. \A r \in DOMAIN live : r \in Nat
  BY LiveIs
<1>3. s \in below
  BY <1>1
<1>4. ASSUME NEW r \in below, r # s PROVE r < s
  <2>1. r \in DOMAIN live /\ r <= s + o /\ live[r].span \in Nat /\ live[r].span >= 2 /\ r \in Nat
    BY <1>1, <1>4, LiveIs DEF Page
  <2>2. s + live[s].span <= r \/ r + live[r].span <= s
    BY <1>4, <2>1 DEF AddressInv
  <2> QED BY <1>1, <2>1, <2>2
<1>5. Max(below) = s
  <2>1. \A y \in below : s >= y
    BY <1>1, <1>2, <1>4
  <2>2. \A x \in below : (\A y \in below : x >= y) => x = s
    BY <1>1, <1>2, <1>3, <1>4
  <2> HIDE DEF below
  <2> QED BY <1>3, <2>1, <2>2 DEF Max
<1>6. Covers(s, p)
  BY <1>1 DEF Covers
<1>7. p - s = o
  BY <1>1
<1>8. Resolve(p) = IF below # {} /\ Covers(Max(below), p)
                     THEN <<live[Max(below)].buf, p - Max(below)>> ELSE <<>>
  BY DEF Resolve
<1> HIDE DEF below, p
<1>9. Resolve(p) = <<live[s].buf, o>>
  BY <1>3, <1>5, <1>6, <1>7, <1>8
<1> QED BY <1>9 DEF p

\* Where ORT has a tensor, or may put one.
LEMMA PlaceOf ==
  ASSUME Ordinary, LiveT, AddressInv, NEW p \in DOMAIN tensors \cup Vacant
  PROVE  \E s \in DOMAIN live, o \in Offset :
           /\ p = s + o /\ Resolve(p) # <<>> /\ Resolve(p)[1] = live[s].buf /\ Resolve(p)[2] = o
           /\ live[s].buf \in Buffer
<1>1. \E s \in DOMAIN live, o \in Offset : p = s + o
  BY DEF AddressInv, Vacant, Places
<1>2. PICK s \in DOMAIN live, o \in Offset : p = s + o
  BY <1>1
<1>3. Resolve(p) = <<live[s].buf, o>>
  BY <1>2, Resolved
<1> QED BY <1>2, <1>3, LiveIs

\* ORT places one more tensor.
LEMMA Placed ==
  ASSUME Ordinary, LiveT, AddressInv, UNCHANGED <<host, live, env>>,
         NEW p \in Vacant, NEW v \in Value, tensors' = With(tensors, p, v)
  PROVE  LiveT' /\ AddressInv'
<1>1. p \notin DOMAIN tensors /\ \E s \in DOMAIN live, o \in Offset : p = s + o
  BY DEF Vacant, Places
<1>2. /\ DOMAIN tensors' = DOMAIN tensors \cup {p} /\ tensors'[p] = v
      /\ \A q \in DOMAIN tensors : tensors'[q] = tensors[q]
  BY <1>1 DEF With
<1>3. Value' = Value
  BY DEF Value
<1>4. LiveT'
  BY <1>2, <1>3 DEF LiveT
<1> QED BY <1>1, <1>2, <1>4 DEF AddressInv

\* Commands are appended that refer to memory that is there.
LEMMA WorkOn ==
  ASSUME Ordinary, StreamT, WorkSafe, CopiesIdle, NEW M \in SUBSET (Memory \ Pipeline),
         Stream!Append(M), UNCHANGED call,
         \A m \in Memory : place'[m] \in {"none", "pool"} => place'[m] = place[m] /\ m \notin M
  PROVE  StreamT' /\ WorkSafe' /\ CopiesIdle'
<1>1. StreamT' /\ InUse' \subseteq InUse \cup M
  BY AppendWork
<1>2. WorkSafe'
  BY <1>1 DEF WorkSafe, StreamT
<1>3. CopiesIdle'
  BY <1>1 DEF CopiesIdle
<1> QED BY <1>1, <1>2, <1>3

\* A copy between two pieces of memory that somebody owns.
LEMMA CopyWork ==
  ASSUME Ordinary, MemoryInv, UNCHANGED <<place, call>>,
         NEW from \in Memory \ Pipeline, NEW fromOffset, NEW to \in Memory \ Pipeline,
         NEW toOffset \in Offset, place[from] = "owned", place[to] = "owned",
         CopyBytes(from, fromOffset, to, toOffset)
  PROVE  StreamT' /\ WorkSafe' /\ CopiesIdle' /\ AttachInv' /\ HoldsT'
<1>1. StreamT' /\ WorkSafe' /\ CopiesIdle'
  <2>1. {from, to} \in SUBSET (Memory \ Pipeline) /\ Stream!Append({from, to})
    BY DEF CopyBytes
  <2>2. \A m \in Memory : place'[m] \in {"none", "pool"} => place'[m] = place[m] /\ m \notin {from, to}
    OBVIOUS
  <2> QED BY <2>1, <2>2, WorkOn DEF MemoryInv, WorkInv
<1>2. PICK v : holds' = [holds EXCEPT ![to][toOffset] = v]
  BY DEF CopyBytes
<1>3. HoldsT'
  BY <1>2, OneWritten DEF MemoryInv, TypeInv
<1>4. AttachInv'
  <2>1. {from, to} \in SUBSET Memory /\ Stream!Append({from, to}) /\ UNCHANGED <<pending, deferred>>
    BY DEF CopyBytes
  <2>2. \A m \in {from, to} : place[m] # "deferred"
    OBVIOUS
  <2> QED BY <2>1, <2>2, AppendStaysAttached DEF MemoryInv, WorkInv
<1> QED BY <1>1, <1>3, <1>4

LEMMA OrtOwns ==
  ASSUME Ordinary, MemoryInv, NEW s \in DOMAIN live
  PROVE  /\ live[s].buf \in Buffer /\ live[s].buf \in Resource /\ live[s].buf \in Memory
         /\ live[s].buf \notin Pipeline /\ live[s].buf \in Owned /\ place[live[s].buf] = "owned"
<1>1. live[s].buf \in Buffer
  BY LiveIs DEF MemoryInv, TypeInv
<1>2. live[s].buf \in OrtBufs
  BY <1>1, Kinds DEF OrtBufs
<1>3. live[s].buf \in Owned
  BY <1>2 DEF MemoryInv, LedgerInv, Split
<1> QED BY <1>1, <1>3, Kinds DEF Owned

----------------------------------------------------------------------------
(* The actions of the execution provider.                                  *)

LEMMA AllocStep ==
  ASSUME Ordinary, MemoryInv, NEW size \in Sizes, NEW start \in Address, NEW b, Alloc(size, start, b)
  PROVE  MemoryInv'
<1>1. /\ UNCHANGED <<newest, recording, uses, entry, call>>
      /\ UNCHANGED <<host, run, runs, env, handle, tensors>>
      /\ {start + i : i \in 0 .. Span(size) - 1} \subseteq Address
      /\ \A s \in DOMAIN live : start + Span(size) <= s \/ s + live[s].span <= start
      /\ UNCHANGED <<pending, deferred>> /\ b \in Obtainable(Buffer) /\ place' = [place EXCEPT ![b] = "owned"]
      /\ holds' = [holds EXCEPT ![b] = Blank]
      /\ live' = With(live, start, [span |-> Span(size), size |-> size, buf |-> b])
  BY DEF Alloc, Stream!Create, cacheVars, sessionVars
<1>2. /\ b \in Resource /\ b \in Memory /\ b \notin Owned /\ b \in Buffer /\ place[b] # "deferred"
      /\ PlaceT' /\ Owned' = Owned \cup {b}
      /\ \A m \in Memory : place'[m] = IF m = b THEN "owned" ELSE place[m]
  <2>1. Buffer \in SUBSET Resource
    BY Kinds
  <2> QED BY <1>1, <2>1, Created DEF MemoryInv, TypeInv, WorkInv
<1>3. size \in Nat /\ Span(size) \in Nat /\ Span(size) >= 2
  <2>1. size \in Nat
    BY DEF Ordinary
  <2>2. size # 0 => (size + 1) \div 2 >= 1 /\ (size + 1) \div 2 \in Nat
    BY <2>1
  <2> QED BY <2>1, <2>2 DEF Span, Page
<1>4. start \in Nat
  BY DEF Ordinary
<1>5. \A s \in DOMAIN live : s \in Nat /\ live[s].span \in Nat /\ live[s].span >= 2 /\ s # start
  <2>1. \A s \in DOMAIN live : s \in Nat /\ live[s].span \in Nat /\ live[s].span >= 2
    BY LiveIs DEF MemoryInv, TypeInv, Page
  <2> QED BY <1>1, <1>3, <1>4, <2>1
<1>6. /\ DOMAIN live' = DOMAIN live \cup {start}
      /\ live'[start] = [span |-> Span(size), size |-> size, buf |-> b]
      /\ \A s \in DOMAIN live : live'[s] = live[s]
  BY <1>1, <1>5 DEF With
<1>7. LiveT'
  <2>1. Value' = Value
    BY <1>1 DEF Value
  <2> QED BY <1>1, <1>2, <1>4, <1>6, <2>1 DEF MemoryInv, TypeInv, LiveT
<1>8. OrtBufs' = OrtBufs \cup {b}
  BY <1>2, <1>5, <1>6 DEF OrtBufs
<1>9. OneRange'
  <2>1. \A s \in DOMAIN live : live[s].buf # b
    BY <1>2, OrtOwns
  <2> QED BY <1>5, <1>6, <2>1 DEF MemoryInv, LedgerInv, OneRange
<1>10. LedgerInv'
  BY <1>1, <1>2, <1>8, <1>9, SameSets DEF MemoryInv, LedgerInv, Split
<1>11. AddressInv'
  <2>1. \A s, r \in DOMAIN live' :
          s = r \/ s + live'[s].span <= r \/ r + live'[r].span <= s
    BY <1>1, <1>6 DEF MemoryInv, AddressInv
  <2>2. \A p \in DOMAIN tensors' : \E s \in DOMAIN live', o \in Offset : p = s + o
    BY <1>1, <1>6 DEF MemoryInv, AddressInv
  <2>3. \A t \in Thread, n \in Name : env'[t][n].home = "borrowed" =>
          \E s \in DOMAIN live' : /\ live'[s].buf = env'[t][n].buf
                                  /\ s \in DOMAIN tensors' /\ tensors'[s] = env'[t][n].value
    BY <1>1, <1>6 DEF MemoryInv, AddressInv
  <2> QED BY <2>1, <2>2, <2>3 DEF AddressInv
<1>12. HoldsT'
  BY <1>1, <1>2 DEF MemoryInv, TypeInv, HoldsT, Blank
<1>13. WorkSafe'
  <2>1. InUse' = InUse
    BY <1>1 DEF InUse, Stream!InUse
  <2> QED BY <1>2, <2>1 DEF MemoryInv, WorkInv, StreamT, WorkSafe
<1>14. AttachInv'
  BY <1>1, <1>2, StaysAttached DEF MemoryInv, WorkInv
<1> QED BY <1>1, <1>2, <1>7, <1>10, <1>11, <1>12, <1>13, <1>14, SameTypes, SameRest
        DEF MemoryInv, TypeInv, WorkInv

LEMMA FreeStep ==
  ASSUME Ordinary, MemoryInv, NEW start, Free(start)
  PROVE  MemoryInv'
<1> DEFINE b == live[start].buf
<1>1. /\ UNCHANGED <<newest, recording, uses, holds, entry, call>>
      /\ UNCHANGED <<host, run, runs, env, handle, tensors>>
      /\ start \in DOMAIN live /\ \A p \in DOMAIN tensors : ~Covers(start, p)
      /\ ~Borrowed(b) /\ live' = Without(live, start)
      /\ place' = [place EXCEPT ![b] = "deferred"]
      /\ MayDrop(Recorded, {b}) /\ DeferDestroy(pending, deferred, {b})
  BY DEF Free, cacheVars, sessionVars
<1>2. b \in Buffer /\ b \in Resource /\ b \in Memory /\ b \notin Pipeline /\ place[b] = "owned"
  BY <1>1, OrtOwns
<1>3. DOMAIN live' = DOMAIN live \ {start} /\ \A s \in DOMAIN live' : live'[s] = live[s]
  BY <1>1 DEF Without
<1>4. LiveT'
  <2>1. Value' = Value
    BY <1>1 DEF Value
  <2> QED BY <1>1, <1>3, <2>1 DEF MemoryInv, TypeInv, LiveT
<1>5. \A s \in DOMAIN live : live[s].buf = b => s = start
  BY <1>1 DEF MemoryInv, LedgerInv, OneRange
<1> HIDE DEF b
<1>6. OrtBufs' = OrtBufs \ {b} /\ b \in OrtBufs /\ OneRange'
  <2>1. b \in OrtBufs
    BY <1>1, <1>2 DEF OrtBufs, b
  <2>2. OrtBufs' = OrtBufs \ {b}
    <3>1. \A s \in DOMAIN live : s \in DOMAIN live' <=> live[s].buf # b
      BY <1>3, <1>5 DEF b
    <3> QED BY <1>3, <3>1 DEF OrtBufs
  <2>3. OneRange'
    BY <1>3 DEF MemoryInv, LedgerInv, OneRange
  <2> QED BY <2>1, <2>2, <2>3
<1>7. /\ DOMAIN place' = Memory
      /\ \A m \in Memory : place'[m] = IF m = b THEN "deferred" ELSE place[m]
  BY <1>1, <1>2 DEF MemoryInv, TypeInv, PlaceT
<1>8. PlaceT'
  BY <1>1, <1>2, <1>7, Kinds DEF MemoryInv, TypeInv, PlaceT
<1>9. Owned' = Owned \ {b}
  BY <1>2, <1>7, Kinds DEF Owned
<1>10. LedgerInv'
  BY <1>1, <1>6, <1>9, SameSets DEF MemoryInv, LedgerInv, Split
<1>11. AddressInv'
  <2>1. \A p \in DOMAIN tensors : \E s \in DOMAIN live', o \in Offset : p = s + o
    <3> SUFFICES ASSUME NEW p \in DOMAIN tensors PROVE \E s \in DOMAIN live', o \in Offset : p = s + o
      OBVIOUS
    <3>1. PICK s \in DOMAIN live, o \in Offset : p = s + o
      BY DEF MemoryInv, AddressInv
    <3>2. s \in Nat /\ live[s].span \in Nat /\ live[s].span >= 2 /\ o \in 0 .. 1
      BY LiveIs DEF MemoryInv, TypeInv, Page, Offset
    <3>3. Covers(s, p)
      BY <3>1, <3>2 DEF Covers
    <3> QED BY <1>1, <1>3, <3>1, <3>3
  <2>2. \A t \in Thread, n \in Name : env[t][n].home = "borrowed" => env[t][n].buf # b
    BY <1>1 DEF Borrowed
  <2>3. ASSUME NEW t \in Thread, NEW n \in Name, env[t][n].home = "borrowed"
        PROVE  \E s \in DOMAIN live' : /\ live'[s].buf = env[t][n].buf
                                       /\ s \in DOMAIN tensors /\ tensors[s] = env[t][n].value
    <3>1. PICK s \in DOMAIN live : /\ live[s].buf = env[t][n].buf
                                   /\ s \in DOMAIN tensors /\ tensors[s] = env[t][n].value
      BY <2>3 DEF MemoryInv, AddressInv
    <3>2. s # start
      BY <2>2, <2>3, <3>1 DEF b
    <3> QED BY <1>3, <3>1, <3>2
  <2>4. \A s, r \in DOMAIN live' :
          s = r \/ s + live'[s].span <= r \/ r + live'[r].span <= s
    BY <1>3 DEF MemoryInv, AddressInv
  <2> QED BY <1>1, <2>1, <2>3, <2>4 DEF AddressInv
<1>12. WorkSafe'
  <2>1. InUse' = InUse
    BY <1>1 DEF InUse, Stream!InUse
  <2> QED BY <1>7, <2>1 DEF MemoryInv, WorkInv, StreamT, WorkSafe
<1>13. AttachInv'
  <2>1. pending = <<>> \/ {b} \cap Recorded = {}
    BY <1>1 DEF MayDrop, Ordinary, OrdinaryUse, b
  <2>2. /\ {b} \in SUBSET Memory /\ DeferDestroy(pending, deferred, {b})
        /\ \A m \in {b} : place[m] # "deferred" /\ place'[m] = "deferred"
        /\ \A m \in Memory : place[m] = "deferred" => place'[m] = "deferred"
    BY <1>1, <1>2, <1>7 DEF b
  <2> QED BY <1>1, <2>1, <2>2, GivesUp DEF MemoryInv, WorkInv
<1> QED BY <1>1, <1>4, <1>8, <1>10, <1>11, <1>12, <1>13, SameTypes, SameRest
        DEF MemoryInv, TypeInv, WorkInv

LEMMA ForgetStep ==
  ASSUME Ordinary, MemoryInv, NEW p, ForgetTensor(p)
  PROVE  MemoryInv'
<1>1. /\ UNCHANGED <<newest, recording, uses, place, pending, deferred, entry, call>>
      /\ UNCHANGED <<host, run, runs, env, handle, live>>
      /\ p \in DOMAIN tensors /\ tensors' = Without(tensors, p)
      /\ \A t \in Thread : run[t].phase = "idle"
      /\ holds' = [holds EXCEPT ![Resolve(p)[1]][Resolve(p)[2]] = Nothing]
  BY DEF ForgetTensor, streamVars, cacheVars, sessionVars
<1>2. PICK s \in DOMAIN live, o \in Offset : Resolve(p)[1] = live[s].buf /\ Resolve(p)[2] = o
  BY <1>1, PlaceOf DEF MemoryInv, TypeInv
<1>3. HoldsT'
  <2>1. live[s].buf \in Memory
    BY OrtOwns
  <2>2. holds' = [holds EXCEPT ![live[s].buf][o] = Nothing]
    BY <1>1, <1>2
  <2> QED BY <2>1, <2>2, OneWritten DEF MemoryInv, TypeInv
<1>4. DOMAIN tensors' = DOMAIN tensors \ {p} /\ \A q \in DOMAIN tensors' : tensors'[q] = tensors[q]
  BY <1>1 DEF Without
<1>5. LiveT'
  <2>1. Value' = Value
    BY <1>1 DEF Value
  <2> QED BY <1>1, <1>4, <2>1 DEF MemoryInv, TypeInv, LiveT
<1>6. AddressInv'
  <2>1. \A t \in Thread, n \in Name : env[t][n].home # "borrowed"
    BY <1>1, AbsentIs DEF MemoryInv, FreshInv
  <2> QED BY <1>1, <1>4, <2>1 DEF MemoryInv, AddressInv
<1> QED BY <1>1, <1>3, <1>5, <1>6, SameTypes, SameSets, SameRest
        DEF MemoryInv, TypeInv, LedgerInv, WorkInv

LEMMA CopyInStep ==
  ASSUME Ordinary, MemoryInv, NEW p, NEW n \in Inputs, NEW s, CopyIn(p, n, s)
  PROVE  MemoryInv'
<1>1. /\ UNCHANGED <<entry, call, host, run, runs, env, handle, live>>
      /\ p \in Vacant /\ tensors' = With(tensors, p, FromHost(n).value)
      /\ s \in Obtainable(Staging)
      /\ pending' = pending /\ deferred' = deferred \cup {s}
      /\ Stream!Append({Resolve(p)[1], s})
      /\ place' = [place EXCEPT ![s] = "deferred"]
      /\ holds' = [holds EXCEPT ![Resolve(p)[1]][Resolve(p)[2]] = Is(FromHost(n).value)]
  BY DEF CopyIn, cacheVars, sessionVars
<1>2. PICK r \in DOMAIN live, o \in Offset : Resolve(p)[1] = live[r].buf /\ Resolve(p)[2] = o
  BY <1>1, PlaceOf DEF MemoryInv, TypeInv
<1> DEFINE b == live[r].buf
<1>3. /\ b \in Memory /\ b \notin Pipeline /\ place[b] = "owned"
      /\ Resolve(p)[1] = b /\ Resolve(p)[2] = o
  BY <1>2, OrtOwns
<1> HIDE DEF b
<1>4. /\ s \in Staging /\ s \in Memory /\ s \notin Resource /\ s \notin Pipeline
      /\ place[s] # "deferred"
  BY <1>1, ObtainableIs, Kinds
<1>5. /\ DOMAIN place' = Memory
      /\ \A m \in Memory : place'[m] = IF m = s THEN "deferred" ELSE place[m]
  BY <1>1, <1>4 DEF MemoryInv, TypeInv, PlaceT
<1>6. PlaceT' /\ Owned' = Owned
  <2>1. PlaceT'
    BY <1>1, <1>4, <1>5, Kinds DEF MemoryInv, TypeInv, PlaceT
  <2>2. Owned' = Owned
    BY <1>4, <1>5, Kinds DEF Owned
  <2> QED BY <2>1, <2>2
<1>7. StreamT' /\ WorkSafe' /\ CopiesIdle'
  <2>1. {b, s} \in SUBSET (Memory \ Pipeline) /\ Stream!Append({b, s})
    BY <1>1, <1>3, <1>4
  <2>2. \A m \in Memory : place'[m] \in {"none", "pool"} => place'[m] = place[m] /\ m \notin {b, s}
    BY <1>3, <1>5
  <2> QED BY <1>1, <2>1, <2>2, WorkOn DEF MemoryInv, WorkInv
<1>8. HoldsT'
  <2>1. holds' = [holds EXCEPT ![b][o] = Is(FromHost(n).value)]
    BY <1>1, <1>3
  <2> QED BY <1>3, <2>1, OneWritten DEF MemoryInv, TypeInv
<1>9. LiveT' /\ AddressInv'
  <2>1. FromHost(n).value \in Value
    BY HostValue DEF MemoryInv, TypeInv
  <2> QED BY <1>1, <2>1, Placed DEF MemoryInv, TypeInv
<1>10. AttachInv'
  <2>1. /\ {b, s} \in SUBSET Memory /\ Stream!Append({b, s}) /\ {s} \in SUBSET Memory
        /\ \A m \in {b, s} : place[m] # "deferred"
    BY <1>1, <1>3, <1>4
  <2>2. Attached(pending, deferred, newest', recording', uses', place)
    BY <2>1, Appends DEF MemoryInv, WorkInv
  <2>3. /\ \A m \in {s} : place[m] # "deferred" /\ place'[m] = "deferred"
        /\ \A m \in Memory : place[m] = "deferred" => place'[m] = "deferred"
    BY <1>4, <1>5
  <2>4. Attached(pending, deferred \cup {s}, newest', recording', uses', place')
    BY <2>1, <2>2, <2>3, Carries
  <2> QED BY <1>1, <2>4 DEF AttachInv
<1> QED BY <1>1, <1>6, <1>7, <1>8, <1>9, <1>10, SameTypes, SameSets, SameRest
        DEF MemoryInv, TypeInv, LedgerInv, WorkInv

LEMMA CopyAcrossStep ==
  ASSUME Ordinary, MemoryInv, NEW p, NEW q, CopyAcross(p, q)
  PROVE  MemoryInv'
<1>1. /\ UNCHANGED <<place, entry, call, host, run, runs, env, handle, live>>
      /\ p \in DOMAIN tensors /\ q \in Vacant /\ tensors' = With(tensors, q, tensors[p])
      /\ CopyBytes(Resolve(p)[1], Resolve(p)[2], Resolve(q)[1], Resolve(q)[2])
  BY DEF CopyAcross, cacheVars, sessionVars
<1>2. PICK s \in DOMAIN live, o \in Offset : Resolve(p)[1] = live[s].buf /\ Resolve(p)[2] = o
  BY <1>1, PlaceOf DEF MemoryInv, TypeInv
<1>3. PICK r \in DOMAIN live, i \in Offset : Resolve(q)[1] = live[r].buf /\ Resolve(q)[2] = i
  BY <1>1, PlaceOf DEF MemoryInv, TypeInv
<1>4. StreamT' /\ WorkSafe' /\ CopiesIdle' /\ AttachInv' /\ HoldsT'
  <2>1. /\ Resolve(p)[1] \in Memory \ Pipeline /\ place[Resolve(p)[1]] = "owned"
        /\ Resolve(q)[1] \in Memory \ Pipeline /\ place[Resolve(q)[1]] = "owned"
    BY <1>2, <1>3, OrtOwns
  <2> QED BY <1>1, <1>3, <2>1, CopyWork
<1>5. LiveT' /\ AddressInv'
  <2>1. tensors[p] \in Value
    BY <1>1 DEF MemoryInv, TypeInv, LiveT
  <2> QED BY <1>1, <2>1, Placed DEF MemoryInv, TypeInv
<1> QED BY <1>1, <1>4, <1>5, SameTypes, SameSets, SameRest
        DEF MemoryInv, TypeInv, LedgerInv, WorkInv

LEMMA WriteOutputStep ==
  ASSUME Ordinary, MemoryInv, NEW t \in Thread, NEW n \in Name, NEW q, WriteOutput(t, n, q)
  PROVE  MemoryInv'
<1>1. /\ UNCHANGED <<place, entry, call, host, runs, env, handle, live>>
      /\ run[t].phase = "done" /\ OnDevice(env[t][n])
      /\ q \in Vacant /\ tensors' = With(tensors, q, env[t][n].value)
      /\ CopyBytes(env[t][n].buf, 0, Resolve(q)[1], Resolve(q)[2])
      /\ run' = [run EXCEPT ![t].phase = "written"]
  BY DEF WriteOutput, cacheVars
<1>2. PICK r \in DOMAIN live, i \in Offset : Resolve(q)[1] = live[r].buf /\ Resolve(q)[2] = i
  BY <1>1, PlaceOf DEF MemoryInv, TypeInv
<1>3. StreamT' /\ WorkSafe' /\ CopiesIdle' /\ AttachInv' /\ HoldsT'
  <2>1. env[t][n].buf \in Memory \ Pipeline /\ place[env[t][n].buf] = "owned"
    BY <1>1, OnDeviceOwned, EnvIs, Kinds DEF Owned, MemoryInv, TypeInv
  <2>2. Resolve(q)[1] \in Memory \ Pipeline /\ place[Resolve(q)[1]] = "owned"
    BY <1>2, OrtOwns
  <2> QED BY <1>1, <1>2, <2>1, <2>2, CopyWork, ZeroOffset
<1>4. LiveT' /\ AddressInv'
  <2>1. env[t][n].value \in Value
    BY <1>1, EnvIs DEF MemoryInv, TypeInv
  <2> QED BY <1>1, <2>1, Placed DEF MemoryInv, TypeInv
<1>5. /\ DOMAIN run' = Thread
      /\ \A u \in Thread \ {t} : run'[u] = run[u]
      /\ run'[t].phase = "written" /\ run'[t].id = run[t].id
      /\ run'[t] \in [phase : {"inputs", "run", "done", "written"}, id : Nat, node : Nat]
      /\ run[t].id \in 1 .. runs
  <2>1. /\ DOMAIN run = Thread /\ run[t].id \in 1 .. runs
        /\ run[t] \in [phase : {"inputs", "run", "done", "written"}, id : Nat, node : Nat]
    BY <1>1, AbsentIs DEF MemoryInv, TypeInv, RunT, RunIs
  <2>2. run'[t] = [phase |-> "written", id |-> run[t].id, node |-> run[t].node]
    BY <1>1, <2>1
  <2>3. DOMAIN run' = Thread /\ \A u \in Thread \ {t} : run'[u] = run[u]
    BY <1>1, <2>1
  <2> QED BY <2>1, <2>2, <2>3
<1>6. RunT'
  <2>1. RunIs(t)'
    BY <1>1, <1>5 DEF RunIs
  <2>2. \A u \in Thread \ {t} : RunIs(u)'
    BY <1>1, <1>5 DEF MemoryInv, TypeInv, RunT, RunIs
  <2> QED BY <1>1, <1>5, <2>1, <2>2 DEF MemoryInv, TypeInv, RunT
<1>7. FreshInv'
  BY <1>1, <1>5 DEF MemoryInv, FreshInv
<1>8. CallInv'
  BY <1>1, <1>5 DEF MemoryInv, CallInv, Building, Cached
<1> QED BY <1>1, <1>3, <1>4, <1>6, <1>7, <1>8, SameTypes, SameSets, SameRest
        DEF MemoryInv, TypeInv, LedgerInv, WorkInv

LEMMA ReturnStep ==
  ASSUME Ordinary, MemoryInv, NEW t \in Thread, Return(t)
  PROVE  MemoryInv'
<1>1. ~Building(t)
  BY DEF MemoryInv, CallInv, Return
<1>2. /\ ReleaseOwned(t, Sent, Kept) /\ recording' = FALSE /\ recording' \in {recording, FALSE}
      /\ UNCHANGED <<newest, uses, holds, cacheVars, host, runs, handle, providerVars>>
  BY DEF Return
<1>3. Attached(Sent, Kept, newest, recording', uses, place)
  BY <1>2, Submits DEF MemoryInv, WorkInv
<1> QED BY <1>1, <1>2, <1>3, ReleaseStep

\* An input is bound: to a run that begins with it, or to one that waits for it.
LEMMA InputBound ==
  ASSUME Ordinary, MemoryInv, NEW t \in Thread, NEW n \in Inputs, NEW x \in Typed,
         BindInput(t, n, x), UNCHANGED <<host, entry, call>>, env[t][n] = Absent,
         \/ run[t].phase = "idle" /\ runs < MaxRuns[host]
         \/ run[t].phase = "inputs"
  PROVE  /\ RunT' /\ EnvT' /\ FreshInv' /\ CallInv'
         /\ \A u \in Thread, m \in Name : env'[u][m] = IF u = t /\ m = n THEN x ELSE env[u][m]
<1> DEFINE id == IF run[t].phase = "idle" THEN runs + 1 ELSE run[t].id
           now == [phase |-> IF \A m \in Inputs \ {n} : env[t][m] # Absent THEN "run" ELSE "inputs",
                   id |-> id, node |-> 1]
<1>1. /\ runs' = IF run[t].phase = "idle" THEN runs + 1 ELSE runs
      /\ env' = [env EXCEPT ![t][n] = x] /\ run' = [run EXCEPT ![t] = now]
  BY DEF BindInput
<1>2. /\ runs \in 0 .. MaxRuns[host] /\ MaxRuns[host] \in Nat /\ runs \in Nat
      /\ DOMAIN run = Thread /\ RunIs(t)
  BY DEF MemoryInv, TypeInv, RunT, Ordinary
<1>3. runs' \in 0 .. MaxRuns[host] /\ runs <= runs' /\ id \in 1 .. runs' /\ id \in Nat
  <2>1. CASE run[t].phase = "idle"
    BY <1>1, <1>2, <2>1
  <2>2. CASE run[t].phase = "inputs"
    <3>1. run[t].id \in 1 .. runs
      BY <1>2, <2>2, AbsentIs DEF RunIs
    <3>2. runs' = runs /\ id = run[t].id
      BY <1>1, <2>2
    <3> QED BY <1>2, <3>1, <3>2
  <2> QED BY <2>1, <2>2
<1>4. n \in Name
  BY DEF Name
<1>5. EnvT' /\ \A u \in Thread, m \in Name : env'[u][m] = IF u = t /\ m = n THEN x ELSE env[u][m]
  <2>1. EnvT /\ Typed' = Typed
    BY DEF MemoryInv, TypeInv, Value, Typed
  <2>2. env' = [env EXCEPT ![t][n] = x]
    BY <1>1
  <2> HIDE DEF now, id
  <2> QED BY <1>4, <2>1, <2>2 DEF EnvT
<1>6. /\ now.phase \in {"run", "inputs"} /\ now.id = id /\ now.node = 1
      /\ now \in [phase : {"inputs", "run", "done", "written"}, id : Nat, node : Nat]
  <2> HIDE DEF id
  <2> QED BY <1>3
<1> HIDE DEF now, id
<1>7. DOMAIN run' = Thread /\ \A u \in Thread : run'[u] = IF u = t THEN now ELSE run[u]
  BY <1>1, <1>2
<1>8. RunT'
  <2>1. 1 \in DOMAIN Program
    BY DEF Ordinary
  <2>2. RunIs(t)'
    BY <1>3, <1>6, <1>7, <2>1 DEF RunIs
  <2>3. ASSUME NEW u \in Thread \ {t} PROVE RunIs(u)'
    <3>1. RunIs(u) /\ run'[u] = run[u]
      BY <1>7 DEF MemoryInv, TypeInv, RunT
    <3>2. \A i \in 1 .. runs : i \in 1 .. runs'
      BY <1>2, <1>3
    <3> QED BY <3>1, <3>2 DEF RunIs
  <2> QED BY <1>3, <1>7, <2>2, <2>3 DEF MemoryInv, TypeInv, RunT
<1>9. FreshInv'
  <2>1. \A m \in Name \ Inputs : env[t][m] = Absent
    BY DEF MemoryInv, FreshInv
  <2>2. \A m \in Name \ Inputs : env'[t][m] = Absent
    BY <1>5, <2>1
  <2>3. \A i \in DOMAIN Program : Program[i].writes \in Name \ Inputs
    BY DEF Ordinary, Name
  <2>4. \A u \in Thread \ {t} : run'[u] = run[u] /\ \A m \in Name : env'[u][m] = env[u][m]
    BY <1>5, <1>7
  <2>5. run'[t].phase # "idle"
    BY <1>6, <1>7
  <2> QED BY <2>2, <2>3, <2>4, <2>5 DEF MemoryInv, FreshInv
<1>10. CallInv'
  <2>1. ~Building(t)
    BY DEF MemoryInv, CallInv
  <2> QED BY <1>7, <2>1 DEF MemoryInv, CallInv, Building, Cached
<1> QED BY <1>5, <1>8, <1>9, <1>10

LEMMA ReadInputStep ==
  ASSUME Ordinary, MemoryInv, NEW t \in Thread, NEW n \in Inputs, NEW p, ReadInput(t, n, p)
  PROVE  MemoryInv'
<1>1. /\ UNCHANGED <<entry, call, host, handle, live, tensors>>
      /\ env[t][n] = Absent /\ p \in DOMAIN tensors
      /\ \/ run[t].phase = "idle" /\ runs < MaxRuns[host]
         \/ run[t].phase = "inputs"
  BY DEF ReadInput, cacheVars, providerVars
<1>2. PICK s \in DOMAIN live, o \in Offset :
        p = s + o /\ Resolve(p)[1] = live[s].buf /\ Resolve(p)[2] = o
  BY <1>1, PlaceOf DEF MemoryInv, TypeInv
<1>3. /\ live[s].buf \in Buffer /\ live[s].buf \in Memory \ Pipeline
      /\ place[live[s].buf] = "owned" /\ s \in Nat
  BY OrtOwns, LiveIs DEF MemoryInv, TypeInv
<1>4. tensors[p] \in Value /\ n \in Name
  BY <1>1 DEF MemoryInv, TypeInv, LiveT, Name
<1>5. ASSUME Resolve(p)[2] = 0, UNCHANGED <<streamVars, holds>>,
             BindInput(t, n, [home |-> "borrowed", buf |-> Resolve(p)[1], value |-> tensors[p]])
      PROVE  MemoryInv'
  <2> DEFINE x == [home |-> "borrowed", buf |-> live[s].buf, value |-> tensors[p]]
  <2>1. x \in Typed /\ x.home = "borrowed" /\ x.buf = live[s].buf /\ x.value = tensors[p]
    BY <1>3, <1>4 DEF Typed
  <2>2. BindInput(t, n, x)
    BY <1>2, <1>5
  <2> HIDE DEF x
  <2>3. UNCHANGED <<newest, recording, uses, place, pending, deferred, holds>>
    BY <1>5 DEF streamVars
  <2>4. /\ RunT' /\ EnvT' /\ FreshInv' /\ CallInv'
        /\ \A u \in Thread, m \in Name : env'[u][m] = IF u = t /\ m = n THEN x ELSE env[u][m]
    BY <1>1, <2>1, <2>2, InputBound
  <2>5. p = s
    BY <1>2, <1>3, <1>5
  <2>6. AddressInv'
    BY <1>1, <2>1, <2>4, <2>5 DEF MemoryInv, AddressInv
  <2>7. RunBufs' = RunBufs /\ OneName' /\ ArcBufs' = ArcBufs
    <3>1. \A u \in Thread, m \in Name :
            /\ env[u][m].home \in {"owned", "shared"} => env'[u][m] = env[u][m]
            /\ env'[u][m].home \in {"owned", "shared"} => env'[u][m] = env[u][m]
      BY <1>1, <2>1, <2>4, AbsentIs
    <3>2. RunBufs' = RunBufs
      BY <3>1 DEF RunBufs
    <3>3. OneName'
      BY <3>1 DEF MemoryInv, LedgerInv, OneName
    <3>4. ArcBufs' = ArcBufs
      BY <1>1, <3>1 DEF ArcBufs
    <3> QED BY <3>2, <3>3, <3>4
  <2> QED BY <1>1, <2>3, <2>4, <2>6, <2>7, SameTypes, SameSets, SameRest
          DEF MemoryInv, TypeInv, LedgerInv, WorkInv
<1>6. ASSUME NEW b, b \in Obtainable(Buffer), CopyBytes(Resolve(p)[1], Resolve(p)[2], b, 0),
             place' = [place EXCEPT ![b] = "owned"],
             BindInput(t, n, [home |-> "owned", buf |-> b, value |-> tensors[p]])
      PROVE  MemoryInv'
  <2>1. /\ b \in Resource /\ b \in Memory /\ b \notin Owned /\ b \in Buffer /\ place[b] # "deferred"
        /\ PlaceT' /\ Owned' = Owned \cup {b}
        /\ \A m \in Memory : place'[m] = IF m = b THEN "owned" ELSE place[m]
    <3>1. Buffer \in SUBSET Resource
      BY Kinds
    <3> QED BY <1>6, <3>1, Created DEF MemoryInv, TypeInv, WorkInv
  <2> DEFINE x == [home |-> "owned", buf |-> b, value |-> tensors[p]]
  <2>2. x \in Typed /\ x.home = "owned" /\ x.buf = b
    BY <1>4, <2>1 DEF Typed
  <2>3. BindInput(t, n, x)
    BY <1>6
  <2> HIDE DEF x
  <2>4. /\ RunT' /\ EnvT' /\ FreshInv' /\ CallInv'
        /\ \A u \in Thread, m \in Name : env'[u][m] = IF u = t /\ m = n THEN x ELSE env[u][m]
    BY <1>1, <2>2, <2>3, InputBound
  <2>5. StreamT' /\ WorkSafe' /\ CopiesIdle' /\ AttachInv'
    <3>1. {live[s].buf, b} \in SUBSET (Memory \ Pipeline) /\ Stream!Append({live[s].buf, b})
      BY <1>2, <1>3, <1>6, <2>1, Kinds DEF CopyBytes
    <3>2. \A m \in Memory :
            place'[m] \in {"none", "pool"} => place'[m] = place[m] /\ m \notin {live[s].buf, b}
      BY <1>3, <2>1
    <3>3. UNCHANGED <<pending, deferred>>
      BY <1>6 DEF CopyBytes
    <3>4. /\ \A m \in {live[s].buf, b} : place[m] # "deferred"
          /\ \A m \in Memory : place[m] = "deferred" => place'[m] = "deferred"
      BY <1>3, <2>1
    <3>5. AttachInv'
      BY <3>1, <3>3, <3>4, AppendStaysAttached DEF MemoryInv, WorkInv
    <3> QED BY <1>1, <3>1, <3>2, <3>5, WorkOn DEF MemoryInv, WorkInv
  <2>6. HoldsT'
    <3>1. PICK v : holds' = [holds EXCEPT ![b][0] = v]
      BY <1>6 DEF CopyBytes
    <3> QED BY <2>1, <3>1, OneWritten, ZeroOffset DEF MemoryInv, TypeInv
  <2>7. RunBufs' = RunBufs \cup {b} /\ OneName' /\ ArcBufs' = ArcBufs
    <3>1. ~OnDevice(env[t][n])
      BY <1>1, AbsentIs
    <3>2. \A u \in Thread, m \in Name :
            IF u = t /\ m = n THEN env'[u][m].home = "owned" /\ env'[u][m].buf = b
                              ELSE env'[u][m] = env[u][m]
      BY <2>2, <2>4
    <3> QED BY <1>1, <1>4, <2>1, <3>1, <3>2, RunGains
  <2>8. LedgerInv'
    BY <1>1, <2>1, <2>7, SameSets DEF MemoryInv, LedgerInv, Split
  <2>9. AddressInv'
    BY <1>1, <2>2, <2>4 DEF MemoryInv, AddressInv
  <2> QED BY <1>1, <2>1, <2>4, <2>5, <2>6, <2>8, <2>9, SameTypes, SameRest
          DEF MemoryInv, TypeInv, WorkInv
<1> QED BY <1>5, <1>6 DEF ReadInput

----------------------------------------------------------------------------
(* Memory is kept.                                                         *)

LEMMA InitMemory ==
  ASSUME Ordinary, Init
  PROVE  MemoryInv
<1>1. /\ newest = 0 /\ recording = FALSE /\ DOMAIN uses = {}
      /\ place = [m \in Memory |-> "none"] /\ holds = [m \in Memory |-> Blank]
      /\ DOMAIN entry = {} /\ call = [t \in Thread |-> NoCall]
      /\ host \in {"session", "provider"} /\ run = [t \in Thread |-> NoRun] /\ runs = 0
      /\ env = [t \in Thread |-> [n \in Name |-> Absent]] /\ handle = [h \in Handle |-> Absent]
      /\ DOMAIN live = {} /\ DOMAIN tensors = {} /\ pending = <<>> /\ deferred = {}
  BY DEF Init, CacheInit, SessionInit, ProviderInit, Stream!Init, Memory, Stream!Memory
<1>2. TypeInv
  BY <1>1, Kinds DEF TypeInv, PlaceT, HoldsT, EntryT, CallT, CallIs, RunT, RunIs, EnvT, HandleT,
                     LiveT, Blank, Ordinary
<1>3. FreshInv /\ CallInv
  BY <1>1, AbsentIs DEF FreshInv, CallInv, Building, Ordinary, Name
<1>4. LedgerInv
  <2>1. Owned = {} /\ CacheBufs = {} /\ RunBufs = {} /\ ArcBufs = {} /\ BuiltBufs = {} /\ OrtBufs = {}
    BY <1>1, AbsentIs, Kinds DEF Owned, CacheBufs, RunBufs, ArcBufs, BuiltBufs, OrtBufs
  <2> QED BY <1>1, <2>1, AbsentIs DEF LedgerInv, Split, OneEntry, OneName, OneCopy, OneRange
<1>5. WorkInv
  <2>1. InUse = {}
    BY <1>1 DEF InUse, Stream!InUse
  <2>2. AttachInv
    BY <1>1 DEF AttachInv, Attached
  <2> QED BY <1>1, <2>1, <2>2 DEF WorkInv, StreamT, WorkSafe, CopiesIdle
<1>6. AddressInv
  BY <1>1, AbsentIs DEF AddressInv
<1> QED BY <1>2, <1>3, <1>4, <1>5, <1>6 DEF MemoryInv

LEMMA NextMemory ==
  ASSUME Ordinary, MemoryInv, [Next]_vars
  PROVE  MemoryInv'
<1>1. ASSUME NEW t \in Thread, SessionStep(t), UNCHANGED providerVars PROVE MemoryInv'
  <2>1. CASE \E pick \in [Inputs -> Handle \cup {"host"}] : Begin(t, SupplyFrom(pick))
    BY <1>1, <2>1, BeginStep
  <2>2. CASE \E a \in Ask : AskCache(t, a)
    <3>1. PICK a \in Ask : AskCache(t, a)
      BY <2>2
    <3>2. CASE Miss(t, a)
      BY <1>1, <3>1, <3>2, MissStep
    <3>3. CASE \E b \in Buffer, s \in Staging : MakeZero(a, b, s)
      BY <1>1, <3>1, <3>3, ZeroStep
    <3> QED BY <3>1, <3>2, <3>3 DEF AskCache
  <2>3. CASE \E n \in Name, b \in Buffer, s \in Staging : EnsureDevice(t, n, b, s)
    BY <1>1, <2>3, EnsureStep
  <2>4. CASE \E b \in Buffer : RunNode(t, b)
    BY <1>1, <2>4, RunNodeStep
  <2>5. CASE \E n \in Name : Get(t, n)
    BY <1>1, <2>5, GetStep
  <2>6. CASE \E n \in Name, h \in Handle : Take(t, n, h)
    BY <1>1, <2>6, TakeStep
  <2>7. CASE Finish(t) \/ Fail(t)
    BY <1>1, <2>7, EndStep
  <2>8. CASE CacheStep(t)
    BY <1>1, <2>8, BuildStep, InsertStep DEF CacheStep
  <2> QED BY <1>1, <2>1, <2>2, <2>3, <2>4, <2>5, <2>6, <2>7, <2>8 DEF SessionStep
<1>2. CASE ClientStep /\ UNCHANGED providerVars
  <2>1. CASE \E h, g \in Handle : CloneHandle(h, g)
    BY <1>2, <2>1, CloneStep
  <2>2. CASE \E h \in Handle : DropHandle(h)
    BY <1>2, <2>2, DropHandleStep
  <2>3. CASE DropSession
    BY <1>2, <2>3, DropSessionStep
  <2>4. CASE Flush
    BY <1>2, <2>4, FlushStep
  <2>5. CASE DeviceStep /\ UNCHANGED sessionVars
    BY <1>2, <2>5, DeviceStepKeeps
  <2> QED BY <1>2, <2>1, <2>2, <2>3, <2>4, <2>5 DEF ClientStep
<1>3. CASE ProviderStep
  BY <1>3, AllocStep, FreeStep, ForgetStep, CopyInStep, CopyAcrossStep, ReadInputStep,
     WriteOutputStep, ReturnStep DEF ProviderStep
<1>4. CASE UNCHANGED vars
  BY <1>4, SameTypes, SameSets, SameRest
     DEF vars, streamVars, cacheVars, sessionVars, providerVars, MemoryInv, TypeInv, LedgerInv, WorkInv
<1> QED BY <1>1, <1>2, <1>3, <1>4 DEF Next

LEMMA MemoryAlways == Ordinary => (Spec => []MemoryInv)
<1> SUFFICES ASSUME Ordinary PROVE Spec => []MemoryInv
  OBVIOUS
<1>1. Init => MemoryInv
  BY InitMemory
<1>2. MemoryInv /\ [Next]_vars => MemoryInv'
  BY NextMemory
<1> QED BY <1>1, <1>2, PTL DEF Spec

\* The records of runs, handles, entries, allocations and tensors are what they are
\* declared to be, whatever the hosts, the clients and the cache interleave.
THEOREM TypesAlwaysOK == Ordinary => (Spec => []TypeOK)
<1> SUFFICES ASSUME Ordinary PROVE Spec => []TypeOK
  OBVIOUS
<1>1. MemoryInv => TypeOK
  <2> SUFFICES ASSUME MemoryInv PROVE TypeOK
    OBVIOUS
  <2>1. \A s \in DOMAIN live :
          s \in Address /\ live[s] \in [span : {Span(size) : size \in Sizes}, size : Sizes, buf : Buffer]
    BY DEF MemoryInv, TypeInv, LiveT
  <2>2. \A p \in DOMAIN tensors : tensors[p] \in Value
    BY DEF MemoryInv, TypeInv, LiveT
  <2>3. \A t \in Thread : env[t] \in [Name -> {Absent}
          \cup [home : {"host"}, value : Value]
          \cup [home : {"owned", "borrowed", "shared"}, buf : Buffer, value : Value]]
    BY DEF MemoryInv, TypeInv, EnvT, Typed
  <2>4. \A h \in Handle :
          handle[h] \in {Absent} \cup [home : {"shared"}, buf : Buffer, value : Value]
    BY DEF MemoryInv, TypeInv, HandleT
  <2>5. \A k \in DOMAIN entry : entry[k] \in Resource
    BY Kinds DEF MemoryInv, TypeInv, EntryT
  <2>6. \A t \in Thread : run[t].phase = "run" => run[t].node \in DOMAIN Program
    BY NodeIs DEF MemoryInv, TypeInv
  <2> QED BY <2>1, <2>2, <2>3, <2>4, <2>5, <2>6 DEF TypeOK
<1> QED BY <1>1, MemoryAlways, PTL

\* No command still to execute refers to a buffer or pipeline that was destroyed, or to a
\* staging buffer that is pooled: whatever the number of submissions in flight, what hangs
\* on one of them is reaped after the last command that refers to it, as long as clients
\* do not let go of what the open command buffer refers to while older work is in flight.
THEOREM WorkAlwaysSafe == Ordinary => (Spec => []WorkSafe)
<1> SUFFICES ASSUME Ordinary PROVE Spec => []WorkSafe
  OBVIOUS
<1>1. MemoryInv => WorkSafe
  BY DEF MemoryInv, WorkInv
<1> QED BY <1>1, MemoryAlways, PTL

\* Every buffer and pipeline that is not free has exactly one party that will give it
\* back: an entry of the cache, one name of one run, the references to a shared value
\* together, a thread that is building, or one allocation of ORT.
THEOREM OwnedByOne == Ordinary => (Spec => []OneOwner)
<1> SUFFICES ASSUME Ordinary PROVE Spec => []OneOwner
  OBVIOUS
<1>1. MemoryInv => OneOwner
  <2> SUFFICES ASSUME MemoryInv, NEW r \in Resource
               PROVE  Cardinality(Owners(r) \cup {<<"ort", s>> : s \in {s \in DOMAIN live : live[s].buf = r}})
                        = IF place[r] = "owned" THEN 1 ELSE 0
    BY DEF OneOwner
  <2> DEFINE cached == {<<"cache", k>> : k \in {k \in DOMAIN entry : entry[k] = r}}
             ran    == {<<"run", o>> : o \in {o \in Thread \X Name :
                          env[o[1]][o[2]].home = "owned" /\ env[o[1]][o[2]].buf = r}}
             shared == IF Arcs(r) # {} THEN {<<"arc">>} ELSE {}
             built  == {<<"built", t>> : t \in {t \in Thread :
                          call[t].stage = "insert" /\ call[t].copy = r}}
             ort    == {<<"ort", s>> : s \in {s \in DOMAIN live : live[s].buf = r}}
             all    == cached \cup ran \cup shared \cup built \cup ort
  <2>1. Owners(r) \cup {<<"ort", s>> : s \in {s \in DOMAIN live : live[s].buf = r}} = all
    BY DEF Owners
  <2>2. IF r \in CacheBufs THEN \E x : cached = {x} ELSE cached = {}
    <3> DEFINE keys == {k \in DOMAIN entry : entry[k] = r}
    <3>1. \A k, l \in keys : k = l
      BY DEF MemoryInv, LedgerInv, OneEntry
    <3>2. r \in CacheBufs <=> keys # {}
      BY DEF CacheBufs
    <3>3. cached = {<<"cache", k>> : k \in keys}
      OBVIOUS
    <3> HIDE DEF keys, cached
    <3>4. ASSUME NEW z \in keys PROVE cached = {<<"cache", z>>}
      BY <3>1, <3>3, <3>4
    <3> QED BY <3>2, <3>3, <3>4
  <2>3. IF r \in RunBufs THEN \E x : ran = {x} ELSE ran = {}
    <3> DEFINE names == {o \in Thread \X Name :
                           env[o[1]][o[2]].home = "owned" /\ env[o[1]][o[2]].buf = r}
    <3>1. \A o, q \in names : o = q
      BY DEF MemoryInv, LedgerInv, OneName
    <3>2. r \in RunBufs <=> names # {}
      <4>1. ASSUME NEW t \in Thread, NEW n \in Name, env[t][n].home = "owned", env[t][n].buf = r
            PROVE  <<t, n>> \in names
        BY <4>1
      <4>2. ASSUME NEW o \in names
            PROVE  o[1] \in Thread /\ o[2] \in Name
                   /\ env[o[1]][o[2]].home = "owned" /\ env[o[1]][o[2]].buf = r
        BY <4>2
      <4> HIDE DEF names
      <4> QED BY <4>1, <4>2 DEF RunBufs
    <3>3. ran = {<<"run", o>> : o \in names}
      OBVIOUS
    <3> HIDE DEF names, ran
    <3>4. ASSUME NEW z \in names PROVE ran = {<<"run", z>>}
      BY <3>1, <3>3, <3>4
    <3> QED BY <3>2, <3>3, <3>4
  <2>4. IF r \in ArcBufs THEN \E x : shared = {x} ELSE shared = {}
    BY ArcsAre
  <2>5. IF r \in BuiltBufs THEN \E x : built = {x} ELSE built = {}
    <3> DEFINE builders == {t \in Thread : call[t].stage = "insert" /\ call[t].copy = r}
    <3>1. \A t, u \in builders : t = u
      BY DEF MemoryInv, LedgerInv, OneCopy
    <3>2. r \in BuiltBufs <=> builders # {}
      BY DEF BuiltBufs
    <3>3. built = {<<"built", t>> : t \in builders}
      OBVIOUS
    <3> HIDE DEF builders, built
    <3>4. ASSUME NEW z \in builders PROVE built = {<<"built", z>>}
      BY <3>1, <3>3, <3>4
    <3> QED BY <3>2, <3>3, <3>4
  <2>6. IF r \in OrtBufs THEN \E x : ort = {x} ELSE ort = {}
    <3> DEFINE bases == {s \in DOMAIN live : live[s].buf = r}
    <3>1. \A s, q \in bases : s = q
      BY DEF MemoryInv, LedgerInv, OneRange
    <3>2. r \in OrtBufs <=> bases # {}
      BY DEF OrtBufs
    <3>3. ort = {<<"ort", s>> : s \in bases}
      OBVIOUS
    <3> HIDE DEF bases, ort
    <3>4. ASSUME NEW z \in bases PROVE ort = {<<"ort", z>>}
      BY <3>1, <3>3, <3>4
    <3> QED BY <3>2, <3>3, <3>4
  <2> HIDE DEF cached, ran, shared, built, ort
  <2>7. IF place[r] = "owned" THEN \E x : all = {x} ELSE all = {}
    <3>1. place[r] = "owned" <=> r \in Owned
      BY DEF Owned
    <3>2. Split(Owned, CacheBufs, RunBufs, ArcBufs, BuiltBufs, OrtBufs)
      BY DEF MemoryInv, LedgerInv
    <3> QED BY <2>2, <2>3, <2>4, <2>5, <2>6, <3>1, <3>2 DEF Split
  <2> QED BY <2>1, <2>7, FS_EmptySet, FS_Singleton
<1> QED BY <1>1, MemoryAlways, PTL

----------------------------------------------------------------------------
(* Contents, where the key of an entry says all that was asked for.        *)

\* A step writes only to memory in D of what somebody owns: what the others count
\* on is there still.
Undisturbed(D) == \A m \in Owned \ D, o \in Offset : holds'[m][o] = holds[m][o]

LEMMA StillThere ==
  ASSUME Ordinary, MemoryInv, ContentInv, NEW D, Undisturbed(D)
  PROVE  /\ (RunBufs \cup ArcBufs) \cap D = {} =>
              /\ \A t \in Thread, n \in Name : env[t][n].home \in {"owned", "shared"} =>
                   holds'[env[t][n].buf][0] = Is(env[t][n].value)
              /\ \A h \in Handle : handle[h].home = "shared" =>
                   holds'[handle[h].buf][0] = Is(handle[h].value)
         /\ CacheBufs \cap D = {} => \A a \in Ask : Cached(a) => holds'[Entry(a)][0] = Made(a)
         /\ BuiltBufs \cap D = {} => \A t \in Thread : call[t].stage = "insert" =>
                                       holds'[call[t].copy][0] = Made(call[t].ask)
         /\ OrtBufs \cap D = {} => \A s \in DOMAIN live, o \in Offset : s + o \in DOMAIN tensors =>
                                     holds'[live[s].buf][o] = Is(tensors[s + o])
<1>1. /\ RunBufs \subseteq Owned /\ ArcBufs \subseteq Owned /\ CacheBufs \subseteq Owned
      /\ BuiltBufs \subseteq Owned /\ OrtBufs \subseteq Owned
  BY DEF MemoryInv, LedgerInv, Split
<1>2. ASSUME (RunBufs \cup ArcBufs) \cap D = {}, NEW t \in Thread, NEW n \in Name,
             env[t][n].home \in {"owned", "shared"}
      PROVE  holds'[env[t][n].buf][0] = Is(env[t][n].value)
  <2>1. env[t][n].buf \in RunBufs \cup ArcBufs
    <3>1. env[t][n].buf \in Resource
      BY <1>2, EnvIs, Kinds DEF OnDevice, MemoryInv, TypeInv
    <3> QED BY <1>2, <3>1 DEF RunBufs, ArcBufs
  <2>2. holds[env[t][n].buf][0] = Is(env[t][n].value)
    BY <1>2 DEF ContentInv, EnvHolds, Holds
  <2> QED BY <1>1, <1>2, <2>1, <2>2, ZeroOffset DEF Undisturbed
<1>3. ASSUME (RunBufs \cup ArcBufs) \cap D = {}, NEW h \in Handle, handle[h].home = "shared"
      PROVE  holds'[handle[h].buf][0] = Is(handle[h].value)
  <2>1. handle[h].buf \in ArcBufs
    <3>1. handle[h].buf \in Resource
      BY <1>3, HandleIs, AbsentIs, Kinds DEF MemoryInv, TypeInv
    <3> QED BY <1>3, <3>1 DEF ArcBufs
  <2>2. holds[handle[h].buf][0] = Is(handle[h].value)
    BY <1>3 DEF ContentInv, HandleHolds, Holds
  <2> QED BY <1>1, <1>3, <2>1, <2>2, ZeroOffset DEF Undisturbed
<1>4. ASSUME CacheBufs \cap D = {}, NEW a \in Ask, Cached(a) PROVE holds'[Entry(a)][0] = Made(a)
  <2>1. Entry(a) \in CacheBufs
    BY <1>4 DEF Entry, Cached, CacheBufs
  <2>2. holds[Entry(a)][0] = Made(a)
    BY <1>4 DEF ContentInv, EntryHolds, Holds
  <2> QED BY <1>1, <1>4, <2>1, <2>2, ZeroOffset DEF Undisturbed
<1>5. ASSUME BuiltBufs \cap D = {}, NEW t \in Thread, call[t].stage = "insert"
      PROVE  holds'[call[t].copy][0] = Made(call[t].ask)
  <2>1. call[t].copy \in BuiltBufs
    BY <1>5, CallOf DEF BuiltBufs, MemoryInv, TypeInv
  <2>2. holds[call[t].copy][0] = Made(call[t].ask)
    BY <1>5 DEF ContentInv, CopyHolds, Holds
  <2> QED BY <1>1, <1>5, <2>1, <2>2, ZeroOffset DEF Undisturbed
<1>6. ASSUME OrtBufs \cap D = {}, NEW s \in DOMAIN live, NEW o \in Offset, s + o \in DOMAIN tensors
      PROVE  holds'[live[s].buf][o] = Is(tensors[s + o])
  <2>1. live[s].buf \in OrtBufs
    BY OrtOwns DEF OrtBufs
  <2>2. holds[live[s].buf][o] = Is(tensors[s + o])
    BY <1>6 DEF ContentInv, TensorHolds
  <2> QED BY <1>1, <1>6, <2>1, <2>2 DEF Undisturbed
<1> QED BY <1>2, <1>3, <1>4, <1>5, <1>6

\* What is bound, cached, built and placed after a step was so before.
LEMMA StillHolds ==
  ASSUME Ordinary, MemoryInv, ContentInv, NEW D, Undisturbed(D)
  PROVE  /\ /\ (RunBufs \cup ArcBufs) \cap D = {}
            /\ \A t \in Thread, n \in Name : env'[t][n].home \in {"owned", "shared"} =>
                 env'[t][n] = env[t][n]
            => EnvHolds'
         /\ /\ (RunBufs \cup ArcBufs) \cap D = {}
            /\ \A h \in Handle : handle'[h].home = "shared" => handle'[h] = handle[h]
            => HandleHolds'
         /\ CacheBufs \cap D = {} /\ UNCHANGED entry => EntryHolds'
         /\ /\ BuiltBufs \cap D = {}
            /\ \A t \in Thread : call'[t].stage = "insert" => call'[t] = call[t]
            => CopyHolds'
         /\ /\ OrtBufs \cap D = {}
            /\ \A s \in DOMAIN live' : s \in DOMAIN live /\ live'[s] = live[s]
            /\ \A p \in DOMAIN tensors' : p \in DOMAIN tensors /\ tensors'[p] = tensors[p]
            => TensorHolds'
<1>1. ASSUME (RunBufs \cup ArcBufs) \cap D = {},
             \A t \in Thread, n \in Name : env'[t][n].home \in {"owned", "shared"} =>
               env'[t][n] = env[t][n]
      PROVE  EnvHolds'
  BY <1>1, StillThere DEF EnvHolds, Holds
<1>2. ASSUME (RunBufs \cup ArcBufs) \cap D = {},
             \A h \in Handle : handle'[h].home = "shared" => handle'[h] = handle[h]
      PROVE  HandleHolds'
  BY <1>2, StillThere DEF HandleHolds, Holds
<1>3. ASSUME CacheBufs \cap D = {}, UNCHANGED entry PROVE EntryHolds'
  BY <1>3, StillThere DEF EntryHolds, Holds, Cached, Entry
<1>4. ASSUME BuiltBufs \cap D = {},
             \A t \in Thread : call'[t].stage = "insert" => call'[t] = call[t]
      PROVE  CopyHolds'
  BY <1>4, StillThere DEF CopyHolds, Holds
<1>5. ASSUME OrtBufs \cap D = {},
             \A s \in DOMAIN live' : s \in DOMAIN live /\ live'[s] = live[s],
             \A p \in DOMAIN tensors' : p \in DOMAIN tensors /\ tensors'[p] = tensors[p]
      PROVE  TensorHolds'
  BY <1>5, StillThere DEF TensorHolds
<1> QED BY <1>1, <1>2, <1>3, <1>4, <1>5

\* A step that writes to nothing, or to memory that nobody owned.
LEMMA NothingWritten == UNCHANGED holds => Undisturbed({})
BY DEF Undisturbed

LEMMA FreshWritten ==
  ASSUME Ordinary, HoldsT, NEW b \in Memory, b \notin Owned, NEW v,
         holds' = [holds EXCEPT ![b][0] = v]
  PROVE  Undisturbed({}) /\ holds'[b][0] = v
<1>1. holds'[b][0] = v
  BY ZeroOffset DEF HoldsT
<1>2. \A q \in Memory \ {b} : holds'[q] = holds[q]
  BY DEF HoldsT
<1> QED BY <1>1, <1>2, Kinds DEF Undisturbed, Owned

----------------------------------------------------------------------------
(* The actions of the cache keep contents.                                 *)

LEMMA MissKeepsContent ==
  ASSUME Ordinary, MemoryInv, ContentInv, NEW t \in Thread, NEW a \in Ask, AskCache(t, a),
         Miss(t, a), UNCHANGED providerVars
  PROVE  ContentInv'
<1>1. /\ UNCHANGED <<holds, entry, env, handle, live, tensors>>
      /\ call' = [call EXCEPT ![t] = [stage |-> "build", ask |-> a]]
  BY DEF Miss, AskCache, MakeZero, sessionVars, providerVars
<1>2. \A u \in Thread : call'[u].stage = "insert" => call'[u] = call[u]
  BY <1>1 DEF MemoryInv, TypeInv, CallT
<1>3. Undisturbed({})
  BY <1>1, NothingWritten
<1> QED BY <1>1, <1>2, <1>3, StillHolds DEF ContentInv

LEMMA ZeroKeepsContent ==
  ASSUME Ordinary, FaithfulKeys, MemoryInv, ContentInv, NEW t \in Thread, NEW a \in Ask,
         AskCache(t, a), NEW b, NEW s, MakeZero(a, b, s), UNCHANGED providerVars
  PROVE  ContentInv'
<1>1. /\ UNCHANGED <<call, env, handle, live, tensors>>
      /\ CreateFilled(b, s) /\ ~Cached(a)
      /\ entry' = [k \in DOMAIN entry \cup {KeyOf(a)} |-> IF k \in DOMAIN entry THEN entry[k] ELSE b]
      /\ holds' = [holds EXCEPT ![b][0] = Made(a)]
  BY DEF MakeZero, AskCache, sessionVars, providerVars
<1>2. b \in Memory /\ b \notin Owned
  BY <1>1, Filled DEF MemoryInv, TypeInv, WorkInv
<1>3. Undisturbed({}) /\ holds'[b][0] = Made(a)
  <2> DEFINE v == Made(a)
  <2>1. holds' = [holds EXCEPT ![b][0] = v]
    BY <1>1
  <2> HIDE DEF v
  <2>2. Undisturbed({}) /\ holds'[b][0] = v
    BY <1>2, <2>1, FreshWritten DEF MemoryInv, TypeInv
  <2> QED BY <2>2 DEF v
<1>4. EntryHolds'
  <2> SUFFICES ASSUME NEW c \in Ask, Cached(c)' PROVE holds'[entry'[KeyOf(c)]][0] = Made(c)
    BY DEF EntryHolds, Holds, Entry
  <2>1. CASE Cached(c)
    <3>1. entry'[KeyOf(c)] = Entry(c)
      BY <1>1, <2>1 DEF Cached, Entry
    <3> QED BY <1>3, <2>1, <3>1, StillThere
  <2>2. CASE ~Cached(c)
    <3>1. KeyOf(c) = KeyOf(a) /\ entry'[KeyOf(c)] = b
      BY <1>1, <2>2 DEF Cached
    <3> QED BY <1>3, <3>1 DEF FaithfulKeys
  <2> QED BY <2>1, <2>2
<1> QED BY <1>1, <1>3, <1>4, StillHolds DEF ContentInv

LEMMA BuildKeepsContent ==
  ASSUME Ordinary, MemoryInv, ContentInv, NEW t \in Thread, NEW r, Build(t, r),
         UNCHANGED <<sessionVars, providerVars>>
  PROVE  ContentInv'
<1> DEFINE a == call[t].ask
           v == Made(a)
<1>1. /\ UNCHANGED <<entry, env, handle, live, tensors>>
      /\ call[t].stage = "build" /\ r \in Obtainable(Resources(a))
      /\ call' = [call EXCEPT ![t] = [stage |-> "insert", ask |-> a, copy |-> r]]
      /\ holds' = [holds EXCEPT ![r][0] = v]
  BY DEF Build, sessionVars, providerVars
<1>2. r \in Memory /\ r \notin Owned
  <2>1. Resources(a) \subseteq Resource
    BY DEF Resources, Resource
  <2> QED BY <1>1, <2>1, ObtainableIs, Kinds DEF Owned
<1> HIDE DEF v
<1>3. Undisturbed({}) /\ holds'[r][0] = v
  BY <1>1, <1>2, FreshWritten DEF MemoryInv, TypeInv
<1>4. \A u \in Thread :
        call'[u] = IF u = t THEN [stage |-> "insert", ask |-> a, copy |-> r] ELSE call[u]
  BY <1>1 DEF MemoryInv, TypeInv, CallT
<1>5. CopyHolds'
  BY <1>3, <1>4, StillThere DEF CopyHolds, Holds, v
<1> QED BY <1>1, <1>3, <1>5, StillHolds DEF ContentInv

LEMMA InsertKeepsContent ==
  ASSUME Ordinary, FaithfulKeys, MemoryInv, ContentInv, NEW t \in Thread, Insert(t),
         UNCHANGED <<sessionVars, providerVars>>
  PROVE  ContentInv'
<1> DEFINE a == call[t].ask
           r == call[t].copy
<1>1. /\ UNCHANGED <<env, handle, live, tensors>>
      /\ call[t].stage = "insert" /\ call' = [call EXCEPT ![t] = NoCall]
  BY DEF Insert, sessionVars, providerVars
<1>2. \A u \in Thread : call'[u].stage = "insert" => call'[u] = call[u] /\ u # t
  BY <1>1, AbsentIs DEF MemoryInv, TypeInv, CallT
<1>3. a \in Ask /\ r \in BuiltBufs /\ r \in Memory
  BY <1>1, CallOf, Kinds DEF BuiltBufs, MemoryInv, TypeInv
<1>4. CASE Cached(a)
  <2>1. /\ UNCHANGED entry
        /\ holds' = [m \in Memory |-> IF m \in {r} THEN Blank ELSE holds[m]]
    BY <1>4 DEF Insert, DestroyNow
  <2>2. Undisturbed({r})
    BY <2>1, Kinds DEF Undisturbed, Owned
  <2>3. /\ (RunBufs \cup ArcBufs) \cap {r} = {} /\ CacheBufs \cap {r} = {}
        /\ OrtBufs \cap {r} = {}
    BY <1>3 DEF MemoryInv, LedgerInv, Split
  <2>4. CopyHolds'
    <3> SUFFICES ASSUME NEW u \in Thread, call'[u].stage = "insert"
                 PROVE  holds'[call[u].copy][0] = Made(call[u].ask)
      BY <1>2 DEF CopyHolds, Holds
    <3>1. call[u].stage = "insert" /\ call[u].copy # r
      BY <1>1, <1>2 DEF MemoryInv, LedgerInv, OneCopy
    <3>2. call[u].copy \in Memory
      BY <3>1, CallOf, Kinds DEF MemoryInv, TypeInv
    <3> QED BY <2>1, <3>1, <3>2 DEF ContentInv, CopyHolds, Holds
  <2> QED BY <1>1, <2>1, <2>2, <2>3, <2>4, StillHolds DEF ContentInv
<1>5. CASE ~Cached(a)
  <2>1. /\ UNCHANGED holds
        /\ entry' = [k \in DOMAIN entry \cup {KeyOf(a)} |-> IF k \in DOMAIN entry THEN entry[k] ELSE r]
    BY <1>5 DEF Insert
  <2>2. Undisturbed({})
    BY <2>1, NothingWritten
  <2>3. EntryHolds'
    <3> SUFFICES ASSUME NEW c \in Ask, Cached(c)' PROVE holds[entry'[KeyOf(c)]][0] = Made(c)
      BY <2>1 DEF EntryHolds, Holds, Entry
    <3>1. CASE Cached(c)
      BY <2>1, <3>1 DEF Cached, Entry, ContentInv, EntryHolds, Holds
    <3>2. CASE ~Cached(c)
      <4>1. KeyOf(c) = KeyOf(a) /\ entry'[KeyOf(c)] = r
        BY <2>1, <3>2 DEF Cached
      <4>2. holds[r][0] = Made(a)
        BY <1>1 DEF ContentInv, CopyHolds, Holds
      <4> QED BY <1>3, <4>1, <4>2 DEF FaithfulKeys
    <3> QED BY <3>1, <3>2
  <2> QED BY <1>1, <1>2, <2>2, <2>3, StillHolds DEF ContentInv
<1> QED BY <1>4, <1>5

LEMMA DropSessionKeepsContent ==
  ASSUME Ordinary, MemoryInv, ContentInv, DropSession, UNCHANGED providerVars
  PROVE  ContentInv'
<1>1. /\ UNCHANGED <<call, env, handle, live, tensors>>
      /\ \A t \in Thread : call[t].stage = "none"
      /\ DOMAIN entry' = {}
  BY DEF DropSession, DropEntries, sessionVars, providerVars
<1>2. PICK dropped : /\ dropped \subseteq CacheBufs
                     /\ holds' = [m \in Memory |-> IF m \in dropped THEN Blank ELSE holds[m]]
  <2>1. {entry[k] : k \in {k \in DOMAIN entry : k[1] # "transposed"}} \subseteq CacheBufs
    BY DEF CacheBufs
  <2> QED BY <2>1 DEF DropSession, DropEntries
<1>3. Undisturbed(CacheBufs)
  BY <1>2, Kinds DEF Undisturbed, Owned
<1>4. /\ (RunBufs \cup ArcBufs) \cap CacheBufs = {} /\ BuiltBufs \cap CacheBufs = {}
      /\ OrtBufs \cap CacheBufs = {}
  BY DEF MemoryInv, LedgerInv, Split
<1>5. EntryHolds'
  BY <1>1 DEF EntryHolds, Cached
<1> QED BY <1>1, <1>3, <1>4, <1>5, StillHolds DEF ContentInv

LEMMA DeviceKeepsContent ==
  ASSUME Ordinary, MemoryInv, ContentInv, DeviceStep, UNCHANGED <<sessionVars, providerVars>>
  PROVE  ContentInv'
<1>1. /\ UNCHANGED <<entry, call, env, handle, live, tensors>>
      /\ holds' = [m \in Memory |-> IF place'[m] = "none" THEN Blank ELSE holds[m]]
  BY DEF DeviceStep, cacheVars, sessionVars, providerVars
<1>2. Undisturbed({})
  BY <1>1, DeviceMoves, Kinds DEF Undisturbed, Owned
<1> QED BY <1>1, <1>2, StillHolds DEF ContentInv

----------------------------------------------------------------------------
(* The actions of a session and of its clients keep contents.              *)

\* Whatever a run can read on the device is there: what it borrows, ORT's tensor is.
LEMMA ReadsAreThere ==
  ASSUME Ordinary, MemoryInv, ContentInv, NEW t \in Thread, NEW n \in Name, OnDevice(env[t][n])
  PROVE  holds[env[t][n].buf][0] = Is(env[t][n].value)
<1>1. CASE env[t][n].home \in {"owned", "shared"}
  BY <1>1 DEF ContentInv, EnvHolds, Holds
<1>2. CASE env[t][n].home = "borrowed"
  <2>1. PICK s \in DOMAIN live : /\ live[s].buf = env[t][n].buf
                                 /\ s \in DOMAIN tensors /\ tensors[s] = env[t][n].value
    BY <1>2 DEF MemoryInv, AddressInv
  <2>2. s + 0 = s
    BY LiveIs DEF MemoryInv, TypeInv
  <2>3. holds[live[s].buf][0] = Is(tensors[s])
    BY <2>1, <2>2, ZeroOffset DEF ContentInv, TensorHolds
  <2> QED BY <2>1, <2>3
<1> QED BY <1>1, <1>2 DEF OnDevice

LEMMA BeginKeepsContent ==
  ASSUME Ordinary, MemoryInv, ContentInv, NEW t \in Thread,
         NEW pick \in [Inputs -> Handle \cup {"host"}], Begin(t, SupplyFrom(pick)),
         UNCHANGED providerVars
  PROVE  ContentInv'
<1> DEFINE f == [n \in Name |-> IF n \in Inputs THEN SupplyFrom(pick)[n] ELSE Absent]
<1>1. /\ UNCHANGED <<holds, entry, call, handle, live, tensors>>
      /\ env' = [env EXCEPT ![t] = f]
      /\ \A n \in Inputs : SupplyFrom(pick)[n] # Absent
  BY DEF Begin, streamVars, cacheVars, providerVars
<1>2. \A n \in Name : f[n].home \in {"owned", "shared"} =>
        \E h \in Handle : f[n] = handle[h] /\ handle[h].home = "shared"
  <2> SUFFICES ASSUME NEW n \in Name, f[n].home \in {"owned", "shared"}
               PROVE  \E h \in Handle : f[n] = handle[h] /\ handle[h].home = "shared"
    OBVIOUS
  <2>1. CASE n \in Inputs
    <3>1. f[n] = IF pick[n] \in Handle THEN handle[pick[n]] ELSE FromHost(n)
      BY <2>1 DEF SupplyFrom
    <3>2. FromHost(n).home = "host"
      BY DEF FromHost
    <3>3. pick[n] \in Handle /\ f[n] = handle[pick[n]] /\ handle[pick[n]] # Absent
      BY <1>1, <2>1, <3>1, <3>2 DEF SupplyFrom
    <3>4. handle[pick[n]].home = "shared"
      BY <3>3, HandleIs DEF MemoryInv, TypeInv
    <3> QED BY <3>3, <3>4
  <2>2. CASE n \notin Inputs
    BY <2>2, AbsentIs
  <2> QED BY <2>1, <2>2
<1>3. \A u \in Thread, n \in Name : env'[u][n] = IF u = t THEN f[n] ELSE env[u][n]
  BY <1>1 DEF MemoryInv, TypeInv, EnvT
<1> HIDE DEF f
<1>4. EnvHolds'
  BY <1>1, <1>2, <1>3 DEF ContentInv, EnvHolds, HandleHolds, Holds
<1>5. Undisturbed({})
  BY <1>1, NothingWritten
<1> QED BY <1>1, <1>4, <1>5, StillHolds DEF ContentInv

\* A name is bound to a buffer that was made for it and holds the value it is bound to.
LEMMA GainHolds ==
  ASSUME Ordinary, MemoryInv, ContentInv, NEW t \in Thread, NEW n \in Name, NEW b \in Memory,
         NEW v, b \notin Owned, holds' = [holds EXCEPT ![b][0] = Is(v)],
         env'[t][n].home = "owned", env'[t][n].buf = b, env'[t][n].value = v,
         \A u \in Thread, m \in Name :
           ~(u = t /\ m = n) /\ env'[u][m].home \in {"owned", "shared"} => env'[u][m] = env[u][m]
  PROVE  EnvHolds' /\ Undisturbed({})
<1> DEFINE w == Is(v)
<1>1. holds' = [holds EXCEPT ![b][0] = w]
  OBVIOUS
<1> HIDE DEF w
<1>2. Undisturbed({}) /\ holds'[b][0] = w
  BY <1>1, FreshWritten DEF MemoryInv, TypeInv
<1>3. EnvHolds'
  BY <1>2, StillThere DEF EnvHolds, Holds, w
<1> QED BY <1>2, <1>3

LEMMA EnsureKeepsContent ==
  ASSUME Ordinary, MemoryInv, ContentInv, NEW t \in Thread, NEW n \in Name, NEW b, NEW s,
         EnsureDevice(t, n, b, s), UNCHANGED providerVars
  PROVE  ContentInv'
<1>1. /\ UNCHANGED <<entry, call, handle, live, tensors>>
      /\ CreateFilled(b, s)
      /\ holds' = [holds EXCEPT ![b][0] = Is(env[t][n].value)]
      /\ env' = [env EXCEPT ![t][n] = [home |-> "owned", buf |-> b, value |-> env[t][n].value]]
  BY DEF EnsureDevice, cacheVars, providerVars
<1>2. b \in Memory /\ b \notin Owned
  BY <1>1, Filled DEF MemoryInv, TypeInv, WorkInv
<1> DEFINE v == env[t][n].value
           x == [home |-> "owned", buf |-> b, value |-> v]
<1>3. x.home = "owned" /\ x.buf = b /\ x.value = v
  OBVIOUS
<1>4. holds' = [holds EXCEPT ![b][0] = Is(v)] /\ env' = [env EXCEPT ![t][n] = x]
  BY <1>1
<1> HIDE DEF x, v
<1>5. \A u \in Thread, m \in Name : env'[u][m] = IF u = t /\ m = n THEN x ELSE env[u][m]
  BY <1>4 DEF MemoryInv, TypeInv, EnvT
<1>6. EnvHolds' /\ Undisturbed({})
  <2>1. env'[t][n].home = "owned" /\ env'[t][n].buf = b /\ env'[t][n].value = v
    BY <1>3, <1>5
  <2>2. \A u \in Thread, m \in Name :
          ~(u = t /\ m = n) /\ env'[u][m].home \in {"owned", "shared"} => env'[u][m] = env[u][m]
    BY <1>5
  <2>3. PICK w : w = v
    OBVIOUS
  <2> QED BY <1>2, <1>4, <2>1, <2>2, <2>3, GainHolds
<1> QED BY <1>1, <1>6, StillHolds DEF ContentInv

LEMMA RunNodeKeepsContent ==
  ASSUME Ordinary, MemoryInv, ContentInv, NEW t \in Thread, NEW b \in Buffer, RunNode(t, b),
         UNCHANGED providerVars
  PROVE  ContentInv'
<1> DEFINE node == Current(t)
           asked == Range(node.asks)
           reads == {env[t][n] : n \in node.reads}
           result == [run |-> run[t].id, name |-> node.writes]
           x == [home |-> "owned", buf |-> b, value |-> result]
           right == /\ \A a \in asked : holds[Entry(a)][0] = Made(a)
                    /\ \A y \in reads : holds[y.buf][0] = Is(y.value)
           f == [n \in Name |-> CASE n = node.writes -> x
                                  [] n \in node.dead -> Absent
                                  [] OTHER -> env[t][n]]
<1>1. /\ UNCHANGED <<entry, call, handle, live, tensors>>
      /\ run[t].phase = "run" /\ b \in Obtainable(Buffer)
      /\ \A a \in asked : Cached(a)
      /\ \A y \in reads : OnDevice(y)
      /\ holds' = [holds EXCEPT ![b][0] = IF right THEN Is(result) ELSE Garbage]
      /\ env' = [env EXCEPT ![t] = f]
  BY DEF RunNode, Running, cacheVars, providerVars
<1>2. /\ node.reads \subseteq Name /\ asked \subseteq Ask /\ node.writes \in Name
      /\ node.writes \notin node.dead
  BY <1>1, NodeIs DEF MemoryInv, TypeInv
<1>3. b \in Memory /\ b \notin Owned
  BY <1>1, ObtainableIs, Kinds DEF Owned
<1>4. right
  <2>1. \A a \in asked : holds[Entry(a)][0] = Made(a)
    BY <1>1, <1>2 DEF ContentInv, EntryHolds, Holds
  <2>2. \A n \in node.reads : holds[env[t][n].buf][0] = Is(env[t][n].value)
    <3> SUFFICES ASSUME NEW n \in node.reads PROVE holds[env[t][n].buf][0] = Is(env[t][n].value)
      OBVIOUS
    <3>1. n \in Name /\ OnDevice(env[t][n])
      BY <1>1, <1>2
    <3> QED BY <3>1, ReadsAreThere
  <2> QED BY <2>1, <2>2
<1>5. x.home = "owned" /\ x.buf = b /\ x.value = result
  OBVIOUS
<1>6. \A n \in Name : f[n] = IF n = node.writes THEN x
                             ELSE IF n \in node.dead THEN Absent ELSE env[t][n]
  BY <1>2
<1> HIDE DEF f, x, right, result, node
<1>7. \A u \in Thread, n \in Name : env'[u][n] = IF u = t THEN f[n] ELSE env[u][n]
  BY <1>1 DEF MemoryInv, TypeInv, EnvT
<1>8. holds' = [holds EXCEPT ![b][0] = Is(result)]
  BY <1>1, <1>4
<1>9. env'[t][node.writes] = x
  BY <1>2, <1>6, <1>7
<1>10. \A u \in Thread, m \in Name :
         ~(u = t /\ m = node.writes) /\ env'[u][m].home \in {"owned", "shared"} =>
           env'[u][m] = env[u][m]
  BY <1>6, <1>7, AbsentIs
<1>11. EnvHolds' /\ Undisturbed({})
  <2>1. PICK n \in Name : n = node.writes
    BY <1>2
  <2> QED BY <1>3, <1>5, <1>8, <1>9, <1>10, <2>1, GainHolds
<1> QED BY <1>1, <1>11, StillHolds DEF ContentInv

LEMMA TakeKeepsContent ==
  ASSUME Ordinary, MemoryInv, ContentInv, NEW t \in Thread, NEW n \in Name, NEW h \in Handle,
         Take(t, n, h), UNCHANGED providerVars
  PROVE  ContentInv'
<1> DEFINE x == [home |-> "shared", buf |-> env[t][n].buf, value |-> env[t][n].value]
<1>1. /\ UNCHANGED <<holds, entry, call, live, tensors>>
      /\ env[t][n].home = "owned"
      /\ handle' = [handle EXCEPT ![h] = x] /\ env' = [env EXCEPT ![t][n] = Absent]
  BY DEF Take, streamVars, cacheVars, providerVars
<1>2. Undisturbed({})
  BY <1>1, NothingWritten
<1>3. \A u \in Thread, m \in Name : env'[u][m].home \in {"owned", "shared"} => env'[u][m] = env[u][m]
  BY <1>1, AbsentIs DEF MemoryInv, TypeInv, EnvT
<1>4. holds[x.buf][0] = Is(x.value)
  BY <1>1 DEF ContentInv, EnvHolds, Holds
<1> HIDE DEF x
<1>5. \A g \in Handle : handle'[g] = IF g = h THEN x ELSE handle[g]
  BY <1>1 DEF MemoryInv, TypeInv, HandleT
<1>6. HandleHolds'
  BY <1>1, <1>4, <1>5 DEF ContentInv, HandleHolds, Holds
<1> QED BY <1>1, <1>2, <1>3, <1>6, StillHolds DEF ContentInv

LEMMA CloneKeepsContent ==
  ASSUME Ordinary, MemoryInv, ContentInv, NEW h \in Handle, NEW g \in Handle, CloneHandle(h, g),
         UNCHANGED providerVars
  PROVE  ContentInv'
<1>1. /\ UNCHANGED <<holds, entry, call, env, live, tensors>>
      /\ handle' = [handle EXCEPT ![g] = handle[h]]
  BY DEF CloneHandle, streamVars, cacheVars, providerVars
<1>2. \A i \in Handle : handle'[i] = IF i = g THEN handle[h] ELSE handle[i]
  BY <1>1 DEF MemoryInv, TypeInv, HandleT
<1>3. HandleHolds'
  BY <1>1, <1>2 DEF ContentInv, HandleHolds, Holds
<1>4. Undisturbed({})
  BY <1>1, NothingWritten
<1> QED BY <1>1, <1>3, <1>4, StillHolds DEF ContentInv

LEMMA DropHandleKeepsContent ==
  ASSUME Ordinary, MemoryInv, ContentInv, NEW h \in Handle, DropHandle(h), UNCHANGED providerVars
  PROVE  ContentInv'
<1>1. /\ UNCHANGED <<holds, entry, call, env, live, tensors>>
      /\ handle' = [handle EXCEPT ![h] = Absent]
  BY DEF DropHandle, cacheVars, providerVars
<1>2. \A i \in Handle : handle'[i].home = "shared" => handle'[i] = handle[i]
  BY <1>1, AbsentIs DEF MemoryInv, TypeInv, HandleT
<1>3. Undisturbed({})
  BY <1>1, NothingWritten
<1> QED BY <1>1, <1>2, <1>3, StillHolds DEF ContentInv

LEMMA ReleaseKeepsContent ==
  ASSUME Ordinary, MemoryInv, ContentInv, NEW t \in Thread,
         NEW subs, NEW carried, ReleaseOwned(t, subs, carried),
         UNCHANGED <<holds, cacheVars, handle, providerVars>>
  PROVE  ContentInv'
<1> DEFINE f == [n \in Name |-> Absent]
<1>1. /\ UNCHANGED <<holds, entry, call, handle, live, tensors>>
      /\ env' = [env EXCEPT ![t] = f] /\ \A n \in Name : f[n] = Absent
  BY DEF ReleaseOwned, cacheVars, providerVars
<1> HIDE DEF f
<1>2. \A u \in Thread, m \in Name : env'[u][m].home \in {"owned", "shared"} => env'[u][m] = env[u][m]
  BY <1>1, AbsentIs DEF MemoryInv, TypeInv, EnvT
<1>3. Undisturbed({})
  BY <1>1, NothingWritten
<1> QED BY <1>1, <1>2, <1>3, StillHolds DEF ContentInv

----------------------------------------------------------------------------
(* The actions of the execution provider keep contents.                    *)

\* One place in the memory of an allocation is overwritten.
LEMMA RangeWritten ==
  ASSUME Ordinary, MemoryInv, NEW s \in DOMAIN live, NEW o \in Offset, NEW v,
         holds' = [holds EXCEPT ![live[s].buf][o] = v]
  PROVE  /\ Undisturbed(OrtBufs) /\ holds'[live[s].buf][o] = v
         /\ \A r \in DOMAIN live, i \in Offset :
              r # s \/ i # o => holds'[live[r].buf][i] = holds[live[r].buf][i]
         /\ OrtBufs \cap (RunBufs \cup ArcBufs) = {} /\ OrtBufs \cap CacheBufs = {}
         /\ OrtBufs \cap BuiltBufs = {}
<1>1. live[s].buf \in Memory /\ live[s].buf \in OrtBufs
  BY OrtOwns DEF OrtBufs
<1>2. /\ holds'[live[s].buf][o] = v
      /\ \A i \in Offset \ {o} : holds'[live[s].buf][i] = holds[live[s].buf][i]
      /\ \A q \in Memory : q # live[s].buf => holds'[q] = holds[q]
  BY <1>1 DEF MemoryInv, TypeInv, HoldsT
<1>3. \A r \in DOMAIN live : live[r].buf \in Memory /\ (live[r].buf = live[s].buf => r = s)
  BY OrtOwns DEF MemoryInv, LedgerInv, OneRange
<1>4. Undisturbed(OrtBufs)
  BY <1>1, <1>2, Kinds DEF Undisturbed, Owned
<1>5. /\ OrtBufs \cap (RunBufs \cup ArcBufs) = {} /\ OrtBufs \cap CacheBufs = {}
      /\ OrtBufs \cap BuiltBufs = {}
  BY DEF MemoryInv, LedgerInv, Split
<1>6. \A r \in DOMAIN live, i \in Offset :
        r # s \/ i # o => holds'[live[r].buf][i] = holds[live[r].buf][i]
  BY <1>2, <1>3
<1> QED BY <1>2, <1>4, <1>5, <1>6

\* No two places of allocations have one address.
LEMMA OnePlace ==
  ASSUME Ordinary, MemoryInv, NEW s \in DOMAIN live, NEW r \in DOMAIN live,
         NEW o \in Offset, NEW i \in Offset, s + o = r + i
  PROVE  s = r /\ o = i
<1>1. /\ s \in Nat /\ live[s].span \in Nat /\ live[s].span >= 2 /\ o \in 0 .. 1
      /\ r \in Nat /\ live[r].span \in Nat /\ live[r].span >= 2 /\ i \in 0 .. 1
  BY LiveIs DEF MemoryInv, TypeInv, Page, Offset
<1>2. s = r \/ s + live[s].span <= r \/ r + live[r].span <= s
  BY DEF MemoryInv, AddressInv
<1> QED BY <1>1, <1>2

\* The bytes of a tensor of ORT are where its address resolves to.
LEMMA TensorIsThere ==
  ASSUME Ordinary, MemoryInv, ContentInv, NEW p \in DOMAIN tensors
  PROVE  Resolve(p) # <<>> /\ holds[Resolve(p)[1]][Resolve(p)[2]] = Is(tensors[p])
<1>1. PICK s \in DOMAIN live, o \in Offset :
        /\ p = s + o /\ Resolve(p) # <<>> /\ Resolve(p)[1] = live[s].buf /\ Resolve(p)[2] = o
  BY PlaceOf DEF MemoryInv, TypeInv
<1>2. holds[live[s].buf][o] = Is(tensors[p])
  BY <1>1 DEF ContentInv, TensorHolds
<1> QED BY <1>1, <1>2

\* The step is ORT's: it changes what is at its addresses, and what is bound nowhere.
OnlyTensors == UNCHANGED <<entry, call, env, handle, live>>

\* What RangeWritten says of offset o of allocation s.
Overwritten(s, o, w) ==
  /\ Undisturbed(OrtBufs) /\ holds'[live[s].buf][o] = w
  /\ \A r \in DOMAIN live, j \in Offset :
       r # s \/ j # o => holds'[live[r].buf][j] = holds[live[r].buf][j]
  /\ OrtBufs \cap (RunBufs \cup ArcBufs) = {} /\ OrtBufs \cap CacheBufs = {}
  /\ OrtBufs \cap BuiltBufs = {}

\* A write to what a vacant address resolves to overwrites one place.
LEMMA PlaceWritten ==
  ASSUME Ordinary, MemoryInv, NEW q \in Vacant, NEW w,
         holds' = [holds EXCEPT ![Resolve(q)[1]][Resolve(q)[2]] = w]
  PROVE  \E s \in DOMAIN live, o \in Offset : q = s + o /\ Overwritten(s, o, w)
<1>1. PICK s \in DOMAIN live, o \in Offset :
        q = s + o /\ Resolve(q)[1] = live[s].buf /\ Resolve(q)[2] = o
  BY PlaceOf DEF MemoryInv, TypeInv
<1>2. holds' = [holds EXCEPT ![live[s].buf][o] = w]
  BY <1>1
<1>3. Overwritten(s, o, w)
  BY <1>2, RangeWritten DEF Overwritten
<1> QED BY <1>1, <1>3

\* ORT gets a tensor at a vacant place, with its bytes.
LEMMA GainedAt ==
  ASSUME Ordinary, MemoryInv, ContentInv, NEW q \in Vacant, NEW v, NEW w, w = Is(v),
         OnlyTensors, tensors' = With(tensors, q, v),
         holds' = [holds EXCEPT ![Resolve(q)[1]][Resolve(q)[2]] = w]
  PROVE  ContentInv'
<1>1. PICK s \in DOMAIN live, o \in Offset : q = s + o /\ Overwritten(s, o, w)
  BY PlaceWritten
<1>2. /\ DOMAIN tensors' = DOMAIN tensors \cup {q} /\ tensors'[q] = v
      /\ \A p \in DOMAIN tensors \ {q} : tensors'[p] = tensors[p]
  BY DEF With
<1>3. TensorHolds'
  <2> SUFFICES ASSUME NEW r \in DOMAIN live, NEW j \in Offset, r + j \in DOMAIN tensors'
               PROVE  holds'[live[r].buf][j] = Is(tensors'[r + j])
    BY DEF TensorHolds, OnlyTensors
  <2>1. CASE r = s /\ j = o
    BY <1>1, <1>2, <2>1 DEF Overwritten
  <2>2. CASE ~(r = s /\ j = o)
    <3>1. r + j # q
      BY <1>1, <2>2, OnePlace
    <3>2. r + j \in DOMAIN tensors /\ tensors'[r + j] = tensors[r + j]
      BY <1>2, <3>1
    <3> QED BY <1>1, <2>2, <3>2 DEF ContentInv, TensorHolds, Overwritten
  <2> QED BY <2>1, <2>2
<1>4. UNCHANGED <<entry, call, env, handle>>
  BY DEF OnlyTensors
<1> QED BY <1>1, <1>3, <1>4, StillHolds DEF ContentInv, Overwritten

LEMMA AllocKeepsContent ==
  ASSUME Ordinary, MemoryInv, ContentInv, NEW size \in Sizes, NEW start \in Address, NEW b,
         Alloc(size, start, b)
  PROVE  ContentInv'
<1>1. /\ UNCHANGED <<entry, call, env, handle, tensors>>
      /\ \A s \in DOMAIN live : start + Span(size) <= s \/ s + live[s].span <= start
      /\ b \in Obtainable(Buffer)
      /\ holds' = [holds EXCEPT ![b] = Blank]
      /\ live' = With(live, start, [span |-> Span(size), size |-> size, buf |-> b])
  BY DEF Alloc, cacheVars, sessionVars
<1>2. b \in Memory /\ b \notin Owned
  BY <1>1, ObtainableIs, Kinds DEF Owned
<1>3. Undisturbed({})
  BY <1>1, <1>2, Kinds DEF Undisturbed, Owned, MemoryInv, TypeInv, HoldsT
<1>4. start \in Nat /\ size \in Nat /\ Span(size) \in Nat /\ Span(size) >= 2
  <2>1. start \in Nat /\ size \in Nat
    BY DEF Ordinary
  <2>2. size # 0 => (size + 1) \div 2 >= 1 /\ (size + 1) \div 2 \in Nat
    BY <2>1
  <2> QED BY <2>1, <2>2 DEF Span, Page
<1>5. \A p \in DOMAIN tensors, o \in Offset : p # start + o
  <2> SUFFICES ASSUME NEW p \in DOMAIN tensors, NEW o \in Offset, p = start + o PROVE FALSE
    OBVIOUS
  <2>1. PICK s \in DOMAIN live, i \in Offset : p = s + i
    BY DEF MemoryInv, AddressInv
  <2>2. s \in Nat /\ live[s].span \in Nat /\ live[s].span >= 2 /\ o \in 0 .. 1 /\ i \in 0 .. 1
    BY LiveIs DEF MemoryInv, TypeInv, Page, Offset
  <2> QED BY <1>1, <1>4, <2>1, <2>2
<1>6. /\ DOMAIN live' = DOMAIN live \cup {start}
      /\ \A s \in DOMAIN live \ {start} : live'[s] = live[s]
  BY <1>1 DEF With
<1>7. TensorHolds'
  <2> SUFFICES ASSUME NEW s \in DOMAIN live', NEW o \in Offset, s + o \in DOMAIN tensors
               PROVE  holds'[live'[s].buf][o] = Is(tensors[s + o])
    BY <1>1 DEF TensorHolds
  <2>1. s # start
    BY <1>5
  <2>2. s \in DOMAIN live /\ live'[s] = live[s]
    BY <1>6, <2>1
  <2> QED BY <1>3, <2>2, StillThere
<1> QED BY <1>1, <1>3, <1>7, StillHolds DEF ContentInv

LEMMA FreeKeepsContent ==
  ASSUME Ordinary, MemoryInv, ContentInv, NEW start, Free(start)
  PROVE  ContentInv'
<1>1. /\ UNCHANGED <<holds, entry, call, env, handle, tensors>>
      /\ live' = Without(live, start)
  BY DEF Free, cacheVars, sessionVars
<1>2. \A s \in DOMAIN live' : s \in DOMAIN live /\ live'[s] = live[s]
  BY <1>1 DEF Without
<1>3. Undisturbed({})
  BY <1>1, NothingWritten
<1> QED BY <1>1, <1>2, <1>3, StillHolds DEF ContentInv

LEMMA ForgetKeepsContent ==
  ASSUME Ordinary, MemoryInv, ContentInv, NEW p, ForgetTensor(p)
  PROVE  ContentInv'
<1>1. /\ UNCHANGED <<entry, call, env, handle, live>>
      /\ p \in DOMAIN tensors /\ tensors' = Without(tensors, p)
      /\ holds' = [holds EXCEPT ![Resolve(p)[1]][Resolve(p)[2]] = Nothing]
  BY DEF ForgetTensor, cacheVars, sessionVars
<1>2. PICK s \in DOMAIN live, o \in Offset :
        p = s + o /\ Resolve(p)[1] = live[s].buf /\ Resolve(p)[2] = o
  BY <1>1, PlaceOf DEF MemoryInv, TypeInv
<1>3. holds' = [holds EXCEPT ![live[s].buf][o] = Nothing]
  BY <1>1, <1>2
<1>4. /\ Undisturbed(OrtBufs)
      /\ \A r \in DOMAIN live, i \in Offset :
           r # s \/ i # o => holds'[live[r].buf][i] = holds[live[r].buf][i]
      /\ OrtBufs \cap (RunBufs \cup ArcBufs) = {} /\ OrtBufs \cap CacheBufs = {}
      /\ OrtBufs \cap BuiltBufs = {}
  BY <1>3, RangeWritten
<1>5. DOMAIN tensors' = DOMAIN tensors \ {p} /\ \A q \in DOMAIN tensors' : tensors'[q] = tensors[q]
  BY <1>1 DEF Without
<1>6. TensorHolds'
  BY <1>1, <1>2, <1>4, <1>5 DEF ContentInv, TensorHolds
<1> QED BY <1>1, <1>4, <1>6, StillHolds DEF ContentInv

LEMMA CopyInKeepsContent ==
  ASSUME Ordinary, MemoryInv, ContentInv, NEW p, NEW n \in Inputs, NEW s, CopyIn(p, n, s)
  PROVE  ContentInv'
<1>1. /\ UNCHANGED <<entry, call, env, handle, live>>
      /\ p \in Vacant /\ tensors' = With(tensors, p, FromHost(n).value)
      /\ holds' = [holds EXCEPT ![Resolve(p)[1]][Resolve(p)[2]] = Is(FromHost(n).value)]
  BY DEF CopyIn, cacheVars, sessionVars
<1>2. PICK v, w : /\ v = FromHost(n).value /\ w = Is(v)
                  /\ tensors' = With(tensors, p, v)
                  /\ holds' = [holds EXCEPT ![Resolve(p)[1]][Resolve(p)[2]] = w]
  BY <1>1
<1> QED BY <1>1, <1>2, GainedAt DEF OnlyTensors

LEMMA CopyAcrossKeepsContent ==
  ASSUME Ordinary, MemoryInv, ContentInv, NEW p, NEW q, CopyAcross(p, q)
  PROVE  ContentInv'
<1>1. /\ UNCHANGED <<entry, call, env, handle, live>>
      /\ p \in DOMAIN tensors /\ q \in Vacant /\ tensors' = With(tensors, q, tensors[p])
      /\ holds' = [holds EXCEPT ![Resolve(q)[1]][Resolve(q)[2]] =
                                  holds[Resolve(p)[1]][Resolve(p)[2]]]
  BY DEF CopyAcross, CopyBytes, cacheVars, sessionVars
<1>2. holds[Resolve(p)[1]][Resolve(p)[2]] = Is(tensors[p])
  BY <1>1, TensorIsThere
<1>3. PICK v, w : /\ v = tensors[p] /\ w = Is(v)
                  /\ tensors' = With(tensors, q, v)
                  /\ holds' = [holds EXCEPT ![Resolve(q)[1]][Resolve(q)[2]] = w]
  BY <1>1, <1>2
<1> QED BY <1>1, <1>3, GainedAt DEF OnlyTensors

LEMMA WriteOutputKeepsContent ==
  ASSUME Ordinary, MemoryInv, ContentInv, NEW t \in Thread, NEW n \in Name, NEW q,
         WriteOutput(t, n, q)
  PROVE  ContentInv'
<1>1. /\ UNCHANGED <<entry, call, env, handle, live>>
      /\ OnDevice(env[t][n]) /\ q \in Vacant /\ tensors' = With(tensors, q, env[t][n].value)
      /\ holds' = [holds EXCEPT ![Resolve(q)[1]][Resolve(q)[2]] = holds[env[t][n].buf][0]]
  BY DEF WriteOutput, CopyBytes, cacheVars
<1>2. holds[env[t][n].buf][0] = Is(env[t][n].value)
  BY <1>1, ReadsAreThere
<1>3. PICK v, w : /\ v = env[t][n].value /\ w = Is(v)
                  /\ tensors' = With(tensors, q, v)
                  /\ holds' = [holds EXCEPT ![Resolve(q)[1]][Resolve(q)[2]] = w]
  BY <1>1, <1>2
<1> QED BY <1>1, <1>3, GainedAt DEF OnlyTensors

LEMMA ReadInputKeepsContent ==
  ASSUME Ordinary, MemoryInv, ContentInv, NEW t \in Thread, NEW n \in Inputs, NEW p,
         ReadInput(t, n, p)
  PROVE  ContentInv'
<1>1. UNCHANGED <<entry, call, handle, live, tensors>> /\ p \in DOMAIN tensors /\ n \in Name
  BY DEF ReadInput, cacheVars, providerVars, Name
<1>2. holds[Resolve(p)[1]][Resolve(p)[2]] = Is(tensors[p])
  BY <1>1, TensorIsThere
<1>3. ASSUME UNCHANGED holds, NEW b,
             BindInput(t, n, [home |-> "borrowed", buf |-> b, value |-> tensors[p]])
      PROVE  ContentInv'
  <2> DEFINE x == [home |-> "borrowed", buf |-> b, value |-> tensors[p]]
  <2>1. env' = [env EXCEPT ![t][n] = x] /\ x.home = "borrowed"
    BY <1>3 DEF BindInput
  <2> HIDE DEF x
  <2>2. \A u \in Thread, m \in Name :
          env'[u][m].home \in {"owned", "shared"} => env'[u][m] = env[u][m]
    BY <2>1 DEF MemoryInv, TypeInv, EnvT
  <2>3. Undisturbed({})
    BY <1>3, NothingWritten
  <2> QED BY <1>1, <2>2, <2>3, StillHolds DEF ContentInv
<1>4. ASSUME NEW b, b \in Obtainable(Buffer),
             holds' = [holds EXCEPT ![b][0] = holds[Resolve(p)[1]][Resolve(p)[2]]],
             BindInput(t, n, [home |-> "owned", buf |-> b, value |-> tensors[p]])
      PROVE  ContentInv'
  <2> DEFINE v == tensors[p]
             x == [home |-> "owned", buf |-> b, value |-> v]
  <2>1. /\ env' = [env EXCEPT ![t][n] = x] /\ x.home = "owned" /\ x.buf = b /\ x.value = v
        /\ holds' = [holds EXCEPT ![b][0] = Is(v)]
    BY <1>2, <1>4 DEF BindInput
  <2>2. b \in Memory /\ b \notin Owned
    BY <1>4, ObtainableIs, Kinds DEF Owned
  <2> HIDE DEF x, v
  <2>3. \A u \in Thread, m \in Name : env'[u][m] = IF u = t /\ m = n THEN x ELSE env[u][m]
    BY <2>1 DEF MemoryInv, TypeInv, EnvT
  <2>4. env'[t][n].home = "owned" /\ env'[t][n].buf = b /\ env'[t][n].value = v
    BY <1>1, <2>1, <2>3
  <2>5. \A u \in Thread, m \in Name :
          ~(u = t /\ m = n) /\ env'[u][m].home \in {"owned", "shared"} => env'[u][m] = env[u][m]
    BY <2>3
  <2>6. EnvHolds' /\ Undisturbed({})
    BY <1>1, <2>1, <2>2, <2>4, <2>5, GainHolds
  <2> QED BY <1>1, <2>6, StillHolds DEF ContentInv
<1> QED BY <1>3, <1>4 DEF ReadInput, CopyBytes, streamVars

----------------------------------------------------------------------------
(* Contents are kept.                                                      *)

LEMMA NextContent ==
  ASSUME Ordinary, FaithfulKeys, MemoryInv, ContentInv, [Next]_vars
  PROVE  ContentInv'
<1>1. ASSUME NEW t \in Thread, SessionStep(t), UNCHANGED providerVars PROVE ContentInv'
  <2>1. CASE \E pick \in [Inputs -> Handle \cup {"host"}] : Begin(t, SupplyFrom(pick))
    BY <1>1, <2>1, BeginKeepsContent
  <2>2. CASE \E a \in Ask : AskCache(t, a)
    <3>1. PICK a \in Ask : AskCache(t, a)
      BY <2>2
    <3>2. CASE Miss(t, a)
      BY <1>1, <3>1, <3>2, MissKeepsContent
    <3>3. CASE \E b \in Buffer, s \in Staging : MakeZero(a, b, s)
      BY <1>1, <3>1, <3>3, ZeroKeepsContent
    <3> QED BY <3>1, <3>2, <3>3 DEF AskCache
  <2>3. CASE \E n \in Name, b \in Buffer, s \in Staging : EnsureDevice(t, n, b, s)
    BY <1>1, <2>3, EnsureKeepsContent
  <2>4. CASE \E b \in Buffer : RunNode(t, b)
    BY <1>1, <2>4, RunNodeKeepsContent
  <2>5. CASE \E n \in Name : Get(t, n)
    BY <1>1, <2>5, NothingWritten, StillHolds DEF Get, cacheVars, sessionVars, providerVars, ContentInv
  <2>6. CASE \E n \in Name, h \in Handle : Take(t, n, h)
    BY <1>1, <2>6, TakeKeepsContent
  <2>7. CASE Finish(t) \/ Fail(t)
    BY <1>1, <2>7, ReleaseKeepsContent DEF Finish, Fail
  <2>8. CASE CacheStep(t)
    BY <1>1, <2>8, BuildKeepsContent, InsertKeepsContent DEF CacheStep
  <2> QED BY <1>1, <2>1, <2>2, <2>3, <2>4, <2>5, <2>6, <2>7, <2>8 DEF SessionStep
<1>2. CASE ClientStep /\ UNCHANGED providerVars
  <2>1. CASE \E h, g \in Handle : CloneHandle(h, g)
    BY <1>2, <2>1, CloneKeepsContent
  <2>2. CASE \E h \in Handle : DropHandle(h)
    BY <1>2, <2>2, DropHandleKeepsContent
  <2>3. CASE DropSession
    BY <1>2, <2>3, DropSessionKeepsContent
  <2>4. CASE Flush
    BY <1>2, <2>4, NothingWritten, StillHolds DEF Flush, cacheVars, sessionVars, providerVars, ContentInv
  <2>5. CASE DeviceStep /\ UNCHANGED sessionVars
    BY <1>2, <2>5, DeviceKeepsContent
  <2> QED BY <1>2, <2>1, <2>2, <2>3, <2>4, <2>5 DEF ClientStep
<1>3. CASE ProviderStep
  <2>1. ASSUME NEW t \in Thread, Return(t) PROVE ContentInv'
    BY <2>1, ReleaseKeepsContent DEF Return
  <2> QED BY <1>3, <2>1, AllocKeepsContent, FreeKeepsContent, ForgetKeepsContent,
             CopyInKeepsContent, CopyAcrossKeepsContent, ReadInputKeepsContent,
             WriteOutputKeepsContent DEF ProviderStep
<1>4. CASE UNCHANGED vars
  BY <1>4, NothingWritten, StillHolds DEF vars, cacheVars, sessionVars, providerVars, ContentInv
<1> QED BY <1>1, <1>2, <1>3, <1>4 DEF Next

LEMMA ContentAlways == Ordinary /\ FaithfulKeys => (Spec => [](MemoryInv /\ ContentInv))
<1> SUFFICES ASSUME Ordinary, FaithfulKeys PROVE Spec => [](MemoryInv /\ ContentInv)
  OBVIOUS
<1>1. Init => MemoryInv /\ ContentInv
  <2> SUFFICES ASSUME Init PROVE ContentInv
    BY InitMemory
  <2>1. /\ DOMAIN entry = {} /\ call = [t \in Thread |-> NoCall]
        /\ env = [t \in Thread |-> [n \in Name |-> Absent]] /\ handle = [h \in Handle |-> Absent]
        /\ DOMAIN live = {}
    BY DEF Init, CacheInit, SessionInit, ProviderInit
  <2> QED BY <2>1, AbsentIs DEF ContentInv, EnvHolds, HandleHolds, EntryHolds, CopyHolds,
                                TensorHolds, Cached
<1>2. MemoryInv /\ ContentInv /\ [Next]_vars => MemoryInv' /\ ContentInv'
  BY NextMemory, NextContent
<1> QED BY <1>1, <1>2, PTL DEF Spec

\* Where keys are faithful, every value of a run and behind a handle is where it is said
\* to be: a recycled buffer is never one that somebody still reads, and what a kernel
\* reads from the cache is what its node asked for, whichever thread built it.
THEOREM ContentsAlwaysKept == Ordinary /\ FaithfulKeys => (Spec => []ContentsKept)
<1> SUFFICES ASSUME Ordinary, FaithfulKeys PROVE Spec => []ContentsKept
  OBVIOUS
<1>1. MemoryInv /\ ContentInv => ContentsKept
  <2> SUFFICES ASSUME MemoryInv, ContentInv PROVE ContentsKept
    OBVIOUS
  <2>1. \A t \in Thread, n \in Name : Intact(env[t][n])
    BY ReadsAreThere DEF Intact
  <2>2. \A h \in Handle : Intact(handle[h])
    BY HandleIs, AbsentIs DEF Intact, MemoryInv, TypeInv, ContentInv, HandleHolds, Holds
  <2> QED BY <2>1, <2>2 DEF ContentsKept
<1> QED BY <1>1, ContentAlways, PTL

\* The bytes of every tensor that ORT keeps in device memory are where its address
\* resolves to, whatever was freed and mapped again at the same addresses, copied
\* across, or written by runs (region_from_ptr, copy_tensors, write_output).
THEOREM TensorsAlwaysKept == Ordinary /\ FaithfulKeys => (Spec => []TensorsKept)
<1> SUFFICES ASSUME Ordinary, FaithfulKeys PROVE Spec => []TensorsKept
  OBVIOUS
<1>1. MemoryInv /\ ContentInv => TensorsKept
  BY TensorIsThere DEF TensorsKept
<1> QED BY <1>1, ContentAlways, PTL
=============================================================================
