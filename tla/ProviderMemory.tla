---------------------------- MODULE ProviderMemory ----------------------------
(***************************************************************************)
(* The memory of the ONNX Runtime execution provider: allocations handed to *)
(* ORT as address ranges (device_mem.rs), copies into and out of them       *)
(* (data_transfer.rs), and the runs of a compiled subgraph between them     *)
(* (compile/ort_io.rs), beside the sessions of SessionMemory.               *)
(*                                                                         *)
(* ORT takes the pointer it gets for the base of a range and places tensors *)
(* anywhere inside; the provider maps an address back to the allocation and *)
(* an offset.  An address here is a unit of memory, two to a page.          *)
(***************************************************************************)
EXTENDS SessionMemory, FiniteSetsExt

CONSTANTS
  Sizes,         \* of the allocations ORT asks for
  Address,       \* 0 .. n: what mmap may return, and addresses of host memory above
  MaxTensors     \* bound: tensors that ORT keeps in device memory at a time

VARIABLES
  live,          \* LIVE: base address -> [span, size, buf]
  tensors        \* ORT's tensors in device memory: address -> value

providerVars == <<live, tensors>>
vars == <<streamVars, holds, cacheVars, sessionVars, providerVars>>

Page == 2

\* The header, or what is asked for, rounded up to whole pages.
Span(size) == IF size = 0 THEN Page ELSE ((size + Page - 1) \div Page) * Page

Covers(start, p) == start <= p /\ p < start + live[start].span

\* Mutant: an address inside an allocation resolves to its base.
ResolveBase(p) ==
  LET below == {s \in DOMAIN live : s <= p} IN
  IF below # {} /\ Covers(Max(below), p) THEN <<live[Max(below)].buf, 0>> ELSE <<>>

\* region_from_ptr: the allocation with the greatest base not above p, if p is in it.
Resolve(p) ==
  LET below == {s \in DOMAIN live : s <= p} IN
  IF below # {} /\ Covers(Max(below), p)
    THEN <<live[Max(below)].buf, p - Max(below)>>
    ELSE <<>>

ProviderInit ==
  /\ live = [a \in {} |-> {}]
  /\ tensors = [a \in {} |-> {}]

Init == CacheInit /\ SessionInit /\ ProviderInit

Without(f, x)  == [a \in DOMAIN f \ {x} |-> f[a]]
With(f, x, y)  == [a \in DOMAIN f \cup {x} |-> IF a = x THEN y ELSE f[a]]

\* alloc_entry: a buffer, and address space that no live allocation overlaps.
Alloc(size, start, b) ==
  /\ {start + i : i \in 0 .. Span(size) - 1} \subseteq Address
  /\ \A s \in DOMAIN live : start + Span(size) <= s \/ s + live[s].span <= start
  /\ start % Page = 0
  /\ b \in Obtainable(Buffer)
  /\ Stream!Create(b)
  /\ UNCHANGED <<pending, deferred>>
  /\ holds' = [holds EXCEPT ![b] = Blank]
  /\ live' = With(live, start, [span |-> Span(size), size |-> size, buf |-> b])
  /\ UNCHANGED <<cacheVars, sessionVars, tensors>>

\* What a run in progress reads from or writes to, ORT does not free.
Borrowed(b) == \E t \in Thread, n \in Name : env[t][n].home = "borrowed" /\ env[t][n].buf = b

\* free_entry: the range is returned now, the buffer when the device is done with it.
Free(start) ==
  /\ start \in DOMAIN live
  /\ \A p \in DOMAIN tensors : ~Covers(start, p)
  /\ ~Borrowed(live[start].buf)
  /\ MayDrop(Recorded, {live[start].buf})
  /\ live' = Without(live, start)
  /\ place' = [place EXCEPT ![live[start].buf] = "deferred"]
  /\ DeferDestroy(pending, deferred, {live[start].buf})
  /\ UNCHANGED <<newest, recording, uses, holds, cacheVars, sessionVars, tensors>>

\* ORT puts a tensor at an address of its own, inside what it asked for.
Places == {start + o : start \in DOMAIN live, o \in Offset}
Vacant == {p \in Places \ DOMAIN tensors :
             \E s \in DOMAIN live : Covers(s, p) /\ p < s + live[s].size}

\* ORT is done with a tensor: nobody counts on those bytes any more.
ForgetTensor(p) ==
  /\ p \in DOMAIN tensors
  /\ \A t \in Thread : run[t].phase = "idle"
  /\ tensors' = Without(tensors, p)
  /\ holds' = [holds EXCEPT ![Resolve(p)[1]][Resolve(p)[2]] = Nothing]
  /\ UNCHANGED <<streamVars, cacheVars, sessionVars, live>>

\* copy_tensors, host to device.
CopyIn(p, n, s) ==
  /\ p \in Vacant /\ Cardinality(DOMAIN tensors) < MaxTensors
  /\ LET region == Resolve(p) IN
       /\ s \in Obtainable(Staging)
       /\ Stream!Append({region[1], s})
       /\ place' = [place EXCEPT ![s] = "deferred"]
       /\ deferred' = deferred \cup {s}
       /\ holds' = [holds EXCEPT ![region[1]][region[2]] = Is(FromHost(n).value)]
  /\ tensors' = With(tensors, p, FromHost(n).value)
  /\ UNCHANGED <<pending, cacheVars, sessionVars, live>>

\* The device side of a copy from address p to address q.
CopyBytes(from, fromOffset, to, toOffset) ==
  /\ Stream!Append({from, to})
  /\ UNCHANGED <<pending, deferred>>
  /\ holds' = [holds EXCEPT ![to][toOffset] = holds[from][fromOffset]]

\* copy_tensors, device to device.
CopyAcross(p, q) ==
  /\ p \in DOMAIN tensors /\ q \in Vacant /\ Cardinality(DOMAIN tensors) < MaxTensors
  /\ CopyBytes(Resolve(p)[1], Resolve(p)[2], Resolve(q)[1], Resolve(q)[2])
  /\ tensors' = With(tensors, q, tensors[p])
  /\ UNCHANGED <<place, cacheVars, sessionVars, live>>

\* The run of t, which begins with its first input and executes after its last.
BindInput(t, n, tensor) ==
  /\ runs' = IF run[t].phase = "idle" THEN runs + 1 ELSE runs
  /\ env' = [env EXCEPT ![t][n] = tensor]
  /\ run' = [run EXCEPT ![t] =
       [phase |-> IF \A m \in Inputs \ {n} : env[t][m] # Absent THEN "run" ELSE "inputs",
        id    |-> IF run[t].phase = "idle" THEN runs + 1 ELSE run[t].id,
        node  |-> 1]]

\* read_input: a tensor at the base of an allocation is borrowed, one inside is
\* copied to a buffer of its own, because kernels bind whole buffers.
ReadInput(t, n, p) ==
  /\ \/ run[t].phase = "idle" /\ runs < MaxRuns[host]
     \/ run[t].phase = "inputs"
  /\ n \in Inputs /\ env[t][n] = Absent /\ p \in DOMAIN tensors
  /\ LET region == Resolve(p) IN
       \/ /\ region[2] = 0
          /\ BindInput(t, n, [home |-> "borrowed", buf |-> region[1], value |-> tensors[p]])
          /\ UNCHANGED <<streamVars, holds>>
       \/ \E b \in Buffer :
            /\ region[2] # 0
            /\ b \in Obtainable(Buffer)
            /\ CopyBytes(region[1], region[2], b, 0)
            /\ place' = [place EXCEPT ![b] = "owned"]
            /\ BindInput(t, n, [home |-> "owned", buf |-> b, value |-> tensors[p]])
  /\ UNCHANGED <<cacheVars, host, handle, providerVars>>

\* write_output: an output is copied to the address ORT gives it.
WriteOutput(t, n, q) ==
  /\ run[t].phase = "done"
  /\ n \in Outputs /\ OnDevice(env[t][n])
  /\ q \in Vacant /\ Cardinality(DOMAIN tensors) < MaxTensors
  /\ tensors' = With(tensors, q, env[t][n].value)
  /\ CopyBytes(env[t][n].buf, 0, Resolve(q)[1], Resolve(q)[2])
  /\ run' = [run EXCEPT ![t].phase = "written"]
  /\ UNCHANGED <<place, cacheVars, host, runs, env, handle, live>>

\* The end of run: what was recorded is submitted, then the environment released.
Return(t) ==
  /\ run[t].phase = "written"
  /\ HasRoom
  /\ recording' = FALSE
  /\ ReleaseOwned(t, Sent, Kept)
  /\ UNCHANGED <<newest, uses, holds, cacheVars, host, runs, handle, providerVars>>

ProviderStep ==
  \/ \E size \in Sizes, start \in Address, b \in Buffer : Alloc(size, start, b)
  \/ \E start \in Address : Free(start)
  \/ \E p \in Address : ForgetTensor(p)
  \/ \E p \in Address, n \in Inputs, s \in Staging : CopyIn(p, n, s)
  \/ \E p, q \in Address : CopyAcross(p, q)
  \/ \E t \in Thread, n \in Inputs, p \in Address : ReadInput(t, n, p)
  \/ \E t \in Thread, n \in Name, q \in Address : WriteOutput(t, n, q)
  \/ \E t \in Thread : Return(t)

Next ==
  \/ \E t \in Thread : SessionStep(t) /\ UNCHANGED providerVars
  \/ ClientStep /\ UNCHANGED providerVars
  \/ host = "provider" /\ ProviderStep

Spec == Init /\ [][Next]_vars

----------------------------------------------------------------------------
(* Properties.                                                             *)

\* The ranges of live allocations, and the tensors ORT keeps in them.
TypeOK ==
  /\ DOMAIN live \subseteq Address
  /\ \A s \in DOMAIN live : live[s] \in [span : {Span(size) : size \in Sizes}, size : Sizes, buf : Buffer]
  /\ \A p \in DOMAIN tensors : tensors[p] \in Value
  /\ \A t \in Thread : env[t] \in [Name -> {Absent}
        \cup [home : {"host"}, value : Value]
        \cup [home : {"owned", "borrowed", "shared"}, buf : Buffer, value : Value]]
  /\ \A h \in Handle : handle[h] \in {Absent} \cup [home : {"shared"}, buf : Buffer, value : Value]
  /\ \A k \in DOMAIN entry : entry[k] \in Resource
  /\ \A t \in Thread : run[t].phase = "run" => run[t].node \in DOMAIN Program

\* An address that ORT computed inside an allocation resolves to the memory that
\* holds its tensor, whatever was freed and mapped again at the same addresses.
TensorsKept ==
  \A p \in DOMAIN tensors :
    /\ Resolve(p) # <<>>
    /\ holds[Resolve(p)[1]][Resolve(p)[2]] = Is(tensors[p])

\* What has to give a resource back, allocations of ORT included: one place for
\* what is owned, and none for what is not.
OneOwner ==
  \A r \in Resource :
    Cardinality(Owners(r) \cup {<<"ort", s>> : s \in {s \in DOMAIN live : live[s].buf = r}})
      = IF place[r] = "owned" THEN 1 ELSE 0
----------------------------------------------------------------------------
(* The programs and hosts that the proofs are about.                       *)

NodeOfProgram == [asks : Seq(Ask), reads : SUBSET Name, writes : Name, dead : SUBSET Name]

\* Kinds of memory are apart, a node writes a name that nothing else binds and that
\* it does not read, what dies with it is among what it reads (dead_after), and
\* clients do nothing beyond the ordinary.
Ordinary ==
  /\ Buffer \cap Pipeline = {} /\ Buffer \cap Staging = {} /\ Pipeline \cap Staging = {}
  /\ Handle \cap (Thread \X Name) = {}
  /\ \A a \in Ask : a.table \in Tables
  /\ Program \in Seq(NodeOfProgram) /\ Program # <<>>
  /\ \A i, j \in DOMAIN Program :
       /\ Program[i].writes \notin Inputs /\ Program[i].writes \notin Program[i].reads
       /\ Program[i].dead \subseteq Program[i].reads
       /\ Program[i].writes = Program[j].writes => i = j
  /\ \A h \in {"session", "provider"} : MaxRuns[h] \in Nat
  /\ Sizes \subseteq Nat /\ Address \subseteq Nat
  /\ Uses = OrdinaryUse

\* The key of an entry says all that was asked for.
FaithfulKeys == \A a, b \in Ask : KeyOf(a) = KeyOf(b) => a = b
=============================================================================
