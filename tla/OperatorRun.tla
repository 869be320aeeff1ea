------------------------------ MODULE OperatorRun ------------------------------
(***************************************************************************)
(* One operator of a graph, from its dispatch in exec_node to its result:  *)
(* computed on the host at once, or by launches whose workgroups write the *)
(* output in any order.  The lanes of a workgroup that shares memory       *)
(* interleave between barriers.                                            *)
(***************************************************************************)
EXTENDS DevicePlan

CONSTANTS
  Jobs,                  \* the operators with operands that are tried
  Plan(_),               \* how the handler of a job has it computed
  Stored(_, _, _, _),    \* what the thread of an item of a launch stores,
                         \* as <<output, element, value>>
  Part(_, _, _, _, _),   \* what a lane puts into shared memory, from what it took out
  Merged(_, _, _, _),    \* what it makes there of two parts
  LaneStores(_, _, _, _),  \* what a lane stores at the end
  Meaning(_),            \* what ONNX says the outputs of a job are
  Views(_),              \* what may be known of a job when its model is loaded
  Inferred(_, _),        \* the types that are inferred from that of the outputs
  Fits(_, _)             \* a type is true of a tensor

VARIABLES
  job,           \* the operator being run
  plan,          \* how its handler has it computed, <<>> before the dispatch
  at,            \* the launch in progress, 0 before the first
  waiting,       \* its workgroups that have not run
  team,          \* <<>>, or the workgroup that shares memory now
  memory,        \* memory[j]: the elements of output j, then of the temporaries
  stored,        \* the places stored to since the launch began, as <<output, element>>
  results        \* <<>>, or the tensors that the operator left

vars == <<job, plan, at, waiting, team, memory, stored, results>>

----------------------------------------------------------------------------
Init ==
  /\ job \in Jobs
  /\ plan = <<>>
  /\ at = 0
  /\ waiting = {}
  /\ team = <<>>
  /\ memory = <<>>
  /\ stored = {}
  /\ results = <<>>

\* The handler computes on the host, or creates the outputs on the device.
Dispatch ==
  /\ plan = <<>>
  /\ plan' = Plan(job)
  /\ \/ /\ plan'.path = "host"
        /\ results' = plan'.results
        /\ UNCHANGED memory
     \/ /\ plan'.path = "device"
        /\ memory' = [j \in DOMAIN plan'.outs |->
                        [i \in 0 .. Product(plan'.outs[j].shape) - 1 |-> Unwritten]]
                     \o [j \in DOMAIN plan'.scratch |->
                        [i \in 0 .. plan'.scratch[j] - 1 |-> Unwritten]]
        /\ UNCHANGED results
  /\ UNCHANGED <<job, at, waiting, team, stored>>

Busy == waiting # {} \/ team # <<>>

\* A launch begins when the one before it is complete: DeviceWork's promise.
Launch ==
  /\ memory # <<>> /\ ~Busy
  /\ at < Len(plan.launches)
  /\ at' = at + 1
  /\ waiting' = DOMAIN plan.launches[at + 1]
  /\ stored' = {}
  /\ UNCHANGED <<job, plan, team, memory, results>>

Applied(m, stores) ==
  [j \in DOMAIN m |->
     LET mine == {s \in stores : s[1] = j} IN
     [i \in DOMAIN m[j] \cup {s[2] : s \in mine} |->
        IF \E s \in mine : s[2] = i THEN (CHOOSE s \in mine : s[2] = i)[3] ELSE m[j][i]]]
Places(stores) == {<<s[1], s[2]>> : s \in stores}

\* The threads of workgroup g compute their items.
Workgroup(g) ==
  /\ g \in waiting /\ plan.program = <<>>
  /\ waiting' = waiting \ {g}
  /\ LET stores == {Stored(job, memory, at, e) : e \in plan.launches[at][g]} IN
     /\ memory' = Applied(memory, stores)
     /\ stored' = stored \cup Places(stores)
  /\ UNCHANGED <<job, plan, at, team, results>>

\* A workgroup that shares memory begins; one whose row is past the last returns.
\* Workgroups touch no memory of each other's: one runs at a time.
Assemble(g) ==
  /\ g \in waiting /\ plan.program # <<>> /\ team = <<>>
  /\ waiting' = waiting \ {g}
  /\ team' = IF plan.launches[at][g] = {} THEN <<>>
             ELSE [row    |-> CHOOSE r \in plan.launches[at][g] : TRUE,
                   step   |-> [l \in Lanes |-> 1],
                   shared |-> [l \in Lanes |-> 0],
                   taken  |-> [l \in Lanes |-> <<>>]]
  /\ UNCHANGED <<job, plan, at, memory, stored, results>>

\* Lanes that take a step together: each on its own, but all of them through a
\* barrier, and all the time on a device that runs a workgroup in lockstep.
Together(L) ==
  LET next(l) == plan.program[team.step[l]]
      lockstep == "lockstep" \in DOMAIN job
  IN /\ L = Lanes \/ (Cardinality(L) = 1 /\ ~lockstep)
     /\ \A l \in L : team.step[l] <= Len(plan.program)
     /\ \A l, k \in L : team.step[l] = team.step[k]
     /\ \A l \in L : (next(l) = Barrier \/ lockstep) <=> L = Lanes

Step(L) ==
  LET instruction == plan.program[team.step[CHOOSE l \in L : TRUE]]
      moved == [team EXCEPT !.step = [l \in Lanes |-> IF l \in L THEN @[l] + 1 ELSE @[l]]]
      arg == instruction[2]
      pass(l) == Len(team.taken[l]) + 1
      PartOf(l) == Part(job, team.row, arg, l, team.taken[l])
      Merge(l) == Merged(job, pass(l), team.shared[l], team.shared[l + arg])
      merging == {l \in L : l < arg}
      stores == IF instruction # Store THEN {} ELSE UNION {LaneStores(job, team.row, l, team.taken) : l \in L}
  IN /\ team # <<>> /\ Together(L)
     /\ CASE instruction[1] = "put" ->
               team' = [moved EXCEPT !.shared = [l \in Lanes |-> IF l \in L THEN PartOf(l) ELSE @[l]]]
          [] instruction[1] = "merge" ->
               team' = [moved EXCEPT !.shared = [l \in Lanes |-> IF l \in merging THEN Merge(l) ELSE @[l]]]
          [] instruction[1] = "take" ->
               team' = [moved EXCEPT !.taken = [l \in Lanes |-> IF l \in L THEN Append(@[l], team.shared[0]) ELSE @[l]]]
          [] OTHER -> team' = moved
     /\ memory' = IF stores = {} THEN memory ELSE Applied(memory, stores)
     /\ stored' = stored \cup Places(stores)
     /\ UNCHANGED <<job, plan, at, waiting, results>>

\* The lanes have all returned.
Disband ==
  /\ team # <<>>
  /\ \A l \in Lanes : team.step[l] > Len(plan.program)
  /\ team' = <<>>
  /\ UNCHANGED <<job, plan, at, waiting, memory, stored, results>>

Bind ==
  /\ memory # <<>> /\ ~Busy /\ results = <<>>
  /\ at = Len(plan.launches)
  /\ results' = [j \in DOMAIN plan.outs |->
                   New(plan.outs[j].dtype, plan.outs[j].shape, memory[j])]
  /\ UNCHANGED <<job, plan, at, waiting, team, memory, stored>>

Next ==
  \/ Dispatch \/ Launch \/ Disband \/ Bind
  \/ \E g \in waiting : Workgroup(g) \/ Assemble(g)
  \/ \E L \in {Lanes} \cup {{l} : l \in Lanes} : Step(L)

Spec == Init /\ [][Next]_vars

----------------------------------------------------------------------------
(* Properties.                                                             *)

\* Every path computes what the operator means: the host and the device, whatever
\* the order of the workgroups and of their lanes, dtype and shape included.
Computes == results # <<>> => results = Meaning(job)

Elements(j) ==
  0 .. (IF j \in DOMAIN plan.outs THEN Product(plan.outs[j].shape)
                                  ELSE plan.scratch[j - Len(plan.outs)]) - 1

\* A kernel stores inside its buffers only, and nothing that was read outside of
\* an operand, or read before it was written, is stored.
InBounds ==
  \A j \in DOMAIN memory :
    /\ DOMAIN memory[j] = Elements(j)
    /\ \A i \in DOMAIN memory[j] : memory[j][i] # Outside

\* No two threads of a launch store the same element: the order of workgroups
\* cannot matter.
StoredOnce ==
  [][at' = at =>
       /\ \A s \in stored : memory'[s[1]][s[2]] = memory[s[1]][s[2]]
       /\ \A g \in waiting \ waiting' : plan.program = <<>> =>
            Cardinality(stored') = Cardinality(stored) + Cardinality(plan.launches[at][g])]_vars

\* Whatever the file of a model says of the operands, in numbers, symbols or not at all,
\* the types the loader infers from that are true of the outputs that are computed.
InferenceHolds ==
  results # <<>> /\ results[1] # Refused =>
    \A view \in Views(job) : \A k \in DOMAIN Inferred(job, view) \cap DOMAIN results :
      Fits(Inferred(job, view)[k], results[k])
=============================================================================
