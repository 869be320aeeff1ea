----------------------------- MODULE OperatorProofs -----------------------------
(* That a run of an operator computes what the operator means: whatever the order  *)
(* of the workgroups is, if every item stores the element that is meant; and that  *)
(* the threads and the host do so, for operands of every shape.                    *)
EXTENDS OperatorRun, Operators, TensorProofs

----------------------------------------------------------------------------
(* Runs in which every item of a launch stores an element that is meant.   *)

\* The places in which workgroup g of a launch stores.
Ran(j, k, g) == Places({Stored(j, <<>>, k, e) : e \in Plan(j).launches[k][g]})

\* What item e stores is an element that is meant, whatever it finds in memory.
StoresMeant(j, k, e) ==
  \E o \in DOMAIN Meaning(j) : \E i \in DOMAIN Meaning(j)[o].data :
    \A m : Stored(j, m, k, e) = <<o, i, Meaning(j)[o].data[i]>>

\* A job that the host computes, and one that is computed by threads on the device, each
\* alone: every element that is meant is stored by one of them, and by one only in a launch.
HostMeans(j) == Plan(j) = Host(Meaning(j))

DeviceMeans(j) ==
  /\ Plan(j) = Device(Plan(j).outs, Plan(j).launches)
  /\ \E n \in Nat \ {0} : DOMAIN Meaning(j) = 1 .. n
  /\ Plan(j).outs = [o \in DOMAIN Meaning(j) |-> Plan(j).outs[o]]
  /\ \E n \in Nat : Plan(j).launches = [k \in 1 .. n |-> Plan(j).launches[k]]
  /\ Meaning(j) = [o \in DOMAIN Meaning(j) |->
       New(Plan(j).outs[o].dtype, Plan(j).outs[o].shape, Meaning(j)[o].data)]
  /\ \A o \in DOMAIN Meaning(j) :
       Meaning(j)[o].data = [i \in 0 .. Product(Plan(j).outs[o].shape) - 1 |-> Meaning(j)[o].data[i]]
  /\ \A k \in DOMAIN Plan(j).launches : \A g \in DOMAIN Plan(j).launches[k] :
       \A e \in Plan(j).launches[k][g] : StoresMeant(j, k, e)
  /\ \A o \in DOMAIN Meaning(j) : \A i \in DOMAIN Meaning(j)[o].data :
       \E k \in DOMAIN Plan(j).launches : \E g \in DOMAIN Plan(j).launches[k] : <<o, i>> \in Ran(j, k, g)

\* Elements that stores leave are those that are stored or those that were there.
MeantStores(y, stores) ==
  \A s \in stores : \E o \in DOMAIN y : \E i \in DOMAIN y[o] : s = <<o, i, y[o][i]>>

LEMMA AppliedMeans ==
  ASSUME NEW y, NEW m, NEW stores, MeantStores(y, stores),
         DOMAIN m = DOMAIN y, \A o \in DOMAIN y : DOMAIN m[o] = DOMAIN y[o]
  PROVE  Applied(m, stores) =
           [o \in DOMAIN y |-> [i \in DOMAIN y[o] |->
              IF <<o, i>> \in Places(stores) THEN y[o][i] ELSE m[o][i]]]
<1> DEFINE mine(o) == {s \in stores : s[1] = o}
           filled(o) == [i \in DOMAIN m[o] \cup {s[2] : s \in mine(o)} |->
                           IF \E s \in mine(o) : s[2] = i THEN (CHOOSE s \in mine(o) : s[2] = i)[3] ELSE m[o][i]]
<1>1. Applied(m, stores) = [o \in DOMAIN m |-> filled(o)]
  BY DEF Applied
<1>2. ASSUME NEW s \in stores
      PROVE  s[1] \in DOMAIN y /\ s[2] \in DOMAIN y[s[1]] /\ s[3] = y[s[1]][s[2]]
  <2>1. PICK o \in DOMAIN y : \E i \in DOMAIN y[o] : s = <<o, i, y[o][i]>>
    BY DEF MeantStores
  <2>2. PICK i \in DOMAIN y[o] : s = <<o, i, y[o][i]>>
    BY <2>1
  <2> QED BY <2>2
<1>3. ASSUME NEW o \in DOMAIN y
      PROVE  filled(o) = [i \in DOMAIN y[o] |-> IF <<o, i>> \in Places(stores) THEN y[o][i] ELSE m[o][i]]
  <2>1. DOMAIN m[o] \cup {s[2] : s \in mine(o)} = DOMAIN y[o]
    BY <1>2
  <2>2. ASSUME NEW i \in DOMAIN y[o]
        PROVE  (IF \E s \in mine(o) : s[2] = i THEN (CHOOSE s \in mine(o) : s[2] = i)[3] ELSE m[o][i])
                 = IF <<o, i>> \in Places(stores) THEN y[o][i] ELSE m[o][i]
    <3>1. (\E s \in mine(o) : s[2] = i) <=> <<o, i>> \in Places(stores)
      BY DEF Places
    <3>2. CASE \E s \in mine(o) : s[2] = i
      <4>1. (CHOOSE s \in mine(o) : s[2] = i) \in mine(o)
        BY <3>2, Zenon
      <4>2. (CHOOSE s \in mine(o) : s[2] = i)[2] = i
        BY <3>2, Zenon
      <4>3. \A s \in mine(o) : s[2] = i => s[3] = y[o][i]
        BY <1>2
      <4> QED BY <3>1, <3>2, <4>1, <4>2, <4>3, Zenon
    <3>3. CASE ~ \E s \in mine(o) : s[2] = i
      BY <3>1, <3>3, Zenon
    <3> QED BY <3>2, <3>3
  <2> QED BY <2>1, <2>2, Zenon
<1> HIDE DEF filled
<1> QED BY <1>1, <1>3, Zenon


----------------------------------------------------------------------------
(* The inductive invariant of such runs.                                   *)

Dispatched(k) == IF k = 0 THEN {} ELSE DOMAIN plan.launches[k]

NotDispatched ==
  plan = <<>> /\ at = 0 /\ waiting = {} /\ memory = <<>> /\ stored = {} /\ results = <<>>

HostRun ==
  /\ HostMeans(job)
  /\ plan = Plan(job) /\ results = Meaning(job)
  /\ waiting = {} /\ memory = <<>> /\ stored = {}

\* An element is the meant one or not written yet, and it is the meant one where a
\* workgroup stored that has run.
MeantOrBlank(y) ==
  /\ memory = [o \in DOMAIN y |-> [i \in DOMAIN y[o].data |-> memory[o][i]]]
  /\ \A o \in DOMAIN y : \A i \in DOMAIN y[o].data : memory[o][i] \in {y[o].data[i], Unwritten}
Written(y) ==
  \A k \in 1 .. at : \A g \in DOMAIN plan.launches[k] : (k = at => g \notin waiting) =>
    \A o \in DOMAIN y : \A i \in DOMAIN y[o].data :
      <<o, i>> \in Ran(job, k, g) => memory[o][i] = y[o].data[i]
StoredByGroups == \A s \in stored : \E g \in Dispatched(at) \ waiting : s \in Ran(job, at, g)

DeviceRun ==
  /\ DeviceMeans(job)
  /\ plan = Plan(job)
  /\ at \in 0 .. Len(plan.launches) /\ waiting \subseteq Dispatched(at)
  /\ MeantOrBlank(Meaning(job)) /\ Written(Meaning(job)) /\ StoredByGroups
  /\ results \in {<<>>, Meaning(job)}

RunInv == job \in Jobs /\ team = <<>> /\ (NotDispatched \/ HostRun \/ DeviceRun)

\* Every job is one of the two kinds.
Alone == \A j \in Jobs : HostMeans(j) \/ DeviceMeans(j)

LEMMA InitRun == Init => RunInv
BY DEF Init, RunInv, NotDispatched

LEMMA DevicePlanIs ==
  ASSUME NEW j, DeviceMeans(j)
  PROVE  /\ Plan(j).path = "device" /\ Plan(j).program = <<>> /\ Plan(j).scratch = <<>>
         /\ Plan(j) # <<>>
         /\ DOMAIN Plan(j).outs = DOMAIN Meaning(j)
         /\ \E n \in Nat \ {0} : DOMAIN Meaning(j) = 1 .. n
         /\ Len(Plan(j).launches) \in Nat /\ DOMAIN Plan(j).launches = 1 .. Len(Plan(j).launches)
<1>1. Plan(j) = Device(Plan(j).outs, Plan(j).launches)
  BY DEF DeviceMeans
<1>2. Plan(j) = [path |-> "device", outs |-> Plan(j).outs, scratch |-> <<>>,
                 launches |-> Plan(j).launches, program |-> <<>>]
  BY <1>1 DEF Device, Passes
<1>3. Plan(j).path = "device" /\ Plan(j).program = <<>> /\ Plan(j).scratch = <<>>
  BY <1>2
<1>4. Plan(j) # <<>>
  <2>1. "path" \in DOMAIN Plan(j)
    BY <1>2
  <2> QED BY <2>1
<1>5. DOMAIN Plan(j).outs = DOMAIN Meaning(j)
  BY DEF DeviceMeans
<1>6. PICK n \in Nat : Plan(j).launches = [k \in 1 .. n |-> Plan(j).launches[k]]
  BY DEF DeviceMeans
<1>7. Len(Plan(j).launches) \in Nat /\ DOMAIN Plan(j).launches = 1 .. Len(Plan(j).launches)
  BY <1>6
<1>8. \E m \in Nat \ {0} : DOMAIN Meaning(j) = 1 .. m
  BY DEF DeviceMeans
<1> QED BY <1>3, <1>4, <1>5, <1>7, <1>8

LEMMA DispatchRun ==
  ASSUME Alone, RunInv, Dispatch
  PROVE  RunInv'
<1>1. /\ job \in Jobs /\ job' = job /\ team' = <<>> /\ at' = at /\ waiting' = waiting /\ stored' = stored
      /\ plan = <<>> /\ plan' = Plan(job)
  BY DEF RunInv, Dispatch
<1>2. \A j : HostMeans(j) => Plan(j).path = "host" /\ Plan(j).results = Meaning(j) /\ Plan(j) # <<>>
  <2> SUFFICES ASSUME NEW j, HostMeans(j)
               PROVE  Plan(j).path = "host" /\ Plan(j).results = Meaning(j) /\ Plan(j) # <<>>
    OBVIOUS
  <2>1. Plan(j) = [path |-> "host", results |-> Meaning(j)]
    BY DEF HostMeans, Host
  <2>2. "path" \in DOMAIN Plan(j)
    BY <2>1
  <2> QED BY <2>1, <2>2
<1>3. NotDispatched
  <2>1. ~HostRun
    BY <1>1, <1>2 DEF HostRun
  <2>2. ~DeviceRun
    BY <1>1, DevicePlanIs DEF DeviceRun
  <2> QED BY <2>1, <2>2 DEF RunInv
<1>4. CASE HostMeans(job)
  <2>1. Plan(job).path = "host" /\ Plan(job).results = Meaning(job)
    BY <1>2, <1>4
  <2>2. results' = Meaning(job) /\ memory' = memory
    BY <1>1, <2>1 DEF Dispatch
  <2>3. HostRun'
    <3>1. HostMeans(job)'
      BY <1>1, <1>4
    <3> QED BY <1>1, <1>3, <2>2, <3>1 DEF HostRun, NotDispatched
  <2> QED BY <1>1, <2>3 DEF RunInv
<1>5. CASE DeviceMeans(job)
  <2> DEFINE y == Meaning(job)
             blank == [o \in DOMAIN plan'.outs |-> [i \in 0 .. Product(plan'.outs[o].shape) - 1 |-> Unwritten]]
  <2>1. /\ plan'.path = "device" /\ plan'.scratch = <<>> /\ DOMAIN plan'.outs = DOMAIN y
        /\ Len(plan'.launches) \in Nat
    BY <1>1, <1>5, DevicePlanIs
  <2>2. results' = results /\ memory' = blank \o [o \in DOMAIN plan'.scratch |-> [i \in 0 .. plan'.scratch[o] - 1 |-> Unwritten]]
    BY <2>1 DEF Dispatch
  <2>3. [o \in DOMAIN plan'.scratch |-> [i \in 0 .. plan'.scratch[o] - 1 |-> Unwritten]] = <<>>
    BY <2>1
  <2>4. memory' = blank
    <3> DEFINE S == {blank[o] : o \in DOMAIN y}
    <3>1. PICK n \in Nat \ {0} : DOMAIN y = 1 .. n
      BY <1>5, DevicePlanIs
    <3>2. blank \in Seq(S)
      <4>1. n \in Nat /\ DOMAIN blank = 1 .. n
        BY <2>1, <3>1
      <4>2. \A o \in 1 .. n : blank[o] \in S
        BY <3>1
      <4>3. blank = [o \in 1 .. n |-> blank[o]]
        BY <4>1
      <4> HIDE DEF blank, S
      <4> QED BY <4>1, <4>2, <4>3
    <3> HIDE DEF S
    <3> QED BY <2>2, <2>3, <3>2, ConcatEmptySeq
  <2>5. \A o \in DOMAIN y : DOMAIN y[o].data = 0 .. Product(plan'.outs[o].shape) - 1
    <3>1. \A o \in DOMAIN y : y[o].data = [i \in 0 .. Product(Plan(job).outs[o].shape) - 1 |-> y[o].data[i]]
      BY <1>5, Zenon DEF DeviceMeans
    <3> HIDE DEF y
    <3> QED BY <1>1, <3>1
  <2>6. memory' = [o \in DOMAIN y |-> [i \in DOMAIN y[o].data |-> Unwritten]]
    <3> HIDE DEF y
    <3> QED BY <2>1, <2>4, <2>5
  <2>7. memory' = [o \in DOMAIN y |-> [i \in DOMAIN y[o].data |-> memory'[o][i]]]
    <3> HIDE DEF y
    <3> QED BY <2>6
  <2>8. \A o \in DOMAIN y : \A i \in DOMAIN y[o].data : memory'[o][i] = Unwritten
    <3> HIDE DEF y
    <3> QED BY <2>6
  <2>9. at' = 0 /\ waiting' = {} /\ stored' = {} /\ results' = <<>>
    BY <1>1, <1>3, <2>2 DEF NotDispatched
  <2>10. DeviceRun'
    <3>1. DeviceMeans(job)'
      BY <1>1, <1>5
    <3>2. Meaning(job') = y
      BY <1>1
    <3>3. plan' = Plan(job')
      BY <1>1
    <3>4. at' \in 0 .. Len(plan'.launches) /\ 1 .. at' = {}
      BY <2>1, <2>9
    <3> HIDE DEF y
    <3> QED BY <1>1, <2>7, <2>8, <2>9, <3>1, <3>2, <3>3, <3>4
        DEF DeviceRun, MeantOrBlank, Written, StoredByGroups
  <2> QED BY <1>1, <2>10 DEF RunInv
<1> QED BY <1>1, <1>4, <1>5 DEF Alone

\* What a step after the dispatch of a device job starts from.
LEMMA DeviceStep ==
  ASSUME RunInv, memory # <<>>
  PROVE  DeviceRun /\ job \in Jobs /\ team = <<>> /\ plan = Plan(job)
BY DEF RunInv, NotDispatched, HostRun, DeviceRun

LEMMA LaunchRun ==
  ASSUME RunInv, Launch
  PROVE  RunInv'
<1> DEFINE y == Meaning(job)
<1>1. /\ memory # <<>> /\ waiting = {} /\ at < Len(plan.launches) /\ at' = at + 1
      /\ waiting' = DOMAIN plan.launches[at + 1] /\ stored' = {}
      /\ job' = job /\ plan' = plan /\ team' = team /\ memory' = memory /\ results' = results
  BY DEF Launch, Busy
<1>2. DeviceRun /\ job \in Jobs /\ team = <<>> /\ plan = Plan(job)
  BY <1>1, DeviceStep
<1>3. DeviceMeans(job) /\ at \in 0 .. Len(plan.launches)
  BY <1>2 DEF DeviceRun
<1>4. Len(plan.launches) \in Nat
  BY <1>2, <1>3, DevicePlanIs
<1>5. at' \in 0 .. Len(plan'.launches) /\ waiting' \subseteq Dispatched(at)'
  <2>1. at \in Nat /\ at' # 0
    BY <1>1, <1>3, <1>4
  <2> QED BY <1>1, <1>3, <1>4, <2>1 DEF Dispatched
<1>6. ASSUME NEW k \in 1 .. at', NEW g \in DOMAIN plan'.launches[k], k = at' => g \notin waiting',
             NEW o \in DOMAIN y, NEW i \in DOMAIN y[o].data, <<o, i>> \in Ran(job, k, g)
      PROVE  memory'[o][i] = y[o].data[i]
  <2>1. k # at'
    BY <1>1, <1>6
  <2>2. k \in 1 .. at
    BY <1>1, <1>3, <1>4, <2>1
  <2>3. g \in DOMAIN plan.launches[k] /\ g \notin waiting
    BY <1>1
  <2>4. Written(y)
    BY <1>2 DEF DeviceRun
  <2> HIDE DEF y
  <2> QED BY <1>1, <1>6, <2>2, <2>3, <2>4, Zenon DEF Written
<1>7. DeviceRun'
  <2>1. MeantOrBlank(y) /\ results \in {<<>>, y}
    BY <1>2 DEF DeviceRun
  <2>2. Meaning(job') = y /\ DeviceMeans(job)'
    BY <1>1, <1>3
  <2>3. \A k, g : Ran(job', k, g) = Ran(job, k, g)
    BY <1>1
  <2> HIDE DEF y
  <2>4. MeantOrBlank(Meaning(job))'
    BY <1>1, <2>1, <2>2 DEF MeantOrBlank
  <2>5. Written(Meaning(job))'
    <3>1. SUFFICES ASSUME NEW k \in 1 .. at', NEW g \in DOMAIN plan'.launches[k], k = at' => g \notin waiting',
                          NEW o \in DOMAIN Meaning(job'), NEW i \in DOMAIN Meaning(job')[o].data,
                          <<o, i>> \in Ran(job', k, g)
                   PROVE  memory'[o][i] = Meaning(job')[o].data[i]
      BY DEF Written
    <3>2. o \in DOMAIN y /\ i \in DOMAIN y[o].data /\ <<o, i>> \in Ran(job, k, g)
      BY <2>2, <2>3, <3>1
    <3> QED BY <1>6, <2>2, <3>1, <3>2
  <2>6. StoredByGroups'
    BY <1>1 DEF StoredByGroups
  <2> QED BY <1>1, <1>2, <1>5, <2>1, <2>2, <2>4, <2>5, <2>6 DEF DeviceRun
<1> QED BY <1>1, <1>2, <1>7 DEF RunInv

\* What a workgroup stores is meant, in the places where it stores whatever it reads.
LEMMA GroupStores ==
  ASSUME NEW j, DeviceMeans(j), NEW k \in 1 .. Len(Plan(j).launches),
         NEW g \in DOMAIN Plan(j).launches[k], NEW m
  PROVE  LET stores == {Stored(j, m, k, e) : e \in Plan(j).launches[k][g]} IN
         /\ MeantStores([o \in DOMAIN Meaning(j) |-> Meaning(j)[o].data], stores)
         /\ Places(stores) = Ran(j, k, g)
<1> DEFINE stores == {Stored(j, m, k, e) : e \in Plan(j).launches[k][g]}
           y == [o \in DOMAIN Meaning(j) |-> Meaning(j)[o].data]
<1>1. DOMAIN Plan(j).launches = 1 .. Len(Plan(j).launches)
  BY DevicePlanIs
<1>2. ASSUME NEW e \in Plan(j).launches[k][g]
      PROVE  \E o \in DOMAIN y : \E i \in DOMAIN y[o] : \A n : Stored(j, n, k, e) = <<o, i, y[o][i]>>
  <2>1. StoresMeant(j, k, e)
    BY <1>1, Zenon DEF DeviceMeans
  <2> QED BY <2>1 DEF StoresMeant
<1> HIDE DEF y
<1>3. MeantStores(y, stores)
  BY <1>2 DEF MeantStores
<1>4. \A e \in Plan(j).launches[k][g] :
        Stored(j, m, k, e)[1] = Stored(j, <<>>, k, e)[1] /\ Stored(j, m, k, e)[2] = Stored(j, <<>>, k, e)[2]
  <2> SUFFICES ASSUME NEW e \in Plan(j).launches[k][g]
               PROVE  Stored(j, m, k, e) = Stored(j, <<>>, k, e)
    OBVIOUS
  <2>1. PICK o \in DOMAIN y : \E i \in DOMAIN y[o] : \A n : Stored(j, n, k, e) = <<o, i, y[o][i]>>
    BY <1>2
  <2>2. PICK i \in DOMAIN y[o] : \A n : Stored(j, n, k, e) = <<o, i, y[o][i]>>
    BY <2>1
  <2> QED BY <2>2, Zenon
<1>5. Places(stores) = {<<Stored(j, m, k, e)[1], Stored(j, m, k, e)[2]>> : e \in Plan(j).launches[k][g]}
  BY DEF Places
<1>6. Ran(j, k, g) = {<<Stored(j, <<>>, k, e)[1], Stored(j, <<>>, k, e)[2]>> : e \in Plan(j).launches[k][g]}
  BY DEF Places, Ran
<1>7. Places(stores) = Ran(j, k, g)
  <2> HIDE DEF stores
  <2> QED BY <1>4, <1>5, <1>6, Zenon
<1> QED BY <1>3, <1>7 DEF y

LEMMA WorkgroupRun ==
  ASSUME RunInv, NEW g \in waiting, Workgroup(g)
  PROVE  RunInv'
<1> DEFINE y == Meaning(job)
           data == [o \in DOMAIN y |-> y[o].data]
           stores == {Stored(job, memory, at, e) : e \in plan.launches[at][g]}
<1>1. /\ waiting' = waiting \ {g} /\ memory' = Applied(memory, stores) /\ stored' = stored \cup Places(stores)
      /\ job' = job /\ plan' = plan /\ at' = at /\ team' = team /\ results' = results
  BY DEF Workgroup
<1>2. DeviceRun /\ job \in Jobs /\ team = <<>> /\ plan = Plan(job)
  BY DEF RunInv, NotDispatched, HostRun, DeviceRun
<1>3. DeviceMeans(job) /\ at \in 0 .. Len(plan.launches) /\ waiting \subseteq Dispatched(at)
  BY <1>2 DEF DeviceRun
<1>4. Len(plan.launches) \in Nat
  BY <1>2, <1>3, DevicePlanIs
<1>5. at # 0 /\ at \in 1 .. Len(plan.launches) /\ g \in DOMAIN plan.launches[at]
  <2>1. at # 0 /\ g \in DOMAIN plan.launches[at]
    BY <1>3 DEF Dispatched
  <2> QED BY <1>3, <1>4, <2>1
<1>6. MeantStores(data, stores) /\ Places(stores) = Ran(job, at, g)
  <2>1. at \in 1 .. Len(Plan(job).launches) /\ g \in DOMAIN Plan(job).launches[at]
    BY <1>2, <1>5
  <2>2. stores = {Stored(job, memory, at, e) : e \in Plan(job).launches[at][g]}
    BY <1>2
  <2>3. data = [o \in DOMAIN Meaning(job) |-> Meaning(job)[o].data]
    OBVIOUS
  <2> HIDE DEF data, stores, y
  <2> QED BY <1>3, <2>1, <2>2, <2>3, GroupStores
<1>7. /\ memory = [o \in DOMAIN y |-> [i \in DOMAIN y[o].data |-> memory[o][i]]]
      /\ \A o \in DOMAIN y : \A i \in DOMAIN y[o].data : memory[o][i] \in {y[o].data[i], Unwritten}
      /\ Written(y) /\ results \in {<<>>, y}
  BY <1>2 DEF DeviceRun, MeantOrBlank
<1> HIDE DEF y, stores
<1>8. DOMAIN memory = DOMAIN data /\ \A o \in DOMAIN data : DOMAIN memory[o] = DOMAIN data[o]
  BY <1>7
<1>9. DOMAIN data = DOMAIN y /\ \A o \in DOMAIN y : data[o] = y[o].data
  OBVIOUS
<1> HIDE DEF data
<1>10. memory' = [o \in DOMAIN data |-> [i \in DOMAIN data[o] |->
                    IF <<o, i>> \in Ran(job, at, g) THEN data[o][i] ELSE memory[o][i]]]
  BY <1>1, <1>6, <1>8, AppliedMeans
<1>11. \A o \in DOMAIN y : \A i \in DOMAIN y[o].data :
         memory'[o][i] = IF <<o, i>> \in Ran(job, at, g) THEN y[o].data[i] ELSE memory[o][i]
  BY <1>9, <1>10
<1>12. memory' = [o \in DOMAIN y |-> [i \in DOMAIN y[o].data |-> memory'[o][i]]]
  BY <1>9, <1>10
<1>13. ASSUME NEW k \in 1 .. at', NEW h \in DOMAIN plan'.launches[k], k = at' => h \notin waiting',
             NEW o \in DOMAIN y, NEW i \in DOMAIN y[o].data, <<o, i>> \in Ran(job, k, h)
      PROVE  memory'[o][i] = y[o].data[i]
  <2>1. CASE k = at /\ h = g
    BY <1>11, <1>13, <2>1
  <2>2. CASE ~(k = at /\ h = g)
    <3>1. k = at => h \notin waiting
      BY <1>1, <1>13, <2>2
    <3>2. k \in 1 .. at /\ h \in DOMAIN plan.launches[k] /\ Written(y)
      BY <1>1, <1>7
    <3>3. memory[o][i] = y[o].data[i]
      BY <1>13, <3>1, <3>2, Zenon DEF Written
    <3> QED BY <1>11, <3>3
  <2> QED BY <2>1, <2>2
<1>14. ASSUME NEW s \in stored'
      PROVE  \E h \in Dispatched(at)' \ waiting' : s \in Ran(job, at, h)
  <2>1. Dispatched(at)' = Dispatched(at) /\ g \in Dispatched(at)
    BY <1>1, <1>5 DEF Dispatched
  <2>2. CASE s \in stored
    <3>1. \E h \in Dispatched(at) \ waiting : s \in Ran(job, at, h)
      BY <1>2, <2>2, Zenon DEF DeviceRun, StoredByGroups
    <3> QED BY <1>1, <2>1, <3>1
  <2>3. CASE s \in Ran(job, at, g)
    BY <1>1, <2>1, <2>3
  <2> QED BY <1>1, <1>6, <2>2, <2>3
<1>15. DeviceRun'
  <2>1. Meaning(job') = y /\ DeviceMeans(job)'
    BY <1>1, <1>3 DEF y
  <2>2. \A k, h : Ran(job', k, h) = Ran(job, k, h)
    BY <1>1
  <2>3. waiting' \subseteq Dispatched(at)'
    BY <1>1, <1>3 DEF Dispatched
  <2>4. \A o \in DOMAIN y : \A i \in DOMAIN y[o].data : memory'[o][i] \in {y[o].data[i], Unwritten}
    BY <1>7, <1>11
  <2>5. MeantOrBlank(Meaning(job))'
    BY <1>12, <2>1, <2>4 DEF MeantOrBlank
  <2>6. Written(Meaning(job))'
    <3>1. SUFFICES ASSUME NEW k \in 1 .. at', NEW h \in DOMAIN plan'.launches[k], k = at' => h \notin waiting',
                          NEW o \in DOMAIN Meaning(job'), NEW i \in DOMAIN Meaning(job')[o].data,
                          <<o, i>> \in Ran(job', k, h)
                   PROVE  memory'[o][i] = Meaning(job')[o].data[i]
      BY DEF Written
    <3>2. o \in DOMAIN y /\ i \in DOMAIN y[o].data /\ <<o, i>> \in Ran(job, k, h)
      BY <2>1, <2>2, <3>1
    <3> QED BY <1>13, <2>1, <3>1, <3>2
  <2>7. StoredByGroups'
    BY <1>1, <1>14 DEF StoredByGroups
  <2> QED BY <1>1, <1>2, <1>3, <1>7, <2>1, <2>3, <2>5, <2>6, <2>7 DEF DeviceRun
<1> QED BY <1>1, <1>2, <1>15 DEF RunInv

LEMMA BindRun ==
  ASSUME RunInv, Bind
  PROVE  RunInv'
<1> DEFINE y == Meaning(job)
<1>1. /\ memory # <<>> /\ waiting = {} /\ at = Len(plan.launches)
      /\ results' = [o \in DOMAIN plan.outs |-> New(plan.outs[o].dtype, plan.outs[o].shape, memory[o])]
      /\ UNCHANGED <<job, plan, at, waiting, team, memory, stored>>
  BY DEF Bind, Busy
<1>2. DeviceRun /\ job \in Jobs /\ team = <<>> /\ plan = Plan(job)
  BY <1>1, DeviceStep
<1>3. DeviceMeans(job)
  BY <1>2 DEF DeviceRun
<1>4. Len(plan.launches) \in Nat /\ DOMAIN plan.launches = 1 .. at /\ DOMAIN plan.outs = DOMAIN y
  BY <1>1, <1>2, <1>3, DevicePlanIs
<1>5. memory = [o \in DOMAIN y |-> [i \in DOMAIN y[o].data |-> memory[o][i]]] /\ Written(y)
  BY <1>2 DEF DeviceRun, MeantOrBlank
<1>6. ASSUME NEW o \in DOMAIN y, NEW i \in DOMAIN y[o].data
      PROVE  memory[o][i] = y[o].data[i]
  <2>1. PICK k \in 1 .. at : \E g \in DOMAIN plan.launches[k] : <<o, i>> \in Ran(job, k, g)
    BY <1>2, <1>3, <1>4, Zenon DEF DeviceMeans
  <2>2. PICK g \in DOMAIN plan.launches[k] : <<o, i>> \in Ran(job, k, g)
    BY <2>1
  <2>3. g \notin waiting
    BY <1>1
  <2> HIDE DEF y
  <2> QED BY <1>5, <2>2, <2>3, Zenon DEF Written
<1>7. /\ y = [o \in DOMAIN y |-> New(plan.outs[o].dtype, plan.outs[o].shape, y[o].data)]
      /\ \A o \in DOMAIN y : y[o].data = [i \in 0 .. Product(plan.outs[o].shape) - 1 |-> y[o].data[i]]
  BY <1>2, <1>3, Zenon DEF DeviceMeans
<1>8. \A o \in DOMAIN y : memory[o] = y[o].data
  <2> HIDE DEF y
  <2> SUFFICES ASSUME NEW o \in DOMAIN y
               PROVE  memory[o] = y[o].data
    OBVIOUS
  <2>1. memory[o] = [i \in DOMAIN y[o].data |-> memory[o][i]]
    BY <1>5
  <2>2. y[o].data = [i \in DOMAIN y[o].data |-> y[o].data[i]]
    BY <1>7
  <2> QED BY <1>6, <2>1, <2>2
<1>9. results' = y
  <2> HIDE DEF y
  <2>1. results' = [o \in DOMAIN y |-> New(plan.outs[o].dtype, plan.outs[o].shape, y[o].data)]
    BY <1>1, <1>4, <1>8
  <2> QED BY <1>7, <2>1
<1>10. DeviceRun'
  <2>1. Meaning(job') = y /\ DeviceMeans(job)'
    BY <1>1, <1>3
  <2>2. \A k, h : Ran(job', k, h) = Ran(job, k, h)
    BY <1>1
  <2>3. \A k : Dispatched(k)' = Dispatched(k)
    BY <1>1 DEF Dispatched
  <2>4. results' \in {<<>>, Meaning(job)'}
    BY <1>9, <2>1
  <2>5. MeantOrBlank(y) /\ Written(y) /\ StoredByGroups
    BY <1>2 DEF DeviceRun
  <2> HIDE DEF y
  <2>6. MeantOrBlank(Meaning(job))' /\ Written(Meaning(job))' /\ StoredByGroups'
    <3>1. MeantOrBlank(Meaning(job))'
      BY <1>1, <2>1, <2>5 DEF MeantOrBlank
    <3>2. Written(Meaning(job))'
      BY <1>1, <2>1, <2>2, <2>5 DEF Written
    <3>3. StoredByGroups'
      BY <1>1, <2>1, <2>2, <2>3, <2>5 DEF StoredByGroups
    <3> QED BY <3>1, <3>2, <3>3
  <2> QED BY <1>1, <1>2, <2>1, <2>4, <2>6 DEF DeviceRun
<1> QED BY <1>1, <1>2, <1>10 DEF RunInv

\* No workgroup of such a run shares memory.
LEMMA NoTeam ==
  ASSUME RunInv
  PROVE  /\ \A g \in waiting : ~Assemble(g)
         /\ ~Disband
         /\ \A L : ~Step(L)
<1>1. team = <<>>
  BY DEF RunInv
<1>2. ASSUME NEW g \in waiting
      PROVE  ~Assemble(g)
  <2>1. plan = Plan(job) /\ DeviceMeans(job)
    BY DEF RunInv, NotDispatched, HostRun, DeviceRun
  <2>2. plan.program = <<>>
    BY <2>1, DevicePlanIs
  <2> QED BY <2>2 DEF Assemble
<1>3. ~Disband /\ \A L : ~Step(L)
  BY <1>1 DEF Disband, Step
<1> QED BY <1>2, <1>3

LEMMA NextRun ==
  ASSUME Alone, RunInv, [Next]_vars
  PROVE  RunInv'
<1>1. CASE Dispatch
  BY <1>1, DispatchRun
<1>2. CASE Launch
  BY <1>2, LaunchRun
<1>3. CASE Bind
  BY <1>3, BindRun
<1>4. ASSUME NEW g \in waiting, Workgroup(g)
      PROVE  RunInv'
  BY <1>4, WorkgroupRun
<1>5. CASE UNCHANGED vars
  <2>1. job' = job /\ plan' = plan /\ at' = at /\ waiting' = waiting /\ team' = team /\ memory' = memory
        /\ stored' = stored /\ results' = results
    BY <1>5 DEF vars
  <2>2. NotDispatched' <=> NotDispatched
    BY <2>1 DEF NotDispatched
  <2>3. HostRun' <=> HostRun
    BY <2>1 DEF HostRun
  <2>4. DeviceRun => DeviceRun'
    <3>1. /\ \A k, h : Ran(job', k, h) = Ran(job, k, h)
          /\ \A k : Dispatched(k)' = Dispatched(k)
          /\ Meaning(job') = Meaning(job) /\ DeviceMeans(job)' = DeviceMeans(job)
      BY <2>1 DEF Dispatched
    <3>2. MeantOrBlank(Meaning(job)) /\ Written(Meaning(job)) /\ StoredByGroups =>
          MeantOrBlank(Meaning(job))' /\ Written(Meaning(job))' /\ StoredByGroups'
      <4>1. MeantOrBlank(Meaning(job)) => MeantOrBlank(Meaning(job))'
        BY <2>1, <3>1 DEF MeantOrBlank
      <4>2. Written(Meaning(job)) => Written(Meaning(job))'
        BY <2>1, <3>1 DEF Written
      <4>3. StoredByGroups => StoredByGroups'
        BY <2>1, <3>1 DEF StoredByGroups
      <4> QED BY <4>1, <4>2, <4>3
    <3> QED BY <2>1, <3>1, <3>2 DEF DeviceRun
  <2> QED BY <2>1, <2>2, <2>3, <2>4 DEF RunInv
<1> QED BY <1>1, <1>2, <1>3, <1>4, <1>5, NoTeam DEF Next

\* A job's elements are values, and the items of a launch store in different places.
MeansValues(j) ==
  \A o \in DOMAIN Meaning(j) : \A i \in DOMAIN Meaning(j)[o].data : Meaning(j)[o].data[i] # Outside

PlaceOf(j, k, e) == <<Stored(j, <<>>, k, e)[1], Stored(j, <<>>, k, e)[2]>>

Apart(j) ==
  \A k \in DOMAIN Plan(j).launches : \A g, h \in DOMAIN Plan(j).launches[k] :
    /\ IsFiniteSet(Plan(j).launches[k][g])
    /\ \A e \in Plan(j).launches[k][g], f \in Plan(j).launches[k][h] :
         PlaceOf(j, k, e) = PlaceOf(j, k, f) => g = h /\ e = f

\* Whatever the order in which the workgroups of a launch run, the outputs are what the
\* operator means when every item stores an element that is meant (exec_dispatch and the
\* launches of interp.rs).
THEOREM RunComputes ==
  ASSUME Alone
  PROVE  Spec => []Computes
<1>1. RunInv => Computes
  <2>1. ASSUME RunInv, results # <<>>
        PROVE  results = Meaning(job)
    BY <2>1 DEF RunInv, NotDispatched, HostRun, DeviceRun
  <2> QED BY <2>1 DEF Computes
<1>2. Alone /\ RunInv /\ [Next]_vars => RunInv'
  BY NextRun
<1> QED BY InitRun, <1>1, <1>2, PTL DEF Spec

\* Kernels store inside the outputs only, and nothing that was read outside of an operand.
THEOREM RunInBounds ==
  ASSUME Alone, \A j \in Jobs : DeviceMeans(j) => MeansValues(j)
  PROVE  Spec => []InBounds
<1> DEFINE Values == \A j \in Jobs : DeviceMeans(j) => MeansValues(j)
<1>1. Values /\ RunInv => InBounds
  <2> SUFFICES ASSUME Values, RunInv
               PROVE  InBounds
    OBVIOUS
  <2>1. CASE memory = <<>>
    BY <2>1 DEF InBounds
  <2>2. CASE memory # <<>>
    <3> DEFINE y == Meaning(job)
    <3>1. DeviceRun /\ job \in Jobs /\ plan = Plan(job)
      BY <2>2, DeviceStep
    <3>2. DeviceMeans(job) /\ MeantOrBlank(y)
      BY <3>1 DEF DeviceRun
    <3>3. MeansValues(job)
      BY <3>1, <3>2
    <3>4. DOMAIN plan.outs = DOMAIN y
      BY <3>1, <3>2, DevicePlanIs
    <3>5. \A o \in DOMAIN y : y[o].data = [i \in 0 .. Product(plan.outs[o].shape) - 1 |-> y[o].data[i]]
      BY <3>1, <3>2, Zenon DEF DeviceMeans
    <3>6. \A o \in DOMAIN y : \A i \in DOMAIN y[o].data : y[o].data[i] # Outside
      BY <3>3 DEF MeansValues
    <3> HIDE DEF y
    <3>7. /\ memory = [o \in DOMAIN y |-> [i \in DOMAIN y[o].data |-> memory[o][i]]]
          /\ \A o \in DOMAIN y : \A i \in DOMAIN y[o].data : memory[o][i] \in {y[o].data[i], Unwritten}
      BY <3>2 DEF MeantOrBlank
    <3>8. Unwritten # Outside
      BY DEF Unwritten, Outside
    <3>9. SUFFICES ASSUME NEW o \in DOMAIN memory
                   PROVE  DOMAIN memory[o] = Elements(o) /\ \A i \in DOMAIN memory[o] : memory[o][i] # Outside
      BY DEF InBounds
    <3>10. o \in DOMAIN y /\ DOMAIN memory[o] = DOMAIN y[o].data
      BY <3>7, <3>9
    <3>11. DOMAIN memory[o] = Elements(o)
      BY <3>4, <3>5, <3>10 DEF Elements
    <3>12. ASSUME NEW i \in DOMAIN memory[o]
           PROVE  memory[o][i] # Outside
      <4>1. i \in DOMAIN y[o].data
        BY <3>10
      <4> QED BY <3>6, <3>7, <3>8, <3>10, <4>1, Zenon
    <3> QED BY <3>11, <3>12
  <2> QED BY <2>1, <2>2
<1>2. Alone /\ RunInv /\ [Next]_vars => RunInv'
  BY NextRun
<1>3. Values
  OBVIOUS
<1> HIDE DEF Values
<1> QED BY InitRun, <1>1, <1>2, <1>3, PTL DEF Spec

\* What is stored since the launch began is finite, so that it can be counted.
LEMMA RanCounts ==
  ASSUME NEW j, Apart(j), NEW k \in DOMAIN Plan(j).launches, NEW g \in DOMAIN Plan(j).launches[k]
  PROVE  IsFiniteSet(Ran(j, k, g)) /\ Cardinality(Ran(j, k, g)) = Cardinality(Plan(j).launches[k][g])
<1> DEFINE S == Plan(j).launches[k][g]
           f == [e \in S |-> PlaceOf(j, k, e)]
<1>1. IsFiniteSet(S) /\ \A e, d \in S : PlaceOf(j, k, e) = PlaceOf(j, k, d) => e = d
  BY DEF Apart
<1>2. Ran(j, k, g) = {PlaceOf(j, k, e) : e \in S}
  BY DEF Ran, Places, PlaceOf
<1> HIDE DEF S
<1>3. f \in Bijection(S, Ran(j, k, g))
  <2>1. f \in [S -> Ran(j, k, g)]
    BY <1>2
  <2>2. \A e, d \in S : f[e] = f[d] => e = d
    BY <1>1
  <2>3. \A s \in Ran(j, k, g) : \E e \in S : f[e] = s
    BY <1>2
  <2> QED BY <2>1, <2>2, <2>3 DEF Bijection, Injection, Surjection, IsInjective
<1>4. ExistsBijection(S, Ran(j, k, g))
  BY <1>3 DEF ExistsBijection
<1> QED BY <1>1, <1>4, FS_Bijection DEF S

\* Two threads of one launch never store in the same place.
THEOREM RunStoredOnce ==
  ASSUME Alone, \A j \in Jobs : DeviceMeans(j) => Apart(j)
  PROVE  Spec => StoredOnce
<1> DEFINE scattered == \A j \in Jobs : DeviceMeans(j) => Apart(j)
           Counted == IsFiniteSet(stored)
           Once1 == at' = at =>
             /\ \A s \in stored : memory'[s[1]][s[2]] = memory[s[1]][s[2]]
             /\ \A g \in waiting \ waiting' : plan.program = <<>> =>
                  Cardinality(stored') = Cardinality(stored) + Cardinality(plan.launches[at][g])
<1>1. Init => Counted
  BY FS_EmptySet DEF Init
<1>2. ASSUME scattered, RunInv, Counted, NEW g \in waiting, Workgroup(g)
      PROVE  Counted' /\ Once1
  <2> DEFINE y == Meaning(job)
             stores == {Stored(job, memory, at, e) : e \in plan.launches[at][g]}
  <2>1. /\ waiting' = waiting \ {g} /\ memory' = Applied(memory, stores) /\ stored' = stored \cup Places(stores)
        /\ at' = at /\ plan' = plan
    BY <1>2 DEF Workgroup
  <2>2. DeviceRun /\ job \in Jobs /\ plan = Plan(job)
    BY <1>2 DEF RunInv, NotDispatched, HostRun, DeviceRun
  <2>3. DeviceMeans(job) /\ at \in 0 .. Len(plan.launches) /\ waiting \subseteq Dispatched(at)
        /\ MeantOrBlank(y) /\ Written(y) /\ StoredByGroups
    BY <2>2 DEF DeviceRun
  <2>4. Len(plan.launches) \in Nat /\ DOMAIN plan.launches = 1 .. Len(plan.launches)
    BY <2>2, <2>3, DevicePlanIs
  <2>5. at \in 1 .. Len(plan.launches) /\ g \in DOMAIN plan.launches[at] /\ Dispatched(at) = DOMAIN plan.launches[at]
    <3>1. at # 0 /\ g \in DOMAIN plan.launches[at] /\ Dispatched(at) = DOMAIN plan.launches[at]
      BY <2>3 DEF Dispatched
    <3> QED BY <2>3, <2>4, <3>1
  <2>6. Apart(job)
    BY <1>2, <2>2, <2>3
  <2>7. Places(stores) = Ran(job, at, g)
    <3>1. at \in 1 .. Len(Plan(job).launches) /\ g \in DOMAIN Plan(job).launches[at]
      BY <2>2, <2>5
    <3>2. stores = {Stored(job, memory, at, e) : e \in Plan(job).launches[at][g]}
      BY <2>2
    <3> HIDE DEF stores, y
    <3> QED BY <2>3, <3>1, <3>2, GroupStores
  <2>8. IsFiniteSet(Ran(job, at, g)) /\ Cardinality(Ran(job, at, g)) = Cardinality(plan.launches[at][g])
    BY <2>2, <2>4, <2>5, <2>6, RanCounts
  <2>9. stored \cap Ran(job, at, g) = {}
    <3>1. SUFFICES ASSUME NEW s \in stored, s \in Ran(job, at, g)
                   PROVE  FALSE
      OBVIOUS
    <3>2. PICK h \in Dispatched(at) \ waiting : s \in Ran(job, at, h)
      BY <2>3, Zenon DEF StoredByGroups
    <3>3. h # g /\ h \in DOMAIN plan.launches[at]
      BY <2>5
    <3>4. PICK e \in plan.launches[at][g] : s = PlaceOf(job, at, e)
      BY <2>2, <3>1 DEF Ran, Places, PlaceOf
    <3>5. PICK f \in plan.launches[at][h] : s = PlaceOf(job, at, f)
      BY <2>2, <3>2 DEF Ran, Places, PlaceOf
    <3>6. at \in DOMAIN Plan(job).launches /\ g \in DOMAIN Plan(job).launches[at]
          /\ h \in DOMAIN Plan(job).launches[at] /\ e \in Plan(job).launches[at][g] /\ f \in Plan(job).launches[at][h]
      BY <2>2, <2>4, <2>5, <3>3
    <3>7. PlaceOf(job, at, e) = PlaceOf(job, at, f) => g = h
      <4>1. \A k \in DOMAIN Plan(job).launches : \A c, d \in DOMAIN Plan(job).launches[k] :
              \A p \in Plan(job).launches[k][c], q \in Plan(job).launches[k][d] :
                PlaceOf(job, k, p) = PlaceOf(job, k, q) => c = d
        BY <2>6 DEF Apart
      <4> QED BY <3>6, <4>1
    <3> QED BY <3>3, <3>4, <3>5, <3>7
  <2>10. Counted' /\ Cardinality(stored') = Cardinality(stored) + Cardinality(plan.launches[at][g])
    <3>1. IsFiniteSet(stored)
      BY <1>2
    <3>2. stored' = stored \cup Ran(job, at, g)
      BY <2>1, <2>7
    <3>3. IsFiniteSet(stored \cup Ran(job, at, g))
          /\ Cardinality(stored \cup Ran(job, at, g)) = Cardinality(stored) + Cardinality(Ran(job, at, g))
             - Cardinality(stored \cap Ran(job, at, g))
      BY <2>8, <3>1, FS_Union
    <3>4. Cardinality(stored \cap Ran(job, at, g)) = 0
      BY <2>9, FS_EmptySet
    <3>5. Cardinality(stored) \in Int /\ Cardinality(Ran(job, at, g)) \in Int
      BY <2>8, <3>1, FS_CardinalityType
    <3> QED BY <2>8, <3>2, <3>3, <3>4, <3>5
  <2>11. ASSUME NEW s \in stored
         PROVE  memory'[s[1]][s[2]] = memory[s[1]][s[2]]
    <3>1. PICK h \in Dispatched(at) \ waiting : s \in Ran(job, at, h)
      BY <2>3, Zenon DEF StoredByGroups
    <3>2. PICK e \in plan.launches[at][h] : s = PlaceOf(job, at, e)
      BY <2>2, <3>1 DEF Ran, Places, PlaceOf
    <3>3. StoresMeant(job, at, e)
      BY <2>2, <2>3, <2>4, <2>5, <3>1, <3>2, Zenon DEF DeviceMeans
    <3>4. PICK o \in DOMAIN y : \E i \in DOMAIN y[o].data : \A m : Stored(job, m, at, e) = <<o, i, y[o].data[i]>>
      BY <3>3 DEF StoresMeant
    <3>5. PICK i \in DOMAIN y[o].data : \A m : Stored(job, m, at, e) = <<o, i, y[o].data[i]>>
      BY <3>4
    <3>6. s = <<o, i>>
      BY <3>2, <3>5 DEF PlaceOf
    <3>7. at \in 1 .. at /\ h \in DOMAIN plan.launches[at] /\ h \notin waiting
      BY <2>4, <2>5, <3>1
    <3>8. memory[o][i] = y[o].data[i]
      <4>1. <<o, i>> \in Ran(job, at, h)
        BY <3>1, <3>6
      <4> HIDE DEF y
      <4> QED BY <2>3, <3>4, <3>5, <3>7, <4>1, Zenon DEF Written
    <3>9. RunInv'
      BY <1>2, WorkgroupRun
    <3>10. memory'[o][i] = y[o].data[i]
      <4>1. DeviceRun' /\ job' = job
        <5>1. job' = job /\ plan' = plan
          BY <1>2 DEF Workgroup
        <5>2. plan # <<>> /\ ~HostMeans(job)
          <6>1. plan # <<>> /\ plan.path = "device"
            BY <2>2, <2>3, DevicePlanIs
          <6>2. HostMeans(job) => Plan(job).path = "host"
            BY DEF HostMeans, Host
          <6> QED BY <2>2, <6>1, <6>2
        <5> QED BY <3>9, <5>1, <5>2 DEF RunInv, NotDispatched, HostRun
      <4>2. Written(Meaning(job))'
        BY <4>1 DEF DeviceRun
      <4>3. \A k \in 1 .. at : \A d \in DOMAIN plan.launches[k] : (k = at => d \notin waiting') =>
              (<<o, i>> \in Ran(job, k, d) => memory'[o][i] = y[o].data[i])
        BY <2>1, <3>4, <3>5, <4>1, <4>2 DEF Written
      <4>4. h \notin waiting' /\ <<o, i>> \in Ran(job, at, h)
        BY <2>1, <3>1, <3>6, <3>7
      <4> HIDE DEF y
      <4> QED BY <3>7, <4>3, <4>4, Zenon
    <3> QED BY <3>6, <3>8, <3>10
  <2>12. \A h \in waiting \ waiting' : h = g
    BY <2>1
  <2> QED BY <2>10, <2>11, <2>12
<1>3. ASSUME scattered, RunInv, Counted, [Next]_vars
      PROVE  Counted' /\ [Once1]_vars
  <2>1. CASE Dispatch
    <3>1. stored' = stored /\ waiting' = waiting /\ plan = <<>>
      BY <2>1 DEF Dispatch
    <3>2. ~HostRun
      <4>1. HostMeans(job) => "path" \in DOMAIN Plan(job)
        BY DEF HostMeans, Host
      <4> QED BY <3>1, <4>1 DEF HostRun
    <3>3. ~DeviceRun
      BY <3>1, DevicePlanIs DEF DeviceRun
    <3>4. stored = {}
      BY <1>3, <3>2, <3>3 DEF RunInv, NotDispatched
    <3> QED BY <1>3, <3>1, <3>4
  <2>2. CASE Launch
    <3>1. memory # <<>> /\ at' = at + 1 /\ stored' = {}
      BY <2>2 DEF Launch
    <3>2. DeviceMeans(job) /\ plan = Plan(job) /\ at \in 0 .. Len(plan.launches)
      BY <1>3, <3>1, DeviceStep DEF DeviceRun
    <3>3. at' # at
      <4>1. Len(plan.launches) \in Nat
        BY <3>2, DevicePlanIs
      <4> QED BY <3>1, <3>2, <4>1
    <3> QED BY <3>1, <3>3, FS_EmptySet
  <2>3. CASE Bind
    BY <1>3, <2>3 DEF Bind
  <2>4. ASSUME NEW g \in waiting, Workgroup(g)
        PROVE  Counted' /\ Once1
    BY <1>2, <1>3, <2>4
  <2>5. CASE UNCHANGED vars
    BY <1>3, <2>5 DEF vars
  <2> QED BY <1>3, <2>1, <2>2, <2>3, <2>4, <2>5, NoTeam DEF Next
<1>4. Alone /\ RunInv /\ [Next]_vars => RunInv'
  BY NextRun
<1>5. scattered
  OBVIOUS
<1> HIDE DEF scattered, Counted
<1>6. scattered /\ RunInv /\ Counted /\ [Next]_vars => Counted' /\ [Once1]_vars
  BY <1>3
<1> QED BY InitRun, <1>1, <1>4, <1>5, <1>6, PTL DEF Spec, StoredOnce

----------------------------------------------------------------------------
(* Coordinates and places: the row-major order that ONNX means is the one  *)
(* that the loops and the kernels compute with steps.                      *)

\* P[k] is the place that the first k coordinates have among the first k dimensions.
Horner(P, s, c, n) == P[0] = 0 /\ \A k \in 1 .. n : P[k] = P[k - 1] * s[k] + c[k]

LEMMA PlaceIs ==
  ASSUME NEW s, NEW c, NEW n \in Nat, DOMAIN s = 1 .. n
  PROVE  \E P : Horner(P, s, c, n) /\ Place(s, c) = P[n]
<1> DEFINE order == [d \in DOMAIN s |-> d]
           iter[S \in SUBSET (1 .. n)] ==
             IF S = {} THEN 0 ELSE iter[S \ {Max(S)}] * s[order[Max(S)]] + c[order[Max(S)]]
           pairs == [d \in 1 .. n |-> <<s[order[d]], c[order[d]]>>]
<1>1. Place(s, c) = iter[1 .. n]
  BY DEF Place, FoldLeft, MapThenFoldSet
<1>2. \A S \in SUBSET (1 .. n) : S # {} => Max(S) \in 1 .. n
  <2> SUFFICES ASSUME NEW S \in SUBSET (1 .. n), S # {}
               PROVE  Max(S) \in S
    OBVIOUS
  <2>1. S \in SUBSET (0 .. n)
    OBVIOUS
  <2> QED BY <2>1, LargestOf
<1>3. PICK f : FoldsBy(f, "horner", 0, pairs, n)
  BY FoldExists
<1>4. ASSUME NEW S \in SUBSET (1 .. n)
      PROVE  (IF S = {} THEN 0 ELSE Took("horner", f[S \ {Max(S)}], pairs[Max(S)]))
               = IF S = {} THEN 0 ELSE f[S \ {Max(S)}] * s[order[Max(S)]] + c[order[Max(S)]]
  <2>1. CASE S = {}
    BY <2>1
  <2>2. CASE S # {}
    <3>1. Max(S) \in 1 .. n
      BY <1>2, <2>2
    <3>2. pairs[Max(S)] = <<s[order[Max(S)]], c[order[Max(S)]]>>
      BY <3>1
    <3> HIDE DEF pairs, order
    <3>3. pairs[Max(S)][1] = s[order[Max(S)]] /\ pairs[Max(S)][2] = c[order[Max(S)]]
      BY <3>2
    <3> QED BY <2>2, <3>3 DEF Took
  <2> QED BY <2>1, <2>2
<1>5. f = [S \in SUBSET (1 .. n) |-> IF S = {} THEN 0 ELSE f[S \ {Max(S)}] * s[order[Max(S)]] + c[order[Max(S)]]]
  <2>1. f = [S \in SUBSET (1 .. n) |-> IF S = {} THEN 0 ELSE Took("horner", f[S \ {Max(S)}], pairs[Max(S)])]
    BY <1>3, Zenon DEF FoldsBy
  <2> HIDE DEF pairs, order
  <2> QED BY <1>4, <2>1, Zenon
<1>6. iter = [S \in SUBSET (1 .. n) |-> IF S = {} THEN 0 ELSE iter[S \ {Max(S)}] * s[order[Max(S)]] + c[order[Max(S)]]]
  <2> HIDE DEF pairs, order
  <2> QED BY <1>5
<1> HIDE DEF iter
<1>7. FoldsBy(iter, "horner", 0, pairs, n)
  <2>1. ASSUME NEW S \in SUBSET (1 .. n)
        PROVE  (IF S = {} THEN 0 ELSE Took("horner", iter[S \ {Max(S)}], pairs[Max(S)]))
                 = IF S = {} THEN 0 ELSE iter[S \ {Max(S)}] * s[order[Max(S)]] + c[order[Max(S)]]
    <3>1. CASE S = {}
      BY <3>1
    <3>2. CASE S # {}
      <4>1. Max(S) \in 1 .. n
        BY <1>2, <3>2
      <4>2. pairs[Max(S)] = <<s[order[Max(S)]], c[order[Max(S)]]>>
        BY <4>1
      <4> HIDE DEF pairs, order
      <4>3. pairs[Max(S)][1] = s[order[Max(S)]] /\ pairs[Max(S)][2] = c[order[Max(S)]]
        BY <4>2
      <4> QED BY <3>2, <4>3 DEF Took
    <3> QED BY <3>1, <3>2
  <2> HIDE DEF pairs, order
  <2> QED BY <1>6, <2>1, Zenon DEF FoldsBy
<1> DEFINE P == [k \in 0 .. n |-> iter[1 .. k]]
<1>8. Partials(P, "horner", 0, pairs, n)
  <2> HIDE DEF pairs
  <2> QED BY <1>7, FoldIsPartials
<1>9. Place(s, c) = P[n]
  BY <1>1
<1>10. \A k \in 1 .. n : pairs[k][1] = s[k] /\ pairs[k][2] = c[k]
  OBVIOUS
<1> HIDE DEF P, pairs
<1>11. \A k \in 0 .. n : P[k] = IF k = 0 THEN 0 ELSE P[k - 1] * pairs[k][1] + pairs[k][2]
  BY <1>8 DEF Partials, Took
<1>12. Horner(P, s, c, n)
  BY <1>10, <1>11 DEF Horner
<1> QED BY <1>9, <1>12

\* The place of coordinates is what the steps add up to.
LEMMA PlaceIsDot ==
  ASSUME NEW s \in Seq(Nat), Product(s) >= 1, NEW c, DOMAIN c = 1 .. Len(s),
         \A d \in 1 .. Len(s) : c[d] \in Int
  PROVE  Place(s, c) = Dot(c, Strides(s))
<1> DEFINE n == Len(s)
<1>1. n \in Nat /\ DOMAIN s = 1 .. n
  OBVIOUS
<1>2. PICK r : /\ r[n] = 1
               /\ \A d \in 0 .. n : r[d] \in Nat
               /\ \A d \in 1 .. n : s[d] \in Nat /\ r[d - 1] = s[d] * r[d] /\ Strides(s)[d] = r[d]
  BY StepsAre
<1>3. PICK P : Horner(P, s, c, n) /\ Place(s, c) = P[n]
  BY <1>1, PlaceIs
<1>4. PICK t : Sums(t, c, Strides(s), n) /\ Dot(c, Strides(s)) = t[n]
  BY <1>1, DotIs
<1>5. /\ P[0] = 0 /\ \A k \in 1 .. n : P[k] = P[k - 1] * s[k] + c[k]
      /\ t[0] = 0 /\ \A k \in 1 .. n : t[k] = t[k - 1] + c[k] * Strides(s)[k]
  BY <1>3, <1>4 DEF Horner, Sums
<1> DEFINE T == {k \in Nat : k \in 0 .. n => P[k] \in Int /\ t[k] = P[k] * r[k]}
<1>6. 0 \in T
  <2>1. r[0] \in Nat
    BY <1>1, <1>2
  <2> QED BY <1>5, <2>1
<1>7. ASSUME NEW k \in 1 .. n, k - 1 \in T
      PROVE  k \in T
  <2>1. k - 1 \in 0 .. n /\ k \in Nat
    BY <1>1
  <2>2. P[k - 1] \in Int /\ t[k - 1] = P[k - 1] * r[k - 1]
    BY <1>7, <2>1
  <2>3. s[k] \in Nat /\ r[k] \in Nat /\ r[k - 1] = s[k] * r[k] /\ Strides(s)[k] = r[k] /\ c[k] \in Int
    BY <1>1, <1>2
  <2>4. P[k] = P[k - 1] * s[k] + c[k] /\ t[k] = t[k - 1] + c[k] * r[k]
    BY <1>5, <2>3
  <2> DEFINE p == P[k - 1]
             q == s[k]
             u == r[k]
             e == c[k]
  <2>5. p \in Int /\ q \in Int /\ u \in Int /\ e \in Int
    BY <2>2, <2>3
  <2>6. t[k] = p * (q * u) + e * u /\ P[k] = p * q + e
    BY <2>2, <2>3, <2>4
  <2> HIDE DEF p, q, u, e
  <2>7. p * q \in Int
    BY <2>5, MulInt
  <2>8. (p * q + e) * u = (p * q) * u + e * u
    BY <2>5, <2>7, Distributes
  <2>9. (p * q) * u = p * (q * u)
    BY <2>5, Assoc
  <2>10. P[k] \in Int /\ t[k] = P[k] * u
    BY <2>5, <2>6, <2>7, <2>8, <2>9
  <2> QED BY <2>1, <2>10 DEF u
<1>8. 0 .. n \subseteq T
  <2>1. T \in SUBSET Nat
    OBVIOUS
  <2> HIDE DEF T
  <2> QED BY <1>1, <1>6, <1>7, <2>1, CountsUpTo
<1>9. P[n] \in Int /\ t[n] = P[n] * r[n]
  <2>1. n \in 0 .. n
    BY <1>1
  <2> QED BY <1>8, <2>1
<1> QED BY <1>2, <1>3, <1>4, <1>9

\* The coordinates at a place are those that the loops over dimensions find there.
LEMMA CoordAtIs ==
  ASSUME NEW s \in Seq(Nat), NEW i \in 0 .. Product(s) - 1
  PROVE  CoordAt(s, i) = Walk(s, i)
<1>1. PICK r : \A d \in 1 .. Len(s) : Strides(s)[d] = r[d] /\ Walk(s, i)[d] = (i \div r[d]) % s[d]
  BY WalkIs
<1>2. DOMAIN s = 1 .. Len(s)
  OBVIOUS
<1>3. \A d \in 1 .. Len(s) : Strides(s)[d] = Product(After(s, d))
  BY <1>2 DEF Strides
<1>4. CoordAt(s, i) = [d \in 1 .. Len(s) |-> (i \div Product(After(s, d))) % s[d]]
  BY <1>2 DEF CoordAt
<1>5. Walk(s, i) = [d \in 1 .. Len(s) |-> Walk(s, i)[d]]
  BY <1>2 DEF Walk
<1>6. \A d \in 1 .. Len(s) : Walk(s, i)[d] = (i \div Product(After(s, d))) % s[d]
  BY <1>1, <1>3
<1> QED BY <1>4, <1>5, <1>6, Zenon

\* The coordinates at a place inside a shape lie inside, and lead back to the place.
LEMMA CoordInside ==
  ASSUME NEW s \in Seq(Nat), NEW i \in 0 .. Product(s) - 1
  PROVE  /\ Product(s) >= 1 /\ DOMAIN CoordAt(s, i) = 1 .. Len(s)
         /\ \A d \in 1 .. Len(s) : CoordAt(s, i)[d] \in 0 .. s[d] - 1
         /\ Place(s, CoordAt(s, i)) = i
<1>1. CoordAt(s, i) = Walk(s, i)
  BY CoordAtIs
<1>2. Product(s) >= 1
  BY ProductNat
<1>3. DOMAIN CoordAt(s, i) = 1 .. Len(s)
  <2>1. DOMAIN s = 1 .. Len(s)
    OBVIOUS
  <2> QED BY <2>1 DEF CoordAt
<1>4. \A d \in 1 .. Len(s) : CoordAt(s, i)[d] \in 0 .. s[d] - 1
  BY <1>1, WalkInside
<1>5. \A d \in 1 .. Len(s) : CoordAt(s, i)[d] \in Int
  <2>1. \A d \in 1 .. Len(s) : s[d] \in Nat
    OBVIOUS
  <2> QED BY <1>4, <2>1
<1>6. Place(s, CoordAt(s, i)) = Dot(CoordAt(s, i), Strides(s))
  BY <1>2, <1>3, <1>5, PlaceIsDot
<1> QED BY <1>1, <1>2, <1>3, <1>4, <1>6, WalkFinds

\* The element at coordinates inside a tensor is that at a place inside its data.
LEMMA AtInside ==
  ASSUME NEW s \in Seq(Nat), NEW c, DOMAIN c = 1 .. Len(s),
         \A d \in 1 .. Len(s) : c[d] \in 0 .. s[d] - 1
  PROVE  Product(s) >= 1 /\ Place(s, c) = Dot(c, Strides(s)) /\ Place(s, c) \in 0 .. Product(s) - 1
<1>1. \A d \in 1 .. Len(s) : s[d] \in Nat /\ c[d] \in Int /\ s[d] >= 1
  BY DOMAIN s = 1 .. Len(s)
<1>2. Product(s) >= 1
  BY <1>1, ProductNat
<1>3. Place(s, c) = Dot(c, Strides(s))
  BY <1>1, <1>2, PlaceIsDot
<1> QED BY <1>2, <1>3, OffsetInside

----------------------------------------------------------------------------
(* Operators with one output, each element of which a thread of its own    *)
(* stores, and how they are shown to mean what ONNX says.                  *)

\* A tensor of a dtype whose elements have a size.
Operand(x) == x = New(x.dtype, x.shape, x.data) /\ TensorOf(Int, x) /\ ElemSize(x.dtype) > 0

LEMMA OperandIs ==
  ASSUME NEW x, Operand(x)
  PROVE  /\ x.shape \in Seq(Nat) /\ Rank(x) \in Nat /\ DOMAIN x.shape = 1 .. Rank(x)
         /\ Rank(x) = Len(x.shape) /\ \A d \in 1 .. Rank(x) : x.shape[d] \in Nat
         /\ x.data \in [0 .. Product(x.shape) - 1 -> Int] /\ Product(x.shape) \in Nat
         /\ Valid(x) /\ Size(x) = Product(x.shape)
<1>1. TensorOf(Int, x) /\ ElemSize(x.dtype) > 0
  BY DEF Operand
<1>2. x.shape \in Seq(Nat) /\ x.data \in [0 .. Product(x.shape) - 1 -> Int]
  BY <1>1 DEF TensorOf, Count
<1>3. Rank(x) = Len(x.shape) /\ Rank(x) \in Nat /\ DOMAIN x.shape = 1 .. Rank(x)
  BY <1>2 DEF Rank
<1>4. \A d \in 1 .. Rank(x) : x.shape[d] \in Nat
  BY <1>2, <1>3
<1>5. Size(x) = Count(x)
  BY <1>1, SizeIs
<1>6. Valid(x)
  BY <1>1, <1>3, <1>4, <1>5 DEF Valid, Concrete
<1>7. Product(x.shape) \in Nat
  BY <1>2, ProductNat
<1> QED BY <1>2, <1>3, <1>4, <1>5, <1>6, <1>7 DEF Count

\* The only launch has a thread for every element, and thread e stores element e of the
\* only output, as it is meant.
Threads(j, dtype, shape, data, launch) ==
  /\ shape \in Seq(Nat) /\ launch \in {Linear(Product(shape)), Folding(Product(shape))}
  /\ OperatorPlan(j) = Device(<<Out(dtype, shape)>>, <<launch>>)
  /\ OperatorMeaning(j) = <<New(dtype, shape, data)>>
  /\ data = [i \in 0 .. Product(shape) - 1 |-> data[i]]
  /\ \A m : \A e \in 0 .. Product(shape) - 1 : OperatorStored(j, m, 1, e) = <<1, e, data[e]>>

ThreadsMean(j) == \E dtype, shape, data, launch : Threads(j, dtype, shape, data, launch)

LEMMA LaunchedAre ==
  ASSUME NEW j, NEW dtype, NEW shape \in Seq(Nat), NEW data,
         NEW launch \in {Linear(Product(shape)), Folding(Product(shape))},
         OperatorPlan(j) = Device(<<Out(dtype, shape)>>, <<launch>>),
         OperatorMeaning(j) = <<New(dtype, shape, data)>>,
         data = [i \in 0 .. Product(shape) - 1 |-> data[i]],
         \A m : \A e \in 0 .. Product(shape) - 1 : OperatorStored(j, m, 1, e) = <<1, e, data[e]>>
  PROVE  ThreadsMean(j)
<1>1. Threads(j, dtype, shape, data, launch)
  BY DEF Threads
<1> QED BY <1>1, Zenon DEF ThreadsMean

LEMMA ThreadsAre ==
  ASSUME NEW j, NEW dtype, NEW shape \in Seq(Nat), NEW data,
         OperatorPlan(j) = One(dtype, shape),
         OperatorMeaning(j) = <<New(dtype, shape, data)>>,
         data = [i \in 0 .. Product(shape) - 1 |-> data[i]],
         \A m : \A e \in 0 .. Product(shape) - 1 : OperatorStored(j, m, 1, e) = <<1, e, data[e]>>
  PROVE  ThreadsMean(j)
<1>1. OperatorPlan(j) = Device(<<Out(dtype, shape)>>, <<Linear(Product(shape))>>)
  BY DEF One
<1>2. Linear(Product(shape)) \in {Linear(Product(shape)), Folding(Product(shape))}
  OBVIOUS
<1> QED BY <1>1, <1>2, LaunchedAre

\* The host computes what is meant.
ResultsMean(j) == OperatorPlan(j) = Host(OperatorMeaning(j))

\* Constant padding that leaves no dimension negative.
Pads(j) ==
  /\ j.op = "Pad" /\ j.mode = "constant" /\ Operand(j.x[1])
  /\ j.pads \in Seq(Int) /\ Len(j.pads) = 2 * Rank(j.x[1])
  /\ \A d \in 1 .. Rank(j.x[1]) : j.x[1].shape[d] + j.pads[d] + j.pads[d + Rank(j.x[1])] >= 0

\* The shape of a pad, and the element at a place of it.
PadShape(j) == [d \in 1 .. Rank(j.x[1]) |-> j.x[1].shape[d] + j.pads[d] + j.pads[d + Rank(j.x[1])]]
PadFrom(j, i) == [d \in 1 .. Rank(j.x[1]) |-> Walk(PadShape(j), i)[d] - j.pads[d]]
PadElement(j, i) ==
  IF \A d \in 1 .. Rank(j.x[1]) : PadFrom(j, i)[d] \in 0 .. j.x[1].shape[d] - 1
    THEN j.x[1].data[Dot(PadFrom(j, i), Strides(j.x[1].shape))] ELSE j.value

LEMMA PadMeantIs ==
  ASSUME NEW j, Pads(j)
  PROVE  /\ PadShape(j) \in Seq(Nat)
         /\ MeantPad(j.x[1], j.pads, j.value)
              = New(j.x[1].dtype, PadShape(j), [i \in 0 .. Product(PadShape(j)) - 1 |-> PadElement(j, i)])
<1> DEFINE x == j.x[1]
           rank == Rank(x)
           out == PadShape(j)
           pads == j.pads
           old(i) == [d \in 1 .. rank |-> CoordAt(out, i)[d] - pads[d]]
           meant(i) == IF \A d \in 1 .. rank : old(i)[d] \in 0 .. x.shape[d] - 1
                         THEN x.data[Place(x.shape, old(i))] ELSE j.value
<1>1. Operand(x)
  BY DEF Pads
<1>2. /\ x.shape \in Seq(Nat) /\ rank \in Nat /\ DOMAIN x.shape = 1 .. rank /\ rank = Len(x.shape)
      /\ \A d \in 1 .. rank : x.shape[d] \in Nat
  BY <1>1, OperandIs
<1>3. /\ \A d \in 1 .. rank : pads[d] \in Int /\ pads[d + rank] \in Int
      /\ \A d \in 1 .. rank : x.shape[d] + pads[d] + pads[d + rank] >= 0
  <2>1. pads \in Seq(Int) /\ Len(pads) = 2 * rank
    BY DEF Pads
  <2>2. ASSUME NEW d \in 1 .. rank
        PROVE  d \in 1 .. Len(pads) /\ d + rank \in 1 .. Len(pads)
    <3> HIDE DEF x, rank, pads
    <3> QED BY <1>2, <2>1
  <2> QED BY <2>1, <2>2 DEF Pads
<1>4. out \in Seq(Nat) /\ Len(out) = rank
  <2>1. out = [d \in 1 .. rank |-> out[d]]
    BY DEF PadShape
  <2>2. ASSUME NEW d \in 1 .. rank
        PROVE  out[d] \in Nat
    <3>1. out[d] = x.shape[d] + pads[d] + pads[d + rank]
      BY DEF PadShape
    <3> HIDE DEF x, rank, pads, out
    <3> QED BY <1>2, <1>3, <3>1
  <2>3. Lists(out, rank)
    BY <2>1, <2>2, Zenon DEF Lists
  <2> HIDE DEF out
  <2> QED BY <1>2, <2>3, ListIs
<1>5. MeantPad(x, pads, j.value) = New(x.dtype, out, [i \in 0 .. Product(out) - 1 |-> meant(i)])
  BY DEF MeantPad, Make, At, PadShape
<1>6. ASSUME NEW i \in 0 .. Product(out) - 1
      PROVE  meant(i) = PadElement(j, i)
  <2>1. old(i) = PadFrom(j, i)
    BY <1>4, CoordAtIs DEF PadFrom
  <2>2. DOMAIN old(i) = 1 .. Len(x.shape)
    BY <1>2
  <2>3. (\A d \in 1 .. rank : old(i)[d] \in 0 .. x.shape[d] - 1)
          => Place(x.shape, old(i)) = Dot(old(i), Strides(x.shape))
    <3> HIDE DEF old, x
    <3> QED BY <1>2, <2>2, AtInside
  <2> HIDE DEF old
  <2> QED BY <2>1, <2>3 DEF PadElement
<1> HIDE DEF meant, out, x
<1>7. [i \in 0 .. Product(out) - 1 |-> meant(i)] = [i \in 0 .. Product(out) - 1 |-> PadElement(j, i)]
  BY <1>6
<1> QED BY <1>4, <1>5, <1>7 DEF out, x

----------------------------------------------------------------------------
(* The jobs of a run are operators: their plans, threads and meanings are  *)
(* those of the table of operators.                                        *)

RunsOperator(j) ==
  /\ Plan(j) = OperatorPlan(j) /\ Meaning(j) = OperatorMeaning(j)
  /\ \A m : \A k : \A e : Stored(j, m, k, e) = OperatorStored(j, m, k, e)

LEMMA HostOne ==
  ASSUME NEW j, RunsOperator(j), ResultsMean(j)
  PROVE  HostMeans(j)
BY DEF RunsOperator, ResultsMean, HostMeans

LEMMA DeviceOne ==
  ASSUME Local \in Nat, Local >= 1, MaxGroups \in Nat, MaxGroups >= 1,
         NEW j, RunsOperator(j), ThreadsMean(j)
  PROVE  DeviceMeans(j) /\ Apart(j)
<1>1. PICK dtype, shape, data, launch :
        /\ shape \in Seq(Nat) /\ launch \in {Linear(Product(shape)), Folding(Product(shape))}
        /\ OperatorPlan(j) = Device(<<Out(dtype, shape)>>, <<launch>>)
        /\ OperatorMeaning(j) = <<New(dtype, shape, data)>>
        /\ data = [i \in 0 .. Product(shape) - 1 |-> data[i]]
        /\ \A m : \A e \in 0 .. Product(shape) - 1 : OperatorStored(j, m, 1, e) = <<1, e, data[e]>>
  BY Zenon DEF ThreadsMean, Threads
<1> DEFINE n == Product(shape)
           t == New(dtype, shape, data)
<1>2. n \in Nat
  BY <1>1, ProductNat
<1>3. Plan(j) = Device(<<Out(dtype, shape)>>, <<launch>>) /\ Meaning(j) = <<t>>
  BY <1>1 DEF RunsOperator
<1>4. \A m : \A e \in 0 .. n - 1 : Stored(j, m, 1, e) = <<1, e, data[e]>>
  BY <1>1 DEF RunsOperator
<1>5. Once(launch, 0 .. n - 1)
  BY <1>1, <1>2, LinearOnce, FoldingOnce
<1> HIDE DEF n
<1>7. DOMAIN t.data = 0 .. n - 1 /\ t.data = data /\ t.shape = shape /\ t.dtype = dtype
  BY <1>1 DEF New, n
<1>8. Plan(j).outs = <<Out(dtype, shape)>> /\ Plan(j).launches = <<launch>>
  BY <1>3 DEF Device, Passes
<1>9. DOMAIN Meaning(j) = {1} /\ Meaning(j)[1] = t
  BY <1>3
<1>10. DOMAIN Plan(j).launches = {1} /\ Plan(j).launches[1] = launch
  BY <1>8
<1> HIDE DEF t
<1>11. ASSUME NEW g \in DOMAIN launch, NEW e \in launch[g]
       PROVE  e \in 0 .. n - 1
  BY <1>5 DEF Once
<1>12. ASSUME NEW g \in DOMAIN launch
       PROVE  Ran(j, 1, g) = {<<1, e>> : e \in launch[g]}
  <2>1. Ran(j, 1, g) = Places({Stored(j, <<>>, 1, e) : e \in launch[g]})
    BY <1>10 DEF Ran
  <2>2. \A e \in launch[g] : Stored(j, <<>>, 1, e) = <<1, e, data[e]>>
    BY <1>4, <1>11, <1>12
  <2> QED BY <2>1, <2>2 DEF Places
<1>13. ASSUME NEW i \in 0 .. n - 1
       PROVE  \E g \in DOMAIN launch : <<1, i>> \in Ran(j, 1, g)
  <2>1. PICK g \in DOMAIN launch : i \in launch[g]
    BY <1>5 DEF Once
  <2> QED BY <1>12, <2>1
<1>14. ASSUME NEW g \in DOMAIN launch, NEW e \in launch[g]
       PROVE  StoresMeant(j, 1, e)
  <2>1. e \in DOMAIN Meaning(j)[1].data
    BY <1>7, <1>9, <1>11, <1>14
  <2>2. \A m : Stored(j, m, 1, e) = <<1, e, Meaning(j)[1].data[e]>>
    BY <1>4, <1>7, <1>9, <1>11, <1>14
  <2> QED BY <1>9, <2>1, <2>2 DEF StoresMeant
<1>15. DeviceMeans(j)
  <2>1. Plan(j) = Device(Plan(j).outs, Plan(j).launches)
    BY <1>3, <1>8
  <2>2. \E k \in Nat \ {0} : DOMAIN Meaning(j) = 1 .. k
    <3>1. DOMAIN Meaning(j) = 1 .. 1
      BY <1>9
    <3> QED BY <3>1
  <2>3. Plan(j).outs = [o \in DOMAIN Meaning(j) |-> Plan(j).outs[o]]
    BY <1>8, <1>9
  <2>4. \E k \in Nat : Plan(j).launches = [i \in 1 .. k |-> Plan(j).launches[i]]
    <3>1. Plan(j).launches = [i \in 1 .. 1 |-> Plan(j).launches[i]]
      BY <1>8
    <3> QED BY <3>1
  <2>5. Meaning(j) = [o \in DOMAIN Meaning(j) |->
          New(Plan(j).outs[o].dtype, Plan(j).outs[o].shape, Meaning(j)[o].data)]
    <3>1. Plan(j).outs[1].dtype = dtype /\ Plan(j).outs[1].shape = shape
      BY <1>8 DEF Out
    <3>2. New(Plan(j).outs[1].dtype, Plan(j).outs[1].shape, Meaning(j)[1].data) = t
      BY <1>7, <1>9, <3>1 DEF t
    <3> QED BY <1>3, <1>9, <3>2
  <2>6. \A o \in DOMAIN Meaning(j) :
          Meaning(j)[o].data = [i \in 0 .. Product(Plan(j).outs[o].shape) - 1 |-> Meaning(j)[o].data[i]]
    <3>1. Plan(j).outs[1].shape = shape
      BY <1>8 DEF Out
    <3> QED BY <1>1, <1>7, <1>9, <3>1
  <2>7. \A k \in DOMAIN Plan(j).launches : \A g \in DOMAIN Plan(j).launches[k] :
          \A e \in Plan(j).launches[k][g] : StoresMeant(j, k, e)
    BY <1>10, <1>14
  <2>8. \A o \in DOMAIN Meaning(j) : \A i \in DOMAIN Meaning(j)[o].data :
          \E k \in DOMAIN Plan(j).launches : \E g \in DOMAIN Plan(j).launches[k] : <<o, i>> \in Ran(j, k, g)
    BY <1>7, <1>9, <1>10, <1>13
  <2> QED BY <2>1, <2>2, <2>3, <2>4, <2>5, <2>6, <2>7, <2>8 DEF DeviceMeans
<1>16. ASSUME NEW g \in DOMAIN launch, NEW h \in DOMAIN launch
       PROVE  /\ IsFiniteSet(launch[g])
              /\ \A e \in launch[g], f \in launch[h] : PlaceOf(j, 1, e) = PlaceOf(j, 1, f) => g = h /\ e = f
  <2>1. launch[g] \in SUBSET (0 .. n - 1)
    BY <1>11, <1>16
  <2>2. IsFiniteSet(0 .. n - 1)
    BY <1>2, FS_Interval
  <2>3. IsFiniteSet(launch[g])
    BY <2>1, <2>2, FS_Subset
  <2>4. ASSUME NEW e \in launch[g], NEW f \in launch[h], PlaceOf(j, 1, e) = PlaceOf(j, 1, f)
        PROVE  g = h /\ e = f
    <3>1. Stored(j, <<>>, 1, e) = <<1, e, data[e]>> /\ Stored(j, <<>>, 1, f) = <<1, f, data[f]>>
      BY <1>4, <1>11, <1>16
    <3>2. e = f
      BY <2>4, <3>1 DEF PlaceOf
    <3> QED BY <1>5, <3>2 DEF Once
  <2> QED BY <2>3, <2>4
<1>17. Apart(j)
  BY <1>10, <1>16 DEF Apart
<1> QED BY <1>15, <1>17

\* Launches one after the other, each with a thread for every one of its items: all items
\* store elements that are meant, those of one launch different ones, and all are stored.
Launches(j, outs, y, counts) ==
  /\ counts \in Seq(Nat)
  /\ OperatorPlan(j) = Device(outs, [k \in DOMAIN counts |-> Linear(counts[k])])
  /\ OperatorMeaning(j) = y
  /\ \E n \in Nat \ {0} : DOMAIN y = 1 .. n
  /\ outs = [o \in DOMAIN y |-> outs[o]]
  /\ y = [o \in DOMAIN y |-> New(outs[o].dtype, outs[o].shape, y[o].data)]
  /\ \A o \in DOMAIN y : y[o].data = [i \in 0 .. Product(outs[o].shape) - 1 |-> y[o].data[i]]
  /\ \A k \in DOMAIN counts : \A e \in 0 .. counts[k] - 1 :
       \E o \in DOMAIN y : \E i \in DOMAIN y[o].data :
         \A m : OperatorStored(j, m, k, e) = <<o, i, y[o].data[i]>>
  /\ \A k \in DOMAIN counts : \A e, f \in 0 .. counts[k] - 1 :
       /\ OperatorStored(j, <<>>, k, e)[1] = OperatorStored(j, <<>>, k, f)[1]
       /\ OperatorStored(j, <<>>, k, e)[2] = OperatorStored(j, <<>>, k, f)[2]
       => e = f
  /\ \A o \in DOMAIN y : \A i \in DOMAIN y[o].data :
       \E k \in DOMAIN counts : \E e \in 0 .. counts[k] - 1 :
         OperatorStored(j, <<>>, k, e)[1] = o /\ OperatorStored(j, <<>>, k, e)[2] = i

LaunchesMean(j) == \E outs, y, counts : Launches(j, outs, y, counts)

LEMMA DeviceMany ==
  ASSUME Local \in Nat, Local >= 1, NEW j, RunsOperator(j), LaunchesMean(j)
  PROVE  DeviceMeans(j) /\ Apart(j)
<1>1. PICK outs, y, counts : Launches(j, outs, y, counts)
  BY Zenon DEF LaunchesMean
<1> DEFINE grid == [k \in DOMAIN counts |-> Linear(counts[k])]
<1>2. Meaning(j) = y /\ \A m : \A k : \A e : Stored(j, m, k, e) = OperatorStored(j, m, k, e)
  BY <1>1, Zenon DEF RunsOperator, Launches
<1>3. counts \in Seq(Nat) /\ OperatorPlan(j) = Device(outs, grid)
  BY <1>1 DEF Launches
<1>4. Plan(j).outs = outs /\ Plan(j).launches = grid /\ Plan(j) = Device(outs, grid)
  <2>1. Device(outs, grid).launches = grid /\ Device(outs, grid).outs = outs
    BY DEF Device, Passes
  <2>2. Plan(j) = OperatorPlan(j)
    BY Zenon DEF RunsOperator
  <2> HIDE DEF grid
  <2> QED BY <1>3, <2>1, <2>2
<1>5. \A k \in DOMAIN counts : Once(Linear(counts[k]), 0 .. counts[k] - 1) /\ counts[k] \in Nat
  BY <1>3, LinearOnce
<1>6. DOMAIN grid = DOMAIN counts /\ DOMAIN counts = 1 .. Len(counts) /\ Len(counts) \in Nat
      /\ \A k \in DOMAIN counts : grid[k] = Linear(counts[k])
  BY <1>3
<1>7. \A k \in DOMAIN counts : \A e \in 0 .. counts[k] - 1 : StoresMeant(j, k, e)
  <2> SUFFICES ASSUME NEW k \in DOMAIN counts, NEW e \in 0 .. counts[k] - 1
               PROVE  StoresMeant(j, k, e)
    OBVIOUS
  <2>1. PICK o \in DOMAIN y : \E i \in DOMAIN y[o].data :
          \A m : OperatorStored(j, m, k, e) = <<o, i, y[o].data[i]>>
    <3>1. \A h \in DOMAIN counts : \A f \in 0 .. counts[h] - 1 :
            \E o \in DOMAIN y : \E i \in DOMAIN y[o].data :
              \A m : OperatorStored(j, m, h, f) = <<o, i, y[o].data[i]>>
      BY <1>1, Zenon DEF Launches
    <3> QED BY <3>1, Zenon
  <2>2. PICK i \in DOMAIN y[o].data : \A m : OperatorStored(j, m, k, e) = <<o, i, y[o].data[i]>>
    BY <2>1
  <2>3. \A m : Stored(j, m, k, e) = <<o, i, Meaning(j)[o].data[i]>>
    BY <1>2, <2>2
  <2> QED BY <1>2, <2>3 DEF StoresMeant
<1>8. \A k \in DOMAIN grid : \A g \in DOMAIN grid[k] : \A e \in grid[k][g] : e \in 0 .. counts[k] - 1
  BY <1>5, <1>6 DEF Once
<1> HIDE DEF grid
<1>9. DeviceMeans(j)
  <2>1. \E n \in Nat \ {0} : DOMAIN Meaning(j) = 1 .. n
    <3>1. \E n \in Nat \ {0} : DOMAIN y = 1 .. n
      BY <1>1, Zenon DEF Launches
    <3> QED BY <1>2, <3>1
  <2>2. Plan(j).outs = [o \in DOMAIN Meaning(j) |-> Plan(j).outs[o]]
    <3>1. outs = [o \in DOMAIN y |-> outs[o]]
      BY <1>1, Zenon DEF Launches
    <3> QED BY <1>2, <1>4, <3>1
  <2>3. \E n \in Nat : Plan(j).launches = [k \in 1 .. n |-> Plan(j).launches[k]]
    <3>1. grid = [k \in 1 .. Len(counts) |-> grid[k]]
      BY <1>6 DEF grid
    <3> QED BY <1>4, <1>6, <3>1
  <2>4. Meaning(j) = [o \in DOMAIN Meaning(j) |->
          New(Plan(j).outs[o].dtype, Plan(j).outs[o].shape, Meaning(j)[o].data)]
    <3>1. y = [o \in DOMAIN y |-> New(outs[o].dtype, outs[o].shape, y[o].data)]
      BY <1>1, Zenon DEF Launches
    <3> QED BY <1>2, <1>4, <3>1
  <2>5. \A o \in DOMAIN Meaning(j) :
          Meaning(j)[o].data = [i \in 0 .. Product(Plan(j).outs[o].shape) - 1 |-> Meaning(j)[o].data[i]]
    <3>1. \A o \in DOMAIN y : y[o].data = [i \in 0 .. Product(outs[o].shape) - 1 |-> y[o].data[i]]
      BY <1>1, Zenon DEF Launches
    <3> QED BY <1>2, <1>4, <3>1
  <2>6. \A k \in DOMAIN Plan(j).launches : \A g \in DOMAIN Plan(j).launches[k] :
          \A e \in Plan(j).launches[k][g] : StoresMeant(j, k, e)
    BY <1>4, <1>6, <1>7, <1>8
  <2>7. ASSUME NEW o \in DOMAIN Meaning(j), NEW i \in DOMAIN Meaning(j)[o].data
        PROVE  \E k \in DOMAIN Plan(j).launches : \E g \in DOMAIN Plan(j).launches[k] : <<o, i>> \in Ran(j, k, g)
    <3>1. PICK k \in DOMAIN counts : \E e \in 0 .. counts[k] - 1 :
            OperatorStored(j, <<>>, k, e)[1] = o /\ OperatorStored(j, <<>>, k, e)[2] = i
      <4>1. \A p \in DOMAIN y : \A q \in DOMAIN y[p].data :
              \E k \in DOMAIN counts : \E e \in 0 .. counts[k] - 1 :
                OperatorStored(j, <<>>, k, e)[1] = p /\ OperatorStored(j, <<>>, k, e)[2] = q
        BY <1>1, Zenon DEF Launches
      <4> QED BY <1>2, <2>7, <4>1, Zenon
    <3>2. PICK e \in 0 .. counts[k] - 1 : Stored(j, <<>>, k, e)[1] = o /\ Stored(j, <<>>, k, e)[2] = i
      BY <1>2, <3>1
    <3>3. PICK g \in DOMAIN grid[k] : e \in grid[k][g]
      BY <1>5, <1>6 DEF Once
    <3>4. <<o, i>> \in Ran(j, k, g)
      <4>1. Stored(j, <<>>, k, e) \in {Stored(j, <<>>, k, d) : d \in grid[k][g]}
        BY <3>3
      <4>2. <<o, i>> \in Places({Stored(j, <<>>, k, d) : d \in grid[k][g]})
        BY <3>2, <4>1 DEF Places
      <4> QED BY <1>4, <4>2 DEF Ran
    <3> QED BY <1>4, <1>6, <3>3, <3>4
  <2> QED BY <1>4, <2>1, <2>2, <2>3, <2>4, <2>5, <2>6, <2>7 DEF DeviceMeans
<1>10. Apart(j)
  <2> SUFFICES ASSUME NEW k \in DOMAIN grid, NEW g \in DOMAIN grid[k], NEW h \in DOMAIN grid[k]
               PROVE  /\ IsFiniteSet(grid[k][g])
                      /\ \A e \in grid[k][g], f \in grid[k][h] :
                           PlaceOf(j, k, e) = PlaceOf(j, k, f) => g = h /\ e = f
    BY <1>4 DEF Apart
  <2>1. IsFiniteSet(grid[k][g])
    <3>1. grid[k][g] \subseteq 0 .. counts[k] - 1
      BY <1>8
    <3>2. counts[k] - 1 \in Int /\ 0 \in Int
      BY <1>5, <1>6
    <3>3. IsFiniteSet(0 .. counts[k] - 1)
      BY <3>2, FS_Interval
    <3> QED BY <3>1, <3>3, FS_Subset
  <2>2. ASSUME NEW e \in grid[k][g], NEW f \in grid[k][h], PlaceOf(j, k, e) = PlaceOf(j, k, f)
        PROVE  g = h /\ e = f
    <3>1. e \in 0 .. counts[k] - 1 /\ f \in 0 .. counts[k] - 1 /\ k \in DOMAIN counts
      BY <1>6, <1>8
    <3>2. /\ OperatorStored(j, <<>>, k, e)[1] = OperatorStored(j, <<>>, k, f)[1]
          /\ OperatorStored(j, <<>>, k, e)[2] = OperatorStored(j, <<>>, k, f)[2]
      BY <1>2, <2>2 DEF PlaceOf
    <3>3. e = f
      BY <1>1, <3>1, <3>2 DEF Launches
    <3>4. e \in grid[k][g] \cap grid[k][h]
      BY <3>3
    <3>5. Once(grid[k], 0 .. counts[k] - 1)
      BY <1>5, <1>6
    <3> QED BY <3>3, <3>4, <3>5 DEF Once
  <2> QED BY <2>1, <2>2
<1> QED BY <1>9, <1>10

----------------------------------------------------------------------------
(* Pad.                                                                    *)

LEMMA PadParts ==
  ASSUME NEW j, Pads(j)
  PROVE  LET rank == Rank(j.x[1]) IN
         /\ rank \in Nat /\ DOMAIN j.x[1].shape = 1 .. rank
         /\ Len(j.pads) = 2 * rank /\ PadShape(j) \in Seq(Nat) /\ DOMAIN PadShape(j) = 1 .. rank
         /\ DOMAIN PadBegins(j) = 1 .. rank /\ Len(PadBegins(j)) = rank /\ Len(PadEnds(j)) = rank
         /\ \A d \in 1 .. rank : /\ PadBegins(j)[d] = j.pads[d] /\ PadEnds(j)[d] = j.pads[d + rank]
                                 /\ j.pads[d] \in Int /\ j.x[1].shape[d] \in Nat
<1> DEFINE x == j.x[1]
           rank == Rank(x)
           pads == j.pads
<1>1. Operand(x) /\ pads \in Seq(Int) /\ Len(pads) = 2 * rank
  BY DEF Pads
<1>2. rank \in Nat /\ DOMAIN x.shape = 1 .. rank /\ \A d \in 1 .. rank : x.shape[d] \in Nat
  BY <1>1, OperandIs
<1>3. PadShape(j) \in Seq(Nat) /\ DOMAIN PadShape(j) = 1 .. rank
  BY PadMeantIs DEF PadShape
<1>4. PadBegins(j) = SubSeq(pads, 1, rank) /\ PadEnds(j) = SubSeq(pads, rank + 1, Len(pads))
  BY DEF PadBegins, PadEnds
<1> HIDE DEF x, rank, pads
<1>5. /\ DOMAIN PadBegins(j) = 1 .. rank /\ Len(PadBegins(j)) = rank
      /\ \A d \in 1 .. rank : PadBegins(j)[d] = pads[d]
  BY <1>1, <1>2, <1>4
<1>6. Len(PadEnds(j)) = rank /\ \A d \in 1 .. rank : PadEnds(j)[d] = pads[d + rank]
  <2>1. \A d \in rank + 1 .. Len(pads) : pads[d] \in Int
    BY <1>1, <1>2
  <2>2. rank + 1 \in Int /\ Len(pads) \in Int
    BY <1>1, <1>2
  <2>3. /\ Len(PadEnds(j)) = IF rank + 1 <= Len(pads) THEN Len(pads) - (rank + 1) + 1 ELSE 0
        /\ \A d \in 1 .. Len(pads) - (rank + 1) + 1 : PadEnds(j)[d] = pads[rank + 1 + d - 1]
    BY <1>4, <2>1, <2>2, SubSeqProperties
  <2>4. Len(pads) - (rank + 1) + 1 = rank /\ \A d \in 1 .. rank : rank + 1 + d - 1 = d + rank
    BY <1>1, <1>2
  <2> QED BY <1>1, <1>2, <2>3, <2>4
<1>7. \A d \in 1 .. rank : pads[d] \in Int
  BY <1>1, <1>2
<1> QED BY <1>1, <1>2, <1>3, <1>5, <1>6, <1>7 DEF x, rank, pads

LEMMA PadRuns ==
  ASSUME NEW j, Pads(j)
  PROVE  ResultsMean(j) \/ ThreadsMean(j)
<1> DEFINE x == j.x[1]
           rank == Rank(x)
           out == PadShape(j)
           data == [i \in 0 .. Product(out) - 1 |-> PadElement(j, i)]
<1>1. /\ rank \in Nat /\ DOMAIN x.shape = 1 .. rank /\ Len(j.pads) = 2 * rank
      /\ out \in Seq(Nat) /\ DOMAIN out = 1 .. rank
      /\ DOMAIN PadBegins(j) = 1 .. rank /\ Len(PadBegins(j)) = rank /\ Len(PadEnds(j)) = rank
      /\ \A d \in 1 .. rank : /\ PadBegins(j)[d] = j.pads[d] /\ PadEnds(j)[d] = j.pads[d + rank]
                              /\ j.pads[d] \in Int /\ x.shape[d] \in Nat
  BY PadParts
<1>2. Operand(x) /\ j.op = "Pad" /\ j.mode = "constant"
  BY DEF Pads
<1>3. /\ Valid(x) /\ x.shape \in Seq(Nat) /\ rank = Len(x.shape)
      /\ x.data \in [0 .. Product(x.shape) - 1 -> Int]
  BY <1>2, OperandIs
<1>4. OperatorMeaning(j) = <<New(x.dtype, out, data)>>
  BY <1>2, PadMeantIs DEF OperatorMeaning
<1>5. [d \in DOMAIN PadBegins(j) |-> x.shape[d] + PadBegins(j)[d] + PadEnds(j)[d]] = out
  BY <1>1 DEF PadShape
<1>6. [d \in DOMAIN x.shape |-> x.shape[d] + PadBegins(j)[d] + PadEnds(j)[d]] = out
  BY <1>1 DEF PadShape
<1>7. \A i : [d \in DOMAIN out |-> Walk(out, i)[d] - PadBegins(j)[d]] = PadFrom(j, i)
  BY <1>1 DEF PadFrom
<1>8. ASSUME NEW i \in 0 .. Product(out) - 1, NEW d \in 1 .. rank
      PROVE  PadFrom(j, i)[d] \in Int
  <2>1. out \in Seq(Nat) /\ Len(out) = rank /\ j.pads[d] \in Int
    BY <1>1
  <2>2. Walk(out, i)[d] \in 0 .. out[d] - 1 /\ out[d] \in Nat
    <3> HIDE DEF out, rank
    <3> QED BY <1>8, <2>1, WalkInside
  <2>3. PadFrom(j, i)[d] = Walk(out, i)[d] - j.pads[d]
    BY DEF PadFrom
  <2> HIDE DEF out
  <2> QED BY <2>1, <2>2, <2>3
<1>9. OperatorPlan(j) = IF IsFloat(x) THEN One("FLOAT", out) ELSE Host(<<Pad(x, PadBegins(j), PadEnds(j), j.value)>>)
  BY <1>1, <1>2, <1>6 DEF OperatorPlan, PadPlan
<1>10. Concrete(out)
  BY <1>1 DEF Concrete
<1>11. Pad(x, PadBegins(j), PadEnds(j), j.value) = New(x.dtype, out, data)
  <2> DEFINE padding(o) == \E d \in DOMAIN out : PadFrom(j, o)[d] \notin 0 .. x.shape[d] - 1
             padded == [o \in 0 .. Product(out) - 1 |->
                          IF padding(o) THEN j.value ELSE x.data[Dot(PadFrom(j, o), Strides(x.shape))]]
  <2>1. Pad(x, PadBegins(j), PadEnds(j), j.value) = New(x.dtype, out, padded)
    <3> DEFINE begins == PadBegins(j)
               ends == PadEnds(j)
               shape == [d \in DOMAIN begins |-> x.shape[d] + begins[d] + ends[d]]
               inside(o) == [d \in DOMAIN shape |-> Walk(shape, o)[d] - begins[d]]
    <3>1. Movable(x) /\ Len(begins) = Rank(x) /\ Len(ends) = Rank(x)
      BY <1>1, <1>3 DEF Movable
    <3>2. shape = out
      BY <1>5
    <3>3. \A o : inside(o) = PadFrom(j, o)
      BY <1>7, <3>2, Zenon
    <3>4. Concrete(shape)
      BY <1>10, <3>2, Zenon
    <3>5. Pad(x, begins, ends, j.value) =
            New(x.dtype, shape, [o \in 0 .. Product(shape) - 1 |->
              IF \E d \in DOMAIN shape : inside(o)[d] \notin 0 .. x.shape[d] - 1
                THEN j.value ELSE x.data[Dot(inside(o), Strides(x.shape))]])
      BY <3>1, <3>4, Zenon DEF Pad
    <3> HIDE DEF x, shape, inside, begins, ends, out
    <3> QED BY <3>2, <3>3, <3>5, Zenon DEF begins, ends
  <2>2. padded = data
    BY <1>1 DEF PadElement
  <2> QED BY <2>1, <2>2
<1>12. ASSUME NEW i \in 0 .. Product(out) - 1
       PROVE  PadThread(j, i) = PadElement(j, i)
  <2> DEFINE c == PadFrom(j, i)
  <2>1. PadThread(j, i) = IF \E d \in 1 .. rank : c[d] < 0 \/ c[d] >= x.shape[d] THEN j.value
                          ELSE Load(x.data, Dot(c, Strides(x.shape)))
    <3>1. PadThread(j, i) = IF \E d \in DOMAIN out : c[d] < 0 \/ c[d] >= x.shape[d] THEN j.value
                            ELSE Load(x.data, Dot(c, Strides(x.shape)))
      <4> HIDE DEF out
      <4> QED BY <1>6, <1>7 DEF PadThread
    <3> QED BY <1>1, <3>1
  <2>2. DOMAIN c = 1 .. rank /\ \A d \in 1 .. rank : c[d] \in Int /\ x.shape[d] \in Nat
    BY <1>1, <1>8 DEF PadFrom
  <2>3. PadElement(j, i) = IF \A d \in 1 .. rank : c[d] \in 0 .. x.shape[d] - 1
                           THEN x.data[Dot(c, Strides(x.shape))] ELSE j.value
    BY DEF PadElement
  <2> HIDE DEF c, x, rank, out
  <2>4. CASE \A d \in 1 .. rank : c[d] \in 0 .. x.shape[d] - 1
    <3>1. Dot(c, Strides(x.shape)) \in 0 .. Product(x.shape) - 1
      BY <1>3, <2>2, <2>4, OffsetInside
    <3>2. Dot(c, Strides(x.shape)) \in DOMAIN x.data
      BY <1>3, <3>1
    <3>3. ~ \E d \in 1 .. rank : c[d] < 0 \/ c[d] >= x.shape[d]
      BY <2>2, <2>4
    <3> QED BY <2>1, <2>3, <2>4, <3>2, <3>3 DEF Load
  <2>5. CASE ~ \A d \in 1 .. rank : c[d] \in 0 .. x.shape[d] - 1
    <3>1. \E d \in 1 .. rank : c[d] < 0 \/ c[d] >= x.shape[d]
      BY <2>2, <2>5
    <3> QED BY <2>1, <2>3, <2>5, <3>1
  <2> QED BY <2>4, <2>5
<1>13. CASE IsFloat(x)
  <2>1. \A m : \A e \in 0 .. Product(out) - 1 : OperatorStored(j, m, 1, e) = <<1, e, data[e]>>
    BY <1>2, <1>12 DEF OperatorStored
  <2>2. data = [i \in 0 .. Product(out) - 1 |-> data[i]]
    OBVIOUS
  <2>3. OperatorPlan(j) = One("FLOAT", out) /\ x.dtype = "FLOAT"
    BY <1>9, <1>13 DEF IsFloat
  <2> HIDE DEF data, out
  <2>4. OperatorMeaning(j) = <<New("FLOAT", out, data)>> /\ out \in Seq(Nat)
    BY <1>1, <1>4, <2>3
  <2> QED BY <2>1, <2>2, <2>3, <2>4, ThreadsAre
<1>14. CASE ~IsFloat(x)
  BY <1>4, <1>9, <1>11, <1>14 DEF ResultsMean
<1> QED BY <1>13, <1>14

----------------------------------------------------------------------------
(* Tile, Cast, the changes of shape and the functions of one element.      *)

Tiles(j) ==
  /\ j.op = "Tile" /\ Operand(j.x[1])
  /\ j.repeats \in Seq(Nat) /\ Len(j.repeats) = Rank(j.x[1])

LEMMA TileRuns ==
  ASSUME NEW j, Tiles(j)
  PROVE  ResultsMean(j)
<1> DEFINE x == j.x[1]
           rank == Rank(x)
           s == x.shape
           out == [d \in DOMAIN j.repeats |-> s[d] * j.repeats[d]]
           old(i) == [d \in DOMAIN CoordAt(out, i) |-> CoordAt(out, i)[d] % s[d]]
           from(i) == [d \in DOMAIN out |-> Walk(out, i)[d] % AtLeastOne(s[d])]
<1>1. /\ rank \in Nat /\ DOMAIN s = 1 .. rank /\ rank = Len(s) /\ s \in Seq(Nat) /\ Valid(x)
      /\ \A d \in 1 .. rank : s[d] \in Nat
  BY OperandIs DEF Tiles
<1>2. DOMAIN j.repeats = 1 .. rank /\ Len(j.repeats) = rank /\ \A d \in 1 .. rank : j.repeats[d] \in Nat
  BY DEF Tiles
<1>3. out \in Seq(Nat) /\ DOMAIN out = 1 .. rank /\ Len(out) = rank
  <2>1. out = [d \in 1 .. rank |-> s[d] * j.repeats[d]]
    BY <1>2
  <2>2. \A d \in 1 .. rank : s[d] * j.repeats[d] \in Nat
    BY <1>1, <1>2, MulNat
  <2>3. Lists(out, rank)
    BY <2>1, <2>2 DEF Lists
  <2> QED BY <1>1, <2>1, <2>3, ListIs
<1>4. \A d \in 1 .. rank : out[d] >= 1 => s[d] >= 1
  BY <1>1, <1>2, MulNat
<1>5. ASSUME NEW i \in 0 .. Product(out) - 1
      PROVE  x.data[Place(s, old(i))] = x.data[Dot(from(i), Strides(s))]
  <2>1. /\ CoordAt(out, i) = Walk(out, i) /\ DOMAIN CoordAt(out, i) = 1 .. rank
        /\ \A d \in 1 .. rank : CoordAt(out, i)[d] \in 0 .. out[d] - 1
    BY <1>3, CoordAtIs, CoordInside
  <2>2. \A d \in 1 .. rank : s[d] >= 1 /\ AtLeastOne(s[d]) = s[d] /\ CoordAt(out, i)[d] \in Nat
    <3> SUFFICES ASSUME NEW d \in 1 .. rank
                 PROVE  s[d] >= 1 /\ AtLeastOne(s[d]) = s[d] /\ CoordAt(out, i)[d] \in Nat
      OBVIOUS
    <3>1. out[d] \in Nat /\ CoordAt(out, i)[d] \in 0 .. out[d] - 1
      BY <1>3, <2>1
    <3>2. s[d] >= 1 /\ CoordAt(out, i)[d] \in Nat
      <4> HIDE DEF out
      <4> QED BY <1>4, <3>1
    <3> QED BY <1>1, <3>2 DEF AtLeastOne
  <2>3. old(i) = from(i)
    <3> HIDE DEF out
    <3> QED BY <1>3, <2>1, <2>2
  <2>4. \A d \in 1 .. rank : old(i)[d] \in 0 .. s[d] - 1
    <3> SUFFICES ASSUME NEW d \in 1 .. rank
                 PROVE  old(i)[d] \in 0 .. s[d] - 1
      OBVIOUS
    <3>1. CoordAt(out, i)[d] % s[d] \in 0 .. s[d] - 1
      BY <1>1, <2>2, Division, Zenon
    <3> QED BY <2>1, <3>1
  <2>5. DOMAIN old(i) = 1 .. rank
    BY <2>1
  <2> HIDE DEF old
  <2>6. Place(s, old(i)) = Dot(old(i), Strides(s))
    BY <1>1, <2>4, <2>5, AtInside
  <2> QED BY <2>3, <2>6
<1>6. OperatorMeaning(j) = <<New(x.dtype, out, [i \in 0 .. Product(out) - 1 |-> x.data[Place(s, old(i))]])>>
  BY DEF Tiles, OperatorMeaning, MeantTile, Make, At
<1>7. Tile(x, j.repeats) = New(x.dtype, out, [i \in 0 .. Product(out) - 1 |-> x.data[Dot(from(i), Strides(s))]])
  <2>1. Concrete(j.repeats)
    BY <1>2 DEF Concrete
  <2> QED BY <1>1, <1>2, <2>1 DEF Tile, Movable, Moved
<1>8. OperatorPlan(j) = Host(<<Tile(x, j.repeats)>>)
  BY DEF Tiles, OperatorPlan
<1> HIDE DEF out, old, from, x, s
<1>9. [i \in 0 .. Product(out) - 1 |-> x.data[Place(s, old(i))]]
        = [i \in 0 .. Product(out) - 1 |-> x.data[Dot(from(i), Strides(s))]]
  BY <1>5
<1> QED BY <1>6, <1>7, <1>8, <1>9 DEF ResultsMean

\* A BOOL is 0 or 1; floats are not cast to BOOL, for the host truncates them first.
Casts(j) ==
  /\ j.op = "Cast" /\ Operand(j.x[1]) /\ Numeric(j.x[1])
  /\ j.to \in {"FLOAT", "INT64", "INT32", "BOOL"}
  /\ j.x[1].dtype = "BOOL" => \A i \in DOMAIN j.x[1].data : j.x[1].data[i] \in {0, 1}
  /\ j.x[1].dtype = "FLOAT" => j.to # "BOOL"

LEMMA CastRuns ==
  ASSUME NEW j, Casts(j)
  PROVE  ResultsMean(j) \/ ThreadsMean(j)
<1> DEFINE x == j.x[1]
           to == j.to
           data == [i \in DOMAIN x.data |-> MeantCast(x, to).data[i]]
<1>1. Operand(x) /\ Numeric(x) /\ j.op = "Cast" /\ to \in {"FLOAT", "INT64", "INT32", "BOOL"}
      /\ (x.dtype = "FLOAT" => to # "BOOL")
  BY DEF Casts
<1>2. /\ x.shape \in Seq(Nat) /\ Valid(x) /\ x.data \in [0 .. Product(x.shape) - 1 -> Int]
      /\ x = New(x.dtype, x.shape, x.data) /\ DOMAIN x.data = 0 .. Product(x.shape) - 1
  BY <1>1, OperandIs DEF Operand
<1>3. \A i \in DOMAIN x.data : x.data[i] \in Int /\ (x.dtype = "BOOL" => x.data[i] \in {0, 1})
  BY <1>2 DEF Casts
<1>4. OperatorMeaning(j) = <<MeantCast(x, to)>>
  BY <1>1 DEF OperatorMeaning
<1>5. OperatorPlan(j) = IF OnDevice(j, 1) /\ {x.dtype, to} \subseteq {"FLOAT", "INT32"}
                        THEN One(to, x.shape) ELSE Host(<<Cast(x, to)>>)
  BY <1>1 DEF OperatorPlan, CastPlan
<1> HIDE DEF x, to, data
<1>6. /\ MeantCast(x, to) = New(to, x.shape, data)
      /\ \A i \in DOMAIN x.data :
           data[i] = IF to = x.dtype THEN x.data[i]
                     ELSE CASE to = "BOOL"  -> IF x.data[i] = 0 THEN 0 ELSE 1
                            [] to = "FLOAT" -> 2 * x.data[i]
                            [] OTHER -> IF x.dtype = "FLOAT" THEN Truncated(x.data[i], 2) ELSE x.data[i]
  <2>1. CASE to = x.dtype
    <3>1. MeantCast(x, to) = x
      BY <2>1 DEF MeantCast
    <3>2. data = x.data
      BY <1>2, <3>1 DEF data
    <3> QED BY <1>2, <2>1, <3>1, <3>2
  <2>2. CASE to # x.dtype
    <3> DEFINE meant(i) == CASE to = "BOOL"  -> IF x.data[i] = 0 THEN 0 ELSE 1
                             [] to = "FLOAT" -> 2 * x.data[i]
                             [] OTHER -> IF x.dtype = "FLOAT" THEN Truncated(x.data[i], 2) ELSE x.data[i]
    <3>1. MeantCast(x, to) = New(to, x.shape, [i \in DOMAIN x.data |-> meant(i)])
      BY <2>2 DEF MeantCast
    <3>2. \A i \in DOMAIN x.data : MeantCast(x, to).data[i] = meant(i)
      <4> HIDE DEF meant
      <4> QED BY <3>1 DEF New
    <3>3. data = [i \in DOMAIN x.data |-> meant(i)]
      <4> HIDE DEF meant
      <4> QED BY <3>2 DEF data
    <3>4. \A i \in DOMAIN x.data : data[i] = meant(i)
      <4> HIDE DEF meant
      <4> QED BY <3>3
    <3> QED BY <2>2, <3>1, <3>3, <3>4
  <2> QED BY <2>1, <2>2
<1>7. /\ DOMAIN ToFloat(x) = DOMAIN x.data /\ ToFloat(x) = [i \in DOMAIN x.data |-> ToFloat(x)[i]]
      /\ DOMAIN ToInt(x) = DOMAIN x.data /\ ToInt(x) = [i \in DOMAIN x.data |-> ToInt(x)[i]]
  BY DEF ToFloat, ToInt
<1>8. ASSUME NEW i \in DOMAIN x.data
      PROVE  /\ ToInt(x)[i] = IF x.dtype = "FLOAT" THEN Truncated(x.data[i], 2) ELSE x.data[i]
             /\ ToFloat(x)[i] = IF x.dtype = "FLOAT" THEN x.data[i] ELSE 2 * ToInt(x)[i]
  <2>1. ToFloat(x)[i] = IF x.dtype = "FLOAT" THEN x.data[i] ELSE 2 * ToInt(x)[i]
    BY DEF ToFloat
  <2>2. ToInt(x)[i] = CASE x.dtype = "FLOAT" -> Truncated(x.data[i], 2)
                        [] x.dtype = "BOOL"  -> IF x.data[i] # 0 THEN 1 ELSE 0
                        [] OTHER -> x.data[i]
    BY DEF ToInt
  <2> QED BY <1>3, <2>1, <2>2
<1>9. data = [i \in DOMAIN x.data |-> data[i]]
  BY DEF data
<1>10. Cast(x, to) = New(to, x.shape, data)
  <2>1. CASE to = x.dtype
    <3>1. data = x.data
      BY <1>2, <1>6, <1>9, <2>1
    <3>2. Cast(x, to) = x
      BY <1>2, <2>1 DEF Cast
    <3> QED BY <1>2, <2>1, <3>1, <3>2
  <2>2. CASE to # x.dtype /\ to = "FLOAT"
    <3>1. \A i \in DOMAIN x.data : data[i] = ToFloat(x)[i]
      BY <1>3, <1>6, <1>8, <2>2
    <3>2. ToFloat(x) = data
      BY <1>7, <1>9, <3>1
    <3> QED BY <1>1, <1>2, <2>2, <3>2 DEF Cast
  <2>3. CASE to # x.dtype /\ to \in {"INT64", "INT32"}
    <3>1. \A i \in DOMAIN x.data : data[i] = ToInt(x)[i]
      BY <1>6, <1>8, <2>3
    <3>2. ToInt(x) = data
      BY <1>7, <1>9, <3>1
    <3> QED BY <1>1, <1>2, <2>3, <3>2 DEF Cast
  <2>4. CASE to # x.dtype /\ to = "BOOL"
    <3>1. \A i \in DOMAIN x.data : data[i] = IF ToInt(x)[i] # 0 THEN 1 ELSE 0
      BY <1>1, <1>6, <1>8, <2>4
    <3>2. [i \in DOMAIN x.data |-> IF ToInt(x)[i] # 0 THEN 1 ELSE 0] = data
      BY <1>9, <3>1
    <3> QED BY <1>1, <1>2, <2>4, <3>2 DEF Cast
  <2> QED BY <1>1, <2>1, <2>2, <2>3, <2>4
<1>11. CASE OnDevice(j, 1) /\ {x.dtype, to} \subseteq {"FLOAT", "INT32"}
  <2>1. ASSUME NEW i \in 0 .. Product(x.shape) - 1
        PROVE  CastThread(j, i) = data[i]
    <3>1. Load(x.data, i) = x.data[i] /\ i \in DOMAIN x.data
      BY <1>2 DEF Load
    <3>2. CastThread(j, i) =
            CASE x.dtype = to  -> Load(x.data, i)
              [] x.dtype = "INT32" /\ to = "FLOAT" -> 2 * Load(x.data, i)
              [] x.dtype = "FLOAT" /\ to = "INT32" -> Truncated(Load(x.data, i), 2)
      BY DEF CastThread, x, to
    <3> QED BY <1>6, <1>11, <3>1, <3>2
  <2>2. \A m : \A e \in 0 .. Product(x.shape) - 1 : OperatorStored(j, m, 1, e) = <<1, e, data[e]>>
    BY <1>1, <2>1 DEF OperatorStored
  <2>3. data = [i \in 0 .. Product(x.shape) - 1 |-> data[i]]
    BY <1>2, <1>9
  <2> QED BY <1>2, <1>4, <1>5, <1>6, <1>11, <2>2, <2>3, ThreadsAre
<1>12. CASE ~(OnDevice(j, 1) /\ {x.dtype, to} \subseteq {"FLOAT", "INT32"})
  BY <1>4, <1>5, <1>6, <1>10, <1>12 DEF ResultsMean
<1> QED BY <1>11, <1>12

\* A change of shape that keeps the number of elements and names the shape that is meant.
Reshapes(j) ==
  /\ j.op \in {"Reshape", "Flatten", "Unsqueeze", "Squeeze"} /\ Operand(j.x[1])
  /\ NewShape(j) \in Seq(Nat) /\ Product(NewShape(j)) = Product(j.x[1].shape)
  /\ j.meant = NewShape(j)

LEMMA ReshapeRuns ==
  ASSUME NEW j, Reshapes(j)
  PROVE  ResultsMean(j) \/ ThreadsMean(j)
<1> DEFINE x == j.x[1]
           shape == NewShape(j)
<1>1. Operand(x) /\ shape \in Seq(Nat) /\ Product(shape) = Product(x.shape) /\ j.meant = shape
      /\ j.op \in {"Reshape", "Flatten", "Unsqueeze", "Squeeze"}
  BY DEF Reshapes
<1>2. x.data \in [0 .. Product(x.shape) - 1 -> Int] /\ Size(x) = Product(x.shape)
  BY <1>1, OperandIs
<1>3. OperatorMeaning(j) = <<New(x.dtype, shape, x.data)>>
  BY <1>1 DEF OperatorMeaning, Reshaped
<1>4. shape # <<-1>>
  <2>1. \A d \in DOMAIN shape : shape[d] \in Nat
    BY <1>1
  <2>2. DOMAIN <<-1>> = {1} /\ <<-1>>[1] = -1 /\ -1 \notin Nat
    OBVIOUS
  <2> QED BY <2>1, <2>2
<1>5. OperatorPlan(j) = MetaPlan(j)
  BY <1>1 DEF OperatorPlan
<1>6. OperatorPlan(j) = Host(<<New(x.dtype, shape, x.data)>>)
      \/ OperatorPlan(j) = Device(<<Out(x.dtype, shape)>>, <<Linear(Size(x))>>)
  <2> HIDE DEF shape
  <2> QED BY <1>4, <1>5 DEF MetaPlan, shape
<1>7. CASE OperatorPlan(j) = Device(<<Out(x.dtype, shape)>>, <<Linear(Size(x))>>)
  <2>1. OperatorPlan(j) = One(x.dtype, shape)
    BY <1>1, <1>2, <1>7 DEF One
  <2>2. \A m : \A e \in 0 .. Product(shape) - 1 : OperatorStored(j, m, 1, e) = <<1, e, x.data[e]>>
    <3>1. \A m : \A e : OperatorStored(j, m, 1, e) = <<1, e, Load(x.data, e)>>
      BY <1>1 DEF OperatorStored
    <3>2. \A e \in 0 .. Product(shape) - 1 : Load(x.data, e) = x.data[e]
      <4> HIDE DEF x, shape
      <4> QED BY <1>1, <1>2 DEF Load
    <3> HIDE DEF x, shape
    <3> QED BY <3>1, <3>2
  <2>3. x.data = [i \in 0 .. Product(shape) - 1 |-> x.data[i]]
    BY <1>1, <1>2
  <2> HIDE DEF x, shape
  <2> QED BY <1>1, <1>3, <2>1, <2>2, <2>3, ThreadsAre
<1> QED BY <1>3, <1>6, <1>7 DEF ResultsMean

Fills(j) == j.op = "ConstantOfShape" /\ j.shape \in Seq(Nat) /\ ElemSize(j.dtype) > 0

LEMMA FillRuns ==
  ASSUME NEW j, Fills(j)
  PROVE  ResultsMean(j)
<1>1. OperatorPlan(j) = Host(<<ConstantOfShape(j.shape, j.dtype, j.value)>>)
  BY DEF Fills, OperatorPlan
<1>2. OperatorMeaning(j) = <<New(j.dtype, j.shape, [i \in 0 .. Product(j.shape) - 1 |-> j.value])>>
  BY DEF Fills, OperatorMeaning, Make
<1>3. Concrete(j.shape) /\ ElemSize(j.dtype) # 0
  BY DEF Fills, Concrete
<1>4. ConstantOfShape(j.shape, j.dtype, j.value)
        = New(j.dtype, j.shape, [i \in 0 .. Product(j.shape) - 1 |-> j.value])
  BY <1>3 DEF ConstantOfShape
<1> QED BY <1>1, <1>2, <1>4 DEF ResultsMean

\* One function of every element, of floats.
Maps(j) ==
  /\ j.op \in {"Unary", "Clip"} /\ Operand(j.x[1]) /\ IsFloat(j.x[1])
  /\ j.op = "Clip" => /\ j.low = <<>> \/ \E l \in Int : j.low = <<l>>
                      /\ j.high = <<>> \/ \E h \in Int : j.high = <<h>>

ClippedTo(v, low, high) ==
  LET above == IF low = <<>> \/ v > low[1] THEN v ELSE low[1]
  IN IF high = <<>> \/ above < high[1] THEN above ELSE high[1]

LEMMA ClipIs ==
  ASSUME NEW v \in Int, NEW low, NEW high,
         low = <<>> \/ \E l \in Int : low = <<l>>, high = <<>> \/ \E h \in Int : high = <<h>>
  PROVE  Min({Max({v} \cup ToSet(low))} \cup ToSet(high)) = ClippedTo(v, low, high)
<1> DEFINE above == IF low = <<>> \/ v > low[1] THEN v ELSE low[1]
           A == {v} \cup ToSet(low)
           B == {above} \cup ToSet(high)
           least == IF high = <<>> \/ above < high[1] THEN above ELSE high[1]
<1>1. ToSet(low) = IF low = <<>> THEN {} ELSE {low[1]}
  BY DEF ToSet
<1>2. ToSet(high) = IF high = <<>> THEN {} ELSE {high[1]}
  BY DEF ToSet
<1>3. (low # <<>> => low[1] \in Int) /\ (high # <<>> => high[1] \in Int)
  OBVIOUS
<1>4. above \in Int /\ above \in A /\ \A y \in A : above >= y /\ y \in Int
  BY <1>1, <1>3
<1>5. Max(A) = above
  <2> HIDE DEF above, A
  <2>1. \E m \in A : \A y \in A : m >= y
    BY <1>4
  <2>2. Max(A) \in A /\ \A y \in A : Max(A) >= y
    BY <2>1, Zenon DEF Max
  <2>3. Max(A) \in Int /\ Max(A) >= above /\ above >= Max(A)
    BY <1>4, <2>2
  <2> QED BY <1>4, <2>3
<1> HIDE DEF above
<1>6. least \in B /\ \A y \in B : least <= y /\ y \in Int
  BY <1>2, <1>3, <1>4
<1>7. Min(B) = least
  <2> HIDE DEF least, B
  <2>1. \E m \in B : \A y \in B : m <= y
    BY <1>6
  <2>2. Min(B) \in B /\ \A y \in B : Min(B) <= y
    BY <2>1, Zenon DEF Min
  <2>3. Min(B) \in Int /\ Min(B) <= least /\ least <= Min(B) /\ least \in Int
    BY <1>6, <2>2
  <2> QED BY <2>3
<1> QED BY <1>5, <1>7 DEF above, A, B, least, ClippedTo

LEMMA MapRuns ==
  ASSUME NEW j, Maps(j)
  PROVE  ThreadsMean(j)
<1> DEFINE x == j.x[1]
           n == Product(x.shape)
<1>1. Operand(x) /\ x.dtype = "FLOAT"
  BY DEF Maps, IsFloat
<1>2. x.shape \in Seq(Nat) /\ x.data \in [0 .. n - 1 -> Int] /\ DOMAIN x.data = 0 .. n - 1
  BY <1>1, OperandIs
<1>3. \A i \in 0 .. n - 1 : x.data[i] \in Int /\ Load(x.data, i) = x.data[i]
  BY <1>2 DEF Load
<1>4. CASE j.op = "Unary"
  <2> DEFINE data == [i \in DOMAIN x.data |-> Function(j.fn, x.data[i], j.alpha)]
  <2>1. OperatorPlan(j) = One("FLOAT", x.shape)
    BY <1>4 DEF OperatorPlan, UnaryPlan
  <2>2. OperatorMeaning(j) = <<New("FLOAT", x.shape, data)>>
    BY <1>4 DEF OperatorMeaning, MeantUnary
  <2>3. \A m : \A e \in 0 .. n - 1 : OperatorStored(j, m, 1, e) = <<1, e, data[e]>>
    BY <1>2, <1>3, <1>4 DEF OperatorStored, UnaryThread
  <2>4. data = [i \in 0 .. n - 1 |-> data[i]]
    BY <1>2
  <2> HIDE DEF data, x
  <2> QED BY <1>2, <2>1, <2>2, <2>3, <2>4, ThreadsAre
<1>5. CASE j.op = "Clip"
  <2> DEFINE clipped(v) == Min({Max({v} \cup ToSet(j.low))} \cup ToSet(j.high))
             data == [i \in DOMAIN x.data |-> clipped(x.data[i])]
  <2>1. OperatorPlan(j) = One("FLOAT", x.shape)
    BY <1>1, <1>5 DEF OperatorPlan, ClipPlan, IsFloat
  <2>2. OperatorMeaning(j) = <<New("FLOAT", x.shape, data)>>
    BY <1>1, <1>5 DEF OperatorMeaning, MeantClip
  <2>3. ASSUME NEW e \in 0 .. n - 1
        PROVE  ClipThread(j, e) = clipped(x.data[e])
    <3>1. /\ j.low = <<>> \/ \E l \in Int : j.low = <<l>>
          /\ j.high = <<>> \/ \E h \in Int : j.high = <<h>>
      BY <1>5 DEF Maps
    <3>2. clipped(x.data[e]) = ClippedTo(x.data[e], j.low, j.high)
      <4>1. x.data[e] \in Int
        BY <1>3
      <4> DEFINE v == x.data[e]
                 low == j.low
                 high == j.high
      <4>2. /\ v \in Int /\ (low = <<>> \/ \E l \in Int : low = <<l>>)
            /\ (high = <<>> \/ \E h \in Int : high = <<h>>)
        BY <3>1, <4>1
      <4> HIDE DEF v, low, high
      <4>3. Min({Max({v} \cup ToSet(low))} \cup ToSet(high)) = ClippedTo(v, low, high)
        BY <4>2, ClipIs
      <4> QED BY <4>3 DEF v, low, high
    <3> HIDE DEF clipped
    <3> QED BY <1>3, <3>2 DEF ClipThread, ClippedTo
  <2>4. \A m : \A e \in 0 .. n - 1 : OperatorStored(j, m, 1, e) = <<1, e, data[e]>>
    <3> HIDE DEF clipped
    <3> QED BY <1>2, <1>5, <2>3 DEF OperatorStored
  <2>5. data = [i \in 0 .. n - 1 |-> data[i]]
    <3> HIDE DEF clipped
    <3> QED BY <1>2
  <2> HIDE DEF data, x
  <2> QED BY <1>2, <2>1, <2>2, <2>4, <2>5, ThreadsAre
<1> QED BY <1>4, <1>5 DEF Maps

\* A scale, a shift, a mean and a variance for every channel.
Normalizes(j) ==
  /\ j.op = "BatchNorm" /\ Rank(j.x[1]) >= 2
  /\ \A i \in 1 .. 5 : Operand(j.x[i])
  /\ \A i \in 2 .. 5 : Size(j.x[i]) = j.x[1].shape[2]

LEMMA NormalizeRuns ==
  ASSUME NEW j, Normalizes(j)
  PROVE  ThreadsMean(j)
<1> DEFINE x == j.x[1]
           s == x.shape
           n == Product(s)
           c(i) == CoordAt(s, i)
           meant(i) == (((At(x, c(i)) - j.x[4].data[c(i)[2]]) * Unit) \div Root(j.x[5].data[c(i)[2]] + j.eps))
                         * j.x[2].data[c(i)[2]] + j.x[3].data[c(i)[2]]
           data == [i \in 0 .. n - 1 |-> meant(i)]
<1>1. j.op = "BatchNorm" /\ Rank(x) >= 2 /\ Operand(x)
  BY DEF Normalizes
<1>2. /\ s \in Seq(Nat) /\ x.data \in [0 .. n - 1 -> Int] /\ Rank(x) = Len(s) /\ Len(s) \in Nat
      /\ DOMAIN s = 1 .. Len(s) /\ s[2] \in Nat
  <2>1. Rank(x) = Len(s) /\ s \in Seq(Nat) /\ x.data \in [0 .. n - 1 -> Int]
    BY <1>1, OperandIs
  <2> HIDE DEF x
  <2> QED BY <1>1, <2>1
<1>3. \A i \in 2 .. 5 : DOMAIN j.x[i].data = 0 .. s[2] - 1
  <2> SUFFICES ASSUME NEW i \in 2 .. 5
               PROVE  DOMAIN j.x[i].data = 0 .. s[2] - 1
    OBVIOUS
  <2>1. Operand(j.x[i]) /\ Size(j.x[i]) = s[2]
    BY DEF Normalizes
  <2> HIDE DEF s
  <2>2. Size(j.x[i]) = Product(j.x[i].shape) /\ j.x[i].data \in [0 .. Product(j.x[i].shape) - 1 -> Int]
    BY <2>1, OperandIs
  <2> QED BY <2>1, <2>2
<1>4. OperatorPlan(j) = One("FLOAT", s)
  <2>1. ~ \E i \in 2 .. 5 : Size(j.x[i]) # x.shape[2]
    BY DEF Normalizes
  <2>2. ~(Rank(x) < 2)
    BY <1>1, <1>2
  <2> HIDE DEF x
  <2> QED BY <1>1, <2>1, <2>2 DEF OperatorPlan, BatchNormPlan, x
<1>5. OperatorMeaning(j) = <<New("FLOAT", s, data)>>
  BY <1>1 DEF OperatorMeaning, MeantBatchNorm, Make
<1>6. ASSUME NEW i \in 0 .. n - 1
      PROVE  BatchNormThread(j, i) = meant(i)
  <2> DEFINE k == (i \div Product(SubSeq(s, 3, Rank(x)))) % s[2]
  <2>1. c(i)[2] = k
    <3>1. After(s, 2) = SubSeq(s, 3, Rank(x)) /\ 2 \in DOMAIN s
      BY <1>1, <1>2 DEF After
    <3> QED BY <3>1 DEF CoordAt
  <2>2. At(x, c(i)) = x.data[i] /\ c(i)[2] \in 0 .. s[2] - 1
    <3>1. 2 \in 1 .. Len(s)
      BY <1>1, <1>2
    <3> HIDE DEF s
    <3>2. Place(s, c(i)) = i /\ c(i)[2] \in 0 .. s[2] - 1
      BY <1>2, <3>1, CoordInside
    <3> QED BY <3>2 DEF At, s
  <2>3. Load(x.data, i) = x.data[i]
    BY <1>2 DEF Load
  <2>4. \A p \in 2 .. 5 : Load(j.x[p].data, k) = j.x[p].data[k]
    <3> SUFFICES ASSUME NEW p \in 2 .. 5
                 PROVE  Load(j.x[p].data, k) = j.x[p].data[k]
      OBVIOUS
    <3>1. DOMAIN j.x[p].data = 0 .. s[2] - 1
      BY <1>3
    <3>2. k \in 0 .. s[2] - 1
      BY <2>1, <2>2
    <3> HIDE DEF k, s
    <3> QED BY <3>1, <3>2 DEF Load
  <2>5. BatchNormThread(j, i) = (((Load(x.data, i) - Load(j.x[4].data, k)) * Unit)
          \div Root(Load(j.x[5].data, k) + j.eps)) * Load(j.x[2].data, k) + Load(j.x[3].data, k)
    BY DEF BatchNormThread
  <2>6. /\ Load(j.x[2].data, k) = j.x[2].data[k] /\ Load(j.x[3].data, k) = j.x[3].data[k]
        /\ Load(j.x[4].data, k) = j.x[4].data[k] /\ Load(j.x[5].data, k) = j.x[5].data[k]
    <3>1. 2 \in 2 .. 5 /\ 3 \in 2 .. 5 /\ 4 \in 2 .. 5 /\ 5 \in 2 .. 5
      OBVIOUS
    <3> HIDE DEF k
    <3> QED BY <2>4, <3>1, Zenon
  <2> HIDE DEF k, c, x
  <2> QED BY <2>1, <2>2, <2>3, <2>5, <2>6
<1> HIDE DEF meant
<1>7. \A m : \A e \in 0 .. n - 1 : OperatorStored(j, m, 1, e) = <<1, e, data[e]>>
  BY <1>1, <1>6 DEF OperatorStored
<1>8. data = [i \in 0 .. n - 1 |-> data[i]]
  OBVIOUS
<1> HIDE DEF data, s
<1> QED BY <1>2, <1>4, <1>5, <1>7, <1>8, ThreadsAre

----------------------------------------------------------------------------
(* Broadcasting: the steps of the kernels read the element of a stretched  *)
(* tensor that ONNX means.                                                 *)

\* A sum of products that are zero at first is that of the rest.
LEMMA SumsShift ==
  ASSUME NEW k \in Nat, NEW m \in Nat, NEW t, NEW f, NEW g, NEW u, NEW c, NEW h,
         Sums(t, f, g, k + m), Sums(u, c, h, m),
         \A d \in 1 .. k : f[d] * g[d] = 0,
         \A d \in 1 .. m : f[k + d] * g[k + d] = c[d] * h[d]
  PROVE  t[k + m] = u[m]
<1>1. t[0] = 0 /\ u[0] = 0
  BY DEF Sums
<1>2. \A d \in 1 .. k + m : t[d] = t[d - 1] + f[d] * g[d]
  BY DEF Sums
<1>3. \A d \in 1 .. m : u[d] = u[d - 1] + c[d] * h[d]
  BY DEF Sums
<1>4. t[k] = 0
  <2> DEFINE T == {d \in Nat : d \in 0 .. k => t[d] = 0}
  <2>1. 0 \in T
    BY <1>1
  <2>2. ASSUME NEW d \in 1 .. k, d - 1 \in T
        PROVE  d \in T
    <3>1. t[d - 1] = 0 /\ d \in 1 .. k + m
      BY <2>2
    <3>2. t[d] = t[d - 1] + f[d] * g[d] /\ f[d] * g[d] = 0
      BY <1>2, <3>1
    <3>3. t[d] = 0
      BY <3>1, <3>2
    <3> QED BY <3>3
  <2>3. T \in SUBSET Nat /\ k \in 0 .. k
    OBVIOUS
  <2>4. k \in T
    <3> HIDE DEF T
    <3> QED BY <2>1, <2>2, <2>3, CountsUpTo
  <2> QED BY <2>3, <2>4
<1>5. t[k + m] = u[m]
  <2> DEFINE T == {d \in Nat : d \in 0 .. m => t[k + d] = u[d]}
  <2>1. 0 \in T
    BY <1>1, <1>4
  <2>2. ASSUME NEW d \in 1 .. m, d - 1 \in T
        PROVE  d \in T
    <3>1. t[k + (d - 1)] = u[d - 1] /\ k + d \in 1 .. k + m /\ (k + d) - 1 = k + (d - 1)
      BY <2>2
    <3>2. t[k + d] = t[(k + d) - 1] + f[k + d] * g[k + d]
      BY <1>2, <3>1
    <3>3. f[k + d] * g[k + d] = c[d] * h[d] /\ u[d] = u[d - 1] + c[d] * h[d]
      BY <1>3
    <3>4. t[k + d] = u[d]
      BY <3>1, <3>2, <3>3, Zenon
    <3> QED BY <3>4
  <2>3. T \in SUBSET Nat /\ m \in 0 .. m
    OBVIOUS
  <2>4. m \in T
    <3> HIDE DEF T
    <3> QED BY <2>1, <2>2, <2>3, CountsUpTo
  <2> QED BY <2>3, <2>4
<1> QED BY <1>5

\* A shape whose dimensions, put behind ones, are those of another or one.
Fitting(s, out) ==
  Len(s) <= Len(out) /\ \A d \in 1 .. Len(out) : Aligned(s, Len(out))[d] \in {1, out[d]}

\* The dimensions of two shapes that are joined, put behind ones, are joined one by one.
LEMMA JoinedAligned ==
  ASSUME NEW a \in Seq(Nat), NEW b \in Seq(Nat), Broadcastable(a, b), NEW n \in Nat,
         Len(Joined(a, b)) <= n, NEW d \in 1 .. n
  PROVE  /\ Len(a) <= n /\ Len(b) <= n
         /\ Aligned(a, n)[d] \in Nat /\ Aligned(b, n)[d] \in Nat
         /\ \/ Aligned(a, n)[d] = Aligned(b, n)[d]
            \/ Aligned(a, n)[d] = 1 \/ Aligned(b, n)[d] = 1
         /\ Aligned(Joined(a, b), n)[d]
              = IF Aligned(a, n)[d] = 1 THEN Aligned(b, n)[d] ELSE Aligned(a, n)[d]
<1> DEFINE rank == IF Len(a) > Len(b) THEN Len(a) ELSE Len(b)
           x == Aligned(a, rank)
           y == Aligned(b, rank)
           out == Joined(a, b)
<1>1. /\ rank \in Nat /\ Len(out) = rank
      /\ \A e \in 1 .. rank : /\ x[e] \in Nat /\ y[e] \in Nat
                              /\ x[e] = y[e] \/ x[e] = 1 \/ y[e] = 1
                              /\ out[e] = IF x[e] = 1 THEN y[e] ELSE x[e]
  <2>1. a \in Seq(Int) /\ b \in Seq(Int)
    OBVIOUS
  <2> QED BY <2>1, JoinedIs, Zenon
<1>2. Len(a) \in Nat /\ Len(b) \in Nat /\ Len(a) <= rank /\ Len(b) <= rank
  OBVIOUS
<1>3. rank <= n
  BY <1>1
<1>4. /\ Aligned(a, n)[d] = IF d <= n - Len(a) THEN 1 ELSE a[d - (n - Len(a))]
      /\ Aligned(b, n)[d] = IF d <= n - Len(b) THEN 1 ELSE b[d - (n - Len(b))]
      /\ Aligned(out, n)[d] = IF d <= n - rank THEN 1 ELSE out[d - (n - rank)]
  <2> HIDE DEF rank, out
  <2> QED BY <1>1 DEF Aligned
<1>5. CASE d <= n - rank
  <2> HIDE DEF rank, out, x, y
  <2> QED BY <1>1, <1>2, <1>3, <1>4, <1>5 DEF out
<1>6. CASE ~(d <= n - rank)
  <2> DEFINE e == d - (n - rank)
  <2>1. e \in 1 .. rank
    <3> HIDE DEF rank
    <3> QED BY <1>1, <1>3, <1>6
  <2>2. /\ x[e] = IF e <= rank - Len(a) THEN 1 ELSE a[e - (rank - Len(a))]
        /\ y[e] = IF e <= rank - Len(b) THEN 1 ELSE b[e - (rank - Len(b))]
    <3> HIDE DEF rank, e
    <3> QED BY <2>1 DEF Aligned
  <2>3. e - (rank - Len(a)) = d - (n - Len(a)) /\ e - (rank - Len(b)) = d - (n - Len(b))
    <3> HIDE DEF rank
    <3> QED BY <1>1, <1>2
  <2>4. (e <= rank - Len(a) <=> d <= n - Len(a)) /\ (e <= rank - Len(b) <=> d <= n - Len(b))
    <3> HIDE DEF rank
    <3> QED BY <1>1, <1>2
  <2>5. Aligned(a, n)[d] = x[e] /\ Aligned(b, n)[d] = y[e] /\ Aligned(out, n)[d] = out[e]
    <3> HIDE DEF rank, x, y, e, out
    <3> QED BY <1>4, <1>6, <2>2, <2>3, <2>4 DEF e
  <2>6. Len(a) <= n /\ Len(b) <= n
    <3> HIDE DEF rank
    <3> QED BY <1>1, <1>2, <1>3
  <2> HIDE DEF rank, x, y, e
  <2> QED BY <1>1, <2>1, <2>5, <2>6
<1> QED BY <1>5, <1>6

LEMMA FittingIs ==
  ASSUME NEW s \in Seq(Nat), NEW out \in Seq(Nat), Fitting(s, out), NEW i \in 0 .. Product(out) - 1
  PROVE  /\ Len(s) \in Nat /\ Len(out) \in Nat /\ Len(s) <= Len(out)
         /\ \A d \in 1 .. Len(out) :
              /\ Walk(out, i)[d] \in 0 .. out[d] - 1 /\ out[d] \in Nat
              /\ d <= Len(out) - Len(s) => Aligned(s, Len(out))[d] = 1
              /\ d > Len(out) - Len(s) =>
                   /\ d - (Len(out) - Len(s)) \in 1 .. Len(s)
                   /\ Aligned(s, Len(out))[d] = s[d - (Len(out) - Len(s))]
              /\ Aligned(s, Len(out))[d] \in {1, out[d]}
<1>1. Len(s) \in Nat /\ Len(out) \in Nat /\ Len(s) <= Len(out)
  BY DEF Fitting
<1>2. \A d \in 1 .. Len(out) :
        /\ d <= Len(out) - Len(s) => Aligned(s, Len(out))[d] = 1
        /\ d > Len(out) - Len(s) => d - (Len(out) - Len(s)) \in 1 .. Len(s)
        /\ d > Len(out) - Len(s) => Aligned(s, Len(out))[d] = s[d - (Len(out) - Len(s))]
  BY <1>1, AlignedIs, Zenon
<1>3. \A d \in 1 .. Len(out) : Walk(out, i)[d] \in 0 .. out[d] - 1
  BY WalkInside
<1>4. \A d \in 1 .. Len(out) : out[d] \in Nat
  OBVIOUS
<1>5. \A d \in 1 .. Len(out) : Aligned(s, Len(out))[d] \in {1, out[d]}
  BY DEF Fitting
<1> QED BY <1>1, <1>2, <1>3, <1>4, <1>5, Zenon

\* The element that ONNX reads of a stretched tensor is the one at the product of the
\* coordinates with the steps, of which there are none along what is stretched.
LEMMA ShrunkIs ==
  ASSUME NEW s \in Seq(Nat), NEW out \in Seq(Nat), Fitting(s, out), NEW i \in 0 .. Product(out) - 1
  PROVE  /\ Place(s, Shrunk(s, CoordAt(out, i))) = Dot(Walk(out, i), BcastStrides(s, out))
         /\ Dot(Walk(out, i), BcastStrides(s, out)) \in 0 .. Product(s) - 1
<1> DEFINE n == Len(out)
           m == Len(s)
           k == n - m
           w == Walk(out, i)
           x == Aligned(s, n)
           g == BcastStrides(s, out)
           h == Strides(s)
           c == Shrunk(s, CoordAt(out, i))
<1>1. /\ m \in Nat /\ n \in Nat /\ m <= n /\ k \in Nat /\ n = k + m
      /\ DOMAIN s = 1 .. m /\ DOMAIN out = 1 .. n /\ DOMAIN x = 1 .. n
  <2>1. m \in Nat /\ n \in Nat /\ m <= n
    BY FittingIs, Zenon
  <2>2. DOMAIN s = 1 .. m /\ DOMAIN out = 1 .. n
    OBVIOUS
  <2>3. DOMAIN x = 1 .. n
    BY DEF Aligned
  <2> HIDE DEF m, n, x
  <2> QED BY <2>1, <2>2, <2>3
<1>2. \A d \in 1 .. n :
        /\ w[d] \in 0 .. out[d] - 1 /\ out[d] \in Nat
        /\ d <= k => x[d] = 1
        /\ d > k => d - k \in 1 .. m /\ x[d] = s[d - k]
        /\ x[d] \in {1, out[d]}
  BY FittingIs, Zenon
<1>3. DOMAIN w = 1 .. n
  BY <1>1 DEF Walk
<1>4. c = [d \in 1 .. m |-> IF s[d] = 1 THEN 0 ELSE w[d + k]]
  <2>1. CoordAt(out, i) = w /\ DOMAIN CoordAt(out, i) = 1 .. n
    BY CoordAtIs, CoordInside
  <2>2. Len(w) = n
    BY <1>1 DEF Walk
  <2>3. \A d \in 1 .. m : d + n - m = d + k
    <3> HIDE DEF n, m
    <3> QED BY <1>1
  <2>4. c = [d \in 1 .. m |-> IF s[d] = 1 THEN 0 ELSE w[d + n - m]]
    <3> HIDE DEF n, m, w
    <3> QED BY <1>1, <2>1, <2>2 DEF Shrunk, m
  <2> HIDE DEF c, w, m, n, k
  <2> QED BY <2>3, <2>4
<1> HIDE DEF c
<1>5. ASSUME NEW d \in 1 .. m
      PROVE  k + d \in 1 .. n /\ x[k + d] = s[d] /\ c[d] \in 0 .. s[d] - 1
             /\ s[d] \in Nat /\ (s[d] = 1 \/ s[d] = out[k + d]) /\ c[d] = (IF s[d] = 1 THEN 0 ELSE w[k + d])
             /\ w[k + d] \in Int
  <2>1. k + d \in 1 .. n /\ k + d > k /\ (k + d) - k = d /\ d + k = k + d
    <3> HIDE DEF k, n, m
    <3> QED BY <1>1
  <2>2. x[k + d] = s[d] /\ x[k + d] \in {1, out[k + d]} /\ w[k + d] \in 0 .. out[k + d] - 1
        /\ out[k + d] \in Nat
    <3> HIDE DEF k, n, m, x, w
    <3> QED BY <1>2, <2>1
  <2>3. c[d] = IF s[d] = 1 THEN 0 ELSE w[k + d]
    BY <1>4, <2>1
  <2> HIDE DEF k, n, m, x, w
  <2>4. s[d] \in Nat /\ (s[d] = 1 \/ s[d] = out[k + d]) /\ w[k + d] \in Int
    BY <2>2
  <2>5. c[d] \in 0 .. s[d] - 1
    <3>1. CASE s[d] = 1
      BY <2>3, <3>1
    <3>2. CASE s[d] # 1
      BY <2>2, <2>3, <3>2
    <3> QED BY <3>1, <3>2
  <2> QED BY <2>1, <2>2, <2>3, <2>4, <2>5
<1>6. Place(s, c) = Dot(c, h) /\ Product(s) >= 1 /\ Dot(c, h) \in 0 .. Product(s) - 1
  <2>1. DOMAIN c = 1 .. m
    BY <1>4
  <2>2. \A d \in 1 .. m : c[d] \in 0 .. s[d] - 1
    BY <1>5
  <2> HIDE DEF k, n, x, w
  <2>3. Place(s, c) = Dot(c, h) /\ Product(s) >= 1 /\ Place(s, c) \in 0 .. Product(s) - 1
    BY <2>1, <2>2, AtInside
  <2> QED BY <2>3
<1>7. \A d \in 1 .. n : g[d] = IF d > k /\ x[d] = out[d] /\ x[d] # 1 THEN Product(After(x, d)) ELSE 0
  BY <1>1 DEF BcastStrides
<1>8. \A d \in 1 .. m : h[d] = Product(After(s, d))
  BY <1>1 DEF Strides
<1> HIDE DEF g, h, w
<1>9. ASSUME NEW d \in 1 .. k
      PROVE  w[d] * g[d] = 0
  <2>1. d \in 1 .. n /\ ~(d > k)
    <3> HIDE DEF k, n, m
    <3> QED BY <1>1
  <2>2. g[d] = 0 /\ w[d] \in 0 .. out[d] - 1
    <3> HIDE DEF k, n, m, x
    <3> QED BY <1>2, <1>7, <2>1
  <2> QED BY <2>2
<1>10. ASSUME NEW d \in 1 .. m
       PROVE  After(x, k + d) = After(s, d)
  <2>1. After(x, k + d) = SubSeq(x, k + d + 1, n)
    <3> HIDE DEF k, m
    <3>1. Len(x) = n
      BY <1>1 DEF Aligned
    <3> HIDE DEF n, x
    <3> QED BY <3>1 DEF After
  <2>2. After(s, d) = SubSeq(s, d + 1, m)
    BY DEF After
  <2> DEFINE a == k + d + 1
             b == d + 1
  <2>3. a \in Int /\ b \in Int /\ n - a = m - b /\ a >= 1 /\ b >= 1 /\ a = k + b
    <3> HIDE DEF k, n, m
    <3> QED BY <1>1
  <2>4. \A e \in a .. n : x[e] = s[e - k]
    <3> HIDE DEF k, n, m, x
    <3> QED BY <1>1, <1>2, <2>3
  <2>5. SubSeq(x, a, n) \in Seq(Nat) /\ Len(SubSeq(x, a, n)) = (IF a <= n THEN n - a + 1 ELSE 0)
        /\ \A e \in 1 .. n - a + 1 : SubSeq(x, a, n)[e] = x[a + e - 1]
    <3>1. ASSUME NEW e \in a .. n
          PROVE  x[e] \in Nat
      <4> HIDE DEF k, n, m, x, a, b, w
      <4>1. e \in 1 .. n
        BY <1>1, <2>3
      <4>2. x[e] \in {1, out[e]} /\ out[e] \in Nat
        BY <1>2, <4>1
      <4> QED BY <4>2
    <3> HIDE DEF k, n, m, x, a, b
    <3>2. a \in Int /\ n \in Int
      BY <1>1, <2>3
    <3> QED BY <3>1, <3>2, SubSeqProperties
  <2>6. SubSeq(s, b, m) \in Seq(Nat) /\ Len(SubSeq(s, b, m)) = (IF b <= m THEN m - b + 1 ELSE 0)
        /\ \A e \in 1 .. m - b + 1 : SubSeq(s, b, m)[e] = s[b + e - 1]
    <3>1. \A e \in b .. m : s[e] \in Nat
      <4> HIDE DEF k, n, m, x, a
      <4> QED BY <1>1, <2>3
    <3> HIDE DEF k, n, m, x, a, b
    <3>2. b \in Int /\ m \in Int
      BY <1>1, <2>3
    <3> QED BY <3>1, <3>2, SubSeqProperties
  <2>7. \A e \in 1 .. n - a + 1 : x[a + e - 1] = s[b + e - 1]
    <3> SUFFICES ASSUME NEW e \in 1 .. n - a + 1
                 PROVE  x[a + e - 1] = s[b + e - 1]
      OBVIOUS
    <3> HIDE DEF k, n, m, x, a, b
    <3>1. a + e - 1 \in a .. n /\ (a + e - 1) - k = b + e - 1
      BY <1>1, <2>3
    <3> QED BY <2>4, <3>1
  <2> HIDE DEF k, n, m, x, a, b
  <2> DEFINE p == SubSeq(x, a, n)
             q == SubSeq(s, b, m)
             l == Len(p)
  <2>8. p \in Seq(Nat) /\ q \in Seq(Nat) /\ Len(q) = l /\ l \in Nat
        /\ \A e \in 1 .. l : e \in 1 .. n - a + 1
    <3>1. n - a + 1 = m - b + 1 /\ (a <= n <=> b <= m)
      BY <1>1, <2>3
    <3>2. l = (IF a <= n THEN n - a + 1 ELSE 0) /\ Len(q) = (IF b <= m THEN m - b + 1 ELSE 0)
      BY <2>5, <2>6
    <3>3. p \in Seq(Nat) /\ q \in Seq(Nat)
      BY <2>5, <2>6
    <3> HIDE DEF p, q
    <3> QED BY <1>1, <2>3, <3>1, <3>2, <3>3
  <2>9. \A e \in 1 .. l : p[e] = q[e]
    <3>1. m - b + 1 = n - a + 1
      BY <1>1, <2>3
    <3> HIDE DEF l
    <3> QED BY <2>5, <2>6, <2>7, <2>8, <3>1
  <2>10. p = q
    <3> HIDE DEF p, q
    <3> QED BY <2>8, <2>9, SeqEqual
  <2> QED BY <2>1, <2>2, <2>10 DEF a, b, p, q
<1>11. ASSUME NEW d \in 1 .. m
       PROVE  w[k + d] * g[k + d] = c[d] * h[d]
  <2>1. g[k + d] = IF x[k + d] = out[k + d] /\ x[k + d] # 1 THEN h[d] ELSE 0
    <3>1. k + d \in 1 .. n /\ k + d > k
      <4> HIDE DEF k, n, m
      <4> QED BY <1>1
    <3> HIDE DEF k, n, m, x
    <3> QED BY <1>7, <1>8, <1>10, <3>1
  <2>2. h[d] \in Nat
    <3> HIDE DEF k, n, x
    <3> QED BY <1>6, StridesAre DEF h, m
  <2>3. /\ x[k + d] = s[d] /\ (s[d] = 1 \/ s[d] = out[k + d]) /\ w[k + d] \in Int
        /\ c[d] = IF s[d] = 1 THEN 0 ELSE w[k + d]
    BY <1>5
  <2> HIDE DEF k, n, m, x
  <2>4. CASE s[d] = 1
    BY <2>1, <2>2, <2>3, <2>4
  <2>5. CASE s[d] # 1
    BY <2>1, <2>3, <2>5
  <2> QED BY <2>4, <2>5
<1>12. Dot(w, g) = Dot(c, h)
  <2>0. DOMAIN c = 1 .. m
    BY <1>4
  <2> HIDE DEF k, n, m, x
  <2>1. PICK t : Sums(t, w, g, n) /\ Dot(w, g) = t[n]
    BY <1>1, <1>3, DotIs
  <2>2. PICK u : Sums(u, c, h, m) /\ Dot(c, h) = u[m]
    BY <1>1, <2>0, DotIs
  <2>3. Sums(t, w, g, k + m)
    BY <1>1, <2>1
  <2>4. t[k + m] = u[m]
    BY <1>1, <1>9, <1>11, <2>2, <2>3, SumsShift
  <2> QED BY <1>1, <2>1, <2>2, <2>4
<1> QED BY <1>6, <1>12 DEF c, w, g, h

\* The steps of the binary kernel, which do not mind those along a single element.
LEMMA StretchedDot ==
  ASSUME NEW s \in Seq(Nat), NEW out \in Seq(Nat), Fitting(s, out), NEW i \in 0 .. Product(out) - 1
  PROVE  Dot(Walk(out, i), StretchedStrides(s, out)) = Dot(Walk(out, i), BcastStrides(s, out))
<1> DEFINE n == Len(out)
           w == Walk(out, i)
           x == Aligned(s, n)
           g == StretchedStrides(s, out)
           h == BcastStrides(s, out)
<1>1. DOMAIN out = 1 .. n /\ n \in Nat /\ DOMAIN w = 1 .. n
  BY DEF Walk
<1>2. \A d \in 1 .. n : g[d] = IF x[d] = 1 /\ out[d] # 1 THEN 0 ELSE Product(After(x, d))
  BY <1>1 DEF StretchedStrides
<1>3. \A d \in 1 .. n : h[d] = IF d > n - Len(s) /\ x[d] = out[d] /\ x[d] # 1
                                 THEN Product(After(x, d)) ELSE 0
  BY <1>1 DEF BcastStrides
<1>4. \A d \in 1 .. n : /\ w[d] \in 0 .. out[d] - 1 /\ out[d] \in Nat
                        /\ d <= n - Len(s) => x[d] = 1
                        /\ x[d] \in {1, out[d]}
  BY FittingIs, Zenon
<1>5. x \in Seq(Nat) /\ Len(x) = n /\ Product(x) = Product(s)
  <2>1. Len(s) <= n
    BY DEF Fitting
  <2> HIDE DEF n
  <2> QED BY <1>1, <2>1, AlignedIs DEF n
<1>6. \A d \in 1 .. n : Product(After(x, d)) \in Nat
  <2>1. Product(s) >= 1
    <3> HIDE DEF n, w, x, g, h
    <3>1. Dot(Walk(out, i), BcastStrides(s, out)) \in 0 .. Product(s) - 1 /\ Product(s) \in Nat
      BY ShrunkIs, ProductNat
    <3> QED BY <3>1
  <2>2. DOMAIN x = 1 .. n
    BY DEF Aligned
  <2> HIDE DEF x, n
  <2>3. \A d \in 1 .. n : Strides(x)[d] \in Nat
    BY <1>5, <2>1, StridesAre
  <2> QED BY <2>2, <2>3 DEF Strides
<1>7. Len(s) \in Nat
  OBVIOUS
<1>8. ASSUME NEW d \in 1 .. n
      PROVE  w[d] * g[d] = w[d] * h[d]
  <2> HIDE DEF n, w, x, g, h
  <2> DEFINE step == Product(After(x, d))
  <2>1. /\ g[d] = IF x[d] = 1 /\ out[d] # 1 THEN 0 ELSE step
        /\ h[d] = IF d > n - Len(s) /\ x[d] = out[d] /\ x[d] # 1 THEN step ELSE 0
        /\ step \in Nat
    BY <1>2, <1>3, <1>6
  <2>2. /\ w[d] \in 0 .. out[d] - 1 /\ out[d] \in Nat
        /\ d <= n - Len(s) => x[d] = 1
        /\ x[d] \in {1, out[d]}
    BY <1>4
  <2> HIDE DEF step
  <2>3. CASE x[d] = 1 /\ out[d] = 1
    <3>1. w[d] = 0 /\ g[d] \in Nat /\ h[d] \in Nat
      BY <2>1, <2>2, <2>3
    <3> QED BY <3>1
  <2>4. CASE ~(x[d] = 1 /\ out[d] = 1)
    <3>1. g[d] = h[d]
      BY <1>1, <1>7, <2>1, <2>2, <2>4
    <3> QED BY <3>1
  <2> QED BY <2>3, <2>4
<1> HIDE DEF n, w, g, h
<1>9. Dot(w, g) = Dot(w, h)
  BY <1>1, <1>8, DotAgree
<1> QED BY <1>9 DEF w, g, h

\* The shape that ONNX stretches shapes to: that of the longest, which has every dimension
\* that is not one.
LEMMA StretchedIs ==
  ASSUME NEW shapes, NEW out \in Seq(Nat),
         \A i \in DOMAIN shapes : Len(shapes[i]) \in Nat /\ Fitting(shapes[i], out),
         \E i \in DOMAIN shapes : Len(shapes[i]) = Len(out),
         \A d \in 1 .. Len(out) :
           out[d] # 1 => \E i \in DOMAIN shapes : Aligned(shapes[i], Len(out))[d] = out[d]
  PROVE  Stretched(shapes) = out
<1> DEFINE n == Len(out)
           dims(d) == {Aligned(shapes[i], n)[d] : i \in DOMAIN shapes} \ {1}
           lengths == {Len(shapes[i]) : i \in DOMAIN shapes}
<1>1. n \in Nat /\ DOMAIN out = 1 .. n /\ \A d \in 1 .. n : out[d] \in Nat
  OBVIOUS
<1>2. Max(lengths) = n
  <2>1. n \in lengths
    OBVIOUS
  <2>2. \A k \in lengths : n >= k /\ k \in Int
    BY <1>1 DEF Fitting
  <2> HIDE DEF lengths, n
  <2> QED BY <2>1, <2>2, LargestIs
<1>3. ASSUME NEW d \in 1 .. n
      PROVE  dims(d) = IF out[d] = 1 THEN {} ELSE {out[d]}
  <2>1. \A i \in DOMAIN shapes : Aligned(shapes[i], n)[d] \in {1, out[d]}
    BY DEF Fitting
  <2>2. out[d] # 1 => \E i \in DOMAIN shapes : Aligned(shapes[i], n)[d] = out[d]
    OBVIOUS
  <2> HIDE DEF n
  <2> QED BY <2>1, <2>2
<1>4. Stretched(shapes) =
        IF \E d \in 1 .. n : Cardinality(dims(d)) > 1 THEN <<-1>>
        ELSE [d \in 1 .. n |-> IF dims(d) = {} THEN 1 ELSE CHOOSE k \in dims(d) : TRUE]
  <2> DEFINE all(rank, d) == {Aligned(shapes[i], rank)[d] : i \in DOMAIN shapes} \ {1}
             stretched(rank) ==
               IF \E d \in 1 .. rank : Cardinality(all(rank, d)) > 1 THEN <<-1>>
               ELSE [d \in 1 .. rank |-> IF all(rank, d) = {} THEN 1 ELSE CHOOSE k \in all(rank, d) : TRUE]
  <2>1. Stretched(shapes) = stretched(Max(lengths))
    BY Zenon DEF Stretched
  <2>2. stretched(Max(lengths)) = stretched(n)
    <3> HIDE DEF stretched, n, lengths
    <3> QED BY <1>2
  <2> QED BY <2>1, <2>2
<1> HIDE DEF dims, n
<1>5. \A d \in 1 .. n : Cardinality(dims(d)) \in {0, 1}
  <2> SUFFICES ASSUME NEW d \in 1 .. n
               PROVE  Cardinality(dims(d)) \in {0, 1}
    OBVIOUS
  <2>1. Cardinality({}) = 0 /\ Cardinality({out[d]}) = 1
    BY FS_EmptySet, FS_Singleton
  <2> QED BY <1>3, <2>1
<1>6. \A d \in 1 .. n : (IF dims(d) = {} THEN 1 ELSE CHOOSE k \in dims(d) : TRUE) = out[d]
  <2> SUFFICES ASSUME NEW d \in 1 .. n
               PROVE  (IF dims(d) = {} THEN 1 ELSE CHOOSE k \in dims(d) : TRUE) = out[d]
    OBVIOUS
  <2>1. CASE out[d] = 1
    BY <1>3, <2>1
  <2>2. CASE out[d] # 1
    BY <1>3, <2>2
  <2> QED BY <2>1, <2>2
<1>7. Stretched(shapes) = [d \in 1 .. n |-> IF dims(d) = {} THEN 1 ELSE CHOOSE k \in dims(d) : TRUE]
  <2>1. ~ \E d \in 1 .. n : Cardinality(dims(d)) > 1
    BY <1>5
  <2> QED BY <1>4, <2>1
<1>8. out = [d \in 1 .. n |-> out[d]]
  BY <1>1
<1> QED BY <1>6, <1>7, <1>8

LEMMA FittingSelf ==
  ASSUME NEW out \in Seq(Nat)
  PROVE  Fitting(out, out)
<1>1. \A d \in 1 .. Len(out) : Aligned(out, Len(out))[d] = out[d]
  BY DEF Aligned
<1> QED BY <1>1 DEF Fitting

LEMMA FittingParts ==
  ASSUME NEW a \in Seq(Nat), NEW b \in Seq(Nat), Broadcastable(a, b), NEW out \in Seq(Nat),
         Fitting(Joined(a, b), out)
  PROVE  Fitting(a, out) /\ Fitting(b, out)
<1> DEFINE n == Len(out)
<1>1. n \in Nat /\ Len(a) \in Nat /\ Len(b) \in Nat
  OBVIOUS
<1>2. Len(Joined(a, b)) <= n /\ \A d \in 1 .. n : Aligned(Joined(a, b), n)[d] \in {1, out[d]}
  BY DEF Fitting
<1>3. Len(a) <= Len(Joined(a, b)) /\ Len(b) <= Len(Joined(a, b)) /\ Len(Joined(a, b)) \in Nat
  <2>1. a \in Seq(Int) /\ b \in Seq(Int)
    OBVIOUS
  <2>2. Joined(a, b) \in Seq(Nat)
    BY <2>1, JoinedIs, Zenon
  <2> QED BY <2>1, <2>2, JoinedShort
<1>4. Len(a) <= n /\ Len(b) <= n
  BY <1>1, <1>2, <1>3
<1> HIDE DEF n
<1>5. ASSUME NEW d \in 1 .. n
      PROVE  Aligned(a, n)[d] \in {1, out[d]} /\ Aligned(b, n)[d] \in {1, out[d]}
  <2> DEFINE p == Aligned(a, n)[d]
             q == Aligned(b, n)[d]
             r == Aligned(Joined(a, b), n)[d]
  <2>1. (p = q \/ p = 1 \/ q = 1) /\ r = (IF p = 1 THEN q ELSE p)
    BY <1>1, <1>2, JoinedAligned
  <2>2. r \in {1, out[d]}
    BY <1>2
  <2> HIDE DEF p, q, r
  <2>3. p \in {1, out[d]} /\ q \in {1, out[d]}
    BY <2>1, <2>2
  <2> QED BY <2>3 DEF p, q
<1> QED BY <1>4, <1>5 DEF Fitting, n

\* Shapes that the engine joins are stretched to what ONNX stretches them to.
LEMMA TwoJoined ==
  ASSUME NEW a \in Seq(Nat), NEW b \in Seq(Nat), Broadcastable(a, b)
  PROVE  /\ Joined(a, b) \in Seq(Nat) /\ Joined(a, b) # <<-1>>
         /\ Fitting(a, Joined(a, b)) /\ Fitting(b, Joined(a, b))
         /\ Stretched(<<a, b>>) = Joined(a, b)
<1> DEFINE out == Joined(a, b)
           n == Len(out)
           shapes == <<a, b>>
<1>1. out \in Seq(Nat) /\ n = IF Len(a) > Len(b) THEN Len(a) ELSE Len(b)
  <2>1. a \in Seq(Int) /\ b \in Seq(Int)
    OBVIOUS
  <2> QED BY <2>1, JoinedIs, Zenon
<1>2. out # <<-1>>
  <2> HIDE DEF out
  <2>1. out = <<-1>> => out[1] \in Nat /\ out[1] = -1
    BY <1>1
  <2> QED BY <2>1
<1>3. Fitting(a, out) /\ Fitting(b, out)
  BY <1>1, FittingSelf, FittingParts
<1>4. Len(a) \in Nat /\ Len(b) \in Nat /\ n \in Nat
  BY <1>1
<1>5. DOMAIN shapes = {1, 2} /\ shapes[1] = a /\ shapes[2] = b
  OBVIOUS
<1>6. \A d \in 1 .. n : Aligned(out, n)[d] = out[d]
  BY <1>1 DEF Aligned
<1>7. \A d \in 1 .. n : Aligned(a, n)[d] = out[d] \/ Aligned(b, n)[d] = out[d]
  <2> SUFFICES ASSUME NEW d \in 1 .. n
               PROVE  Aligned(a, n)[d] = out[d] \/ Aligned(b, n)[d] = out[d]
    OBVIOUS
  <2>1. Len(Joined(a, b)) <= n
    BY <1>4
  <2>2. Aligned(Joined(a, b), n)[d] = IF Aligned(a, n)[d] = 1 THEN Aligned(b, n)[d] ELSE Aligned(a, n)[d]
    <3> HIDE DEF n
    <3> QED BY <1>4, <2>1, JoinedAligned
  <2> HIDE DEF n
  <2> QED BY <1>6, <2>2
<1> HIDE DEF out, n, shapes
<1>8. \A d \in 1 .. n : out[d] # 1 => \E i \in DOMAIN shapes : Aligned(shapes[i], n)[d] = out[d]
  BY <1>5, <1>7
<1>9. \E i \in DOMAIN shapes : Len(shapes[i]) = n
  BY <1>1, <1>4, <1>5
<1>10. \A i \in DOMAIN shapes : Len(shapes[i]) \in Nat /\ Fitting(shapes[i], out)
  BY <1>3, <1>4, <1>5
<1>11. Stretched(shapes) = out
  BY <1>1, <1>8, <1>9, <1>10, StretchedIs DEF n
<1> QED BY <1>1, <1>2, <1>3, <1>11 DEF out, shapes

LEMMA ThreeJoined ==
  ASSUME NEW a \in Seq(Nat), NEW b \in Seq(Nat), NEW c \in Seq(Nat), Broadcastable(a, b),
         Broadcastable(Joined(a, b), c), NEW out, out = Joined(Joined(a, b), c)
  PROVE  /\ out \in Seq(Nat) /\ out # <<-1>>
         /\ Fitting(a, out) /\ Fitting(b, out) /\ Fitting(c, out)
         /\ Stretched(<<a, b, c>>) = out
<1> DEFINE ab == Joined(a, b)
           n == Len(out)
           shapes == <<a, b, c>>
<1>1. /\ ab \in Seq(Nat) /\ out \in Seq(Nat) /\ out # <<-1>>
      /\ Fitting(ab, out) /\ Fitting(c, out)
  BY TwoJoined
<1>2. Fitting(a, out) /\ Fitting(b, out)
  BY <1>1, FittingParts
<1>3. Len(a) \in Nat /\ Len(b) \in Nat /\ Len(c) \in Nat /\ n \in Nat /\ Len(ab) <= n
  BY <1>1 DEF Fitting
<1>4. n = Len(a) \/ n = Len(b) \/ n = Len(c)
  <2>1. a \in Seq(Int) /\ b \in Seq(Int) /\ c \in Seq(Int) /\ ab \in Seq(Int)
    BY <1>1
  <2>2. Len(ab) = IF Len(a) > Len(b) THEN Len(a) ELSE Len(b)
    BY <2>1, JoinedIs, Zenon
  <2>3. n = IF Len(ab) > Len(c) THEN Len(ab) ELSE Len(c)
    BY <2>1, JoinedIs, Zenon
  <2> HIDE DEF ab, n
  <2> QED BY <2>2, <2>3
<1>5. DOMAIN shapes = {1, 2, 3} /\ shapes[1] = a /\ shapes[2] = b /\ shapes[3] = c
  OBVIOUS
<1>6. \A d \in 1 .. n : Aligned(out, n)[d] = out[d]
  BY <1>1 DEF Aligned
<1>7. \A d \in 1 .. n : Aligned(a, n)[d] = out[d] \/ Aligned(b, n)[d] = out[d] \/ Aligned(c, n)[d] = out[d]
  <2> SUFFICES ASSUME NEW d \in 1 .. n
               PROVE  Aligned(a, n)[d] = out[d] \/ Aligned(b, n)[d] = out[d] \/ Aligned(c, n)[d] = out[d]
    OBVIOUS
  <2>1. Aligned(ab, n)[d] = IF Aligned(a, n)[d] = 1 THEN Aligned(b, n)[d] ELSE Aligned(a, n)[d]
    <3> HIDE DEF n
    <3> QED BY <1>3, JoinedAligned
  <2>2. Aligned(out, n)[d] = IF Aligned(ab, n)[d] = 1 THEN Aligned(c, n)[d] ELSE Aligned(ab, n)[d]
    <3>1. Len(Joined(ab, c)) <= n
      BY <1>3
    <3> HIDE DEF n, ab
    <3> QED BY <1>1, <1>3, <3>1, JoinedAligned DEF ab
  <2> HIDE DEF n, ab
  <2> QED BY <1>6, <2>1, <2>2
<1> HIDE DEF n, shapes
<1>8. \A d \in 1 .. n : out[d] # 1 => \E i \in DOMAIN shapes : Aligned(shapes[i], n)[d] = out[d]
  BY <1>5, <1>7
<1>9. \E i \in DOMAIN shapes : Len(shapes[i]) = n
  BY <1>4, <1>5
<1>10. \A i \in DOMAIN shapes : Len(shapes[i]) \in Nat /\ Fitting(shapes[i], out)
  BY <1>1, <1>2, <1>3, <1>5
<1>11. Stretched(shapes) = out
  BY <1>1, <1>8, <1>9, <1>10, StretchedIs DEF n
<1> QED BY <1>1, <1>2, <1>11 DEF shapes

\* The element of a tensor that is read at place i of a shape it is stretched to.
StretchedAt(t, out, i) == t.data[Dot(Walk(out, i), BcastStrides(t.shape, out))]

LEMMA StretchedAtIs ==
  ASSUME NEW t, Operand(t), NEW out \in Seq(Nat), Fitting(t.shape, out), NEW i \in 0 .. Product(out) - 1
  PROVE  /\ At(t, Shrunk(t.shape, CoordAt(out, i))) = StretchedAt(t, out, i)
         /\ Load(t.data, Dot(Walk(out, i), BcastStrides(t.shape, out))) = StretchedAt(t, out, i)
         /\ Dot(Walk(out, i), BcastStrides(t.shape, out)) \in DOMAIN t.data
<1> DEFINE s == t.shape
           place == Dot(Walk(out, i), BcastStrides(s, out))
<1>1. s \in Seq(Nat) /\ t.data \in [0 .. Product(s) - 1 -> Int]
  BY OperandIs
<1>2. Place(s, Shrunk(s, CoordAt(out, i))) = place /\ place \in 0 .. Product(s) - 1
  <2> HIDE DEF s
  <2>1. Fitting(s, out)
    BY DEF s
  <2> QED BY <1>1, <2>1, ShrunkIs DEF place
<1> HIDE DEF place
<1>3. place \in DOMAIN t.data
  BY <1>1, <1>2
<1>4. Load(t.data, place) = t.data[place]
  BY <1>3 DEF Load
<1>5. At(t, Shrunk(s, CoordAt(out, i))) = t.data[place]
  BY <1>2 DEF At
<1> QED BY <1>3, <1>4, <1>5 DEF StretchedAt, place

\* The engine joins three shapes in either order.
LEMMA JoinedThree ==
  ASSUME NEW a \in Seq(Nat), NEW b \in Seq(Nat), NEW c \in Seq(Nat), Broadcastable(a, b),
         Broadcastable(Joined(a, b), c), Broadcastable(b, c), Broadcastable(a, Joined(b, c))
  PROVE  Joined(a, Joined(b, c)) = Joined(Joined(a, b), c)
<1> DEFINE ab == Joined(a, b)
           bc == Joined(b, c)
           left == Joined(ab, c)
           right == Joined(a, bc)
           n == Len(left)
<1>1. /\ ab \in Seq(Nat) /\ bc \in Seq(Nat) /\ left \in Seq(Nat)
      /\ Fitting(ab, left) /\ Fitting(c, left) /\ Fitting(a, left) /\ Fitting(b, left)
  BY TwoJoined, ThreeJoined
<1>2. right \in Seq(Nat)
  <2> HIDE DEF bc
  <2>1. Broadcastable(a, bc)
    BY DEF bc
  <2> QED BY <1>1, <2>1, TwoJoined
<1>3. Len(a) \in Nat /\ Len(b) \in Nat /\ Len(c) \in Nat /\ n \in Nat /\ Len(ab) <= n
  BY <1>1 DEF Fitting
<1>4. Len(right) = n /\ Len(bc) <= n
  <2>1. a \in Seq(Int) /\ b \in Seq(Int) /\ c \in Seq(Int) /\ ab \in Seq(Int) /\ bc \in Seq(Int)
    BY <1>1
  <2>2. Len(ab) = IF Len(a) > Len(b) THEN Len(a) ELSE Len(b)
    BY <2>1, JoinedIs, Zenon
  <2>3. n = IF Len(ab) > Len(c) THEN Len(ab) ELSE Len(c)
    BY <2>1, JoinedIs, Zenon
  <2>4. Len(bc) = IF Len(b) > Len(c) THEN Len(b) ELSE Len(c)
    BY <2>1, JoinedIs, Zenon
  <2>5. Len(right) = IF Len(a) > Len(bc) THEN Len(a) ELSE Len(bc)
    BY <2>1, JoinedIs, Zenon
  <2> HIDE DEF ab, bc, n, right
  <2> QED BY <1>3, <2>2, <2>3, <2>4, <2>5
<1>5. ASSUME NEW d \in 1 .. n
      PROVE  left[d] = right[d]
  <2> DEFINE p == Aligned(a, n)[d]
             q == Aligned(b, n)[d]
             r == Aligned(c, n)[d]
  <2>1. Aligned(ab, n)[d] = IF p = 1 THEN q ELSE p
    <3> HIDE DEF n
    <3> QED BY <1>3, JoinedAligned
  <2>2. Aligned(bc, n)[d] = IF q = 1 THEN r ELSE q
    <3> HIDE DEF n
    <3> QED BY <1>3, <1>4, JoinedAligned
  <2>3. Aligned(left, n)[d] = IF Aligned(ab, n)[d] = 1 THEN r ELSE Aligned(ab, n)[d]
    <3>1. Len(Joined(ab, c)) <= n
      BY <1>3
    <3> HIDE DEF n, ab
    <3> QED BY <1>1, <1>3, <3>1, JoinedAligned DEF ab
  <2>4. Aligned(right, n)[d] = IF p = 1 THEN Aligned(bc, n)[d] ELSE p
    <3>1. Len(Joined(a, bc)) <= n
      BY <1>3, <1>4
    <3> HIDE DEF n, bc
    <3> QED BY <1>1, <1>3, <3>1, JoinedAligned DEF bc
  <2>5. Aligned(left, n)[d] = left[d] /\ Aligned(right, n)[d] = right[d]
    <3>1. left \in Seq(Int) /\ right \in Seq(Int) /\ d \in 1 .. Len(left) /\ d \in 1 .. Len(right)
      BY <1>1, <1>2, <1>4
    <3>2. Len(right) = n /\ Len(left) = n
      BY <1>4
    <3>3. Aligned(left, Len(left))[d] = left[d] /\ Aligned(right, Len(right))[d] = right[d]
      <4> HIDE DEF left, right, n
      <4> QED BY <3>1, AlignedSame
    <3> HIDE DEF left, right, n
    <3> QED BY <3>2, <3>3
  <2> HIDE DEF n, ab, bc, left, right, p, q, r
  <2> QED BY <2>1, <2>2, <2>3, <2>4, <2>5
<1> HIDE DEF left, right
<1>6. left = right
  BY <1>1, <1>2, <1>4, <1>5, SeqEqual DEF n
<1> QED BY <1>6 DEF left, right, ab, bc

\* A selection by a BOOL of elements of one dtype; the host joins the shapes in the other
\* order.
Selects(j) ==
  /\ j.op = "Where" /\ \A i \in 1 .. 3 : Operand(j.x[i])
  /\ j.x[1].dtype = "BOOL" /\ j.x[2].dtype = j.x[3].dtype
  /\ Broadcastable(j.x[1].shape, j.x[2].shape)
  /\ Broadcastable(Joined(j.x[1].shape, j.x[2].shape), j.x[3].shape)
  /\ ~IsFloat(j.x[2]) => /\ Broadcastable(j.x[2].shape, j.x[3].shape)
                         /\ Broadcastable(j.x[1].shape, Joined(j.x[2].shape, j.x[3].shape))

LEMMA SelectRuns ==
  ASSUME NEW j, Selects(j)
  PROVE  ResultsMean(j) \/ ThreadsMean(j)
<1> DEFINE cond == j.x[1]
           x == j.x[2]
           y == j.x[3]
           out == WhereShape(j)
           read(t, i) == Dot(Walk(out, i), BcastStrides(t.shape, out))
           picked(i) == IF StretchedAt(cond, out, i) # 0 THEN StretchedAt(x, out, i) ELSE StretchedAt(y, out, i)
           data == [i \in 0 .. Product(out) - 1 |-> picked(i)]
<1>1. Operand(cond) /\ Operand(x) /\ Operand(y)
  <2>1. 1 \in 1 .. 3 /\ 2 \in 1 .. 3 /\ 3 \in 1 .. 3
    OBVIOUS
  <2> QED BY <2>1, Zenon DEF Selects
<1>2. /\ j.op = "Where" /\ cond.dtype = "BOOL" /\ x.dtype = y.dtype
      /\ Broadcastable(cond.shape, x.shape) /\ Broadcastable(Joined(cond.shape, x.shape), y.shape)
      /\ ~IsFloat(x) => /\ Broadcastable(x.shape, y.shape)
                        /\ Broadcastable(cond.shape, Joined(x.shape, y.shape))
  BY DEF Selects
<1>3. cond.shape \in Seq(Nat) /\ x.shape \in Seq(Nat) /\ y.shape \in Seq(Nat)
  BY <1>1, OperandIs
<1>4. out = Joined(Joined(cond.shape, x.shape), y.shape)
  BY DEF WhereShape
<1> HIDE DEF cond, x, y, out
<1>5. /\ out \in Seq(Nat) /\ out # <<-1>>
      /\ Fitting(cond.shape, out) /\ Fitting(x.shape, out) /\ Fitting(y.shape, out)
      /\ Stretched(<<cond.shape, x.shape, y.shape>>) = out
  BY <1>2, <1>3, <1>4, ThreeJoined
<1>6. ASSUME NEW i \in 0 .. Product(out) - 1, NEW t \in {cond, x, y}
      PROVE  /\ At(t, Shrunk(t.shape, CoordAt(out, i))) = StretchedAt(t, out, i)
             /\ Load(t.data, read(t, i)) = StretchedAt(t, out, i)
             /\ read(t, i) \in DOMAIN t.data /\ t.data[read(t, i)] = StretchedAt(t, out, i)
  <2>1. Operand(t) /\ Fitting(t.shape, out)
    BY <1>1, <1>5
  <2> QED BY <1>5, <2>1, StretchedAtIs DEF StretchedAt
<1>7. OperatorMeaning(j) = <<New(x.dtype, out, data)>>
  <2> DEFINE meant(i) == IF At(cond, Shrunk(cond.shape, CoordAt(out, i))) # 0
                           THEN At(x, Shrunk(x.shape, CoordAt(out, i)))
                           ELSE At(y, Shrunk(y.shape, CoordAt(out, i)))
  <2>1. OperatorMeaning(j) = <<MeantWhere(cond, x, y)>>
    BY <1>2 DEF OperatorMeaning, cond, x, y
  <2>2. MeantWhere(cond, x, y) = New(x.dtype, out, [i \in 0 .. Product(out) - 1 |-> meant(i)])
    BY <1>5 DEF MeantWhere, Make
  <2>3. \A i \in 0 .. Product(out) - 1 : meant(i) = picked(i)
    BY <1>6
  <2> HIDE DEF meant, picked
  <2> QED BY <2>1, <2>2, <2>3
<1>8. CASE IsFloat(x)
  <2>1. OperatorPlan(j) = One(x.dtype, out)
    BY <1>2, <1>8 DEF OperatorPlan, WherePlan, IsFloat, cond, x, y, out
  <2>2. ASSUME NEW i \in 0 .. Product(out) - 1
        PROVE  WhereThread(j, i) = data[i]
    <3>1. WhereThread(j, i) = IF Load(cond.data, read(cond, i)) # 0 THEN Load(x.data, read(x, i))
                                                                  ELSE Load(y.data, read(y, i))
      BY DEF WhereThread, cond, x, y, out
    <3> QED BY <1>6, <3>1
  <2>3. \A m : \A e \in 0 .. Product(out) - 1 : OperatorStored(j, m, 1, e) = <<1, e, data[e]>>
    BY <1>2, <2>2 DEF OperatorStored
  <2>4. data = [i \in 0 .. Product(out) - 1 |-> data[i]]
    <3> HIDE DEF picked
    <3> QED OBVIOUS
  <2> HIDE DEF data
  <2> QED BY <1>5, <1>7, <2>1, <2>3, <2>4, ThreadsAre
<1>9. CASE ~IsFloat(x)
  <2>1. OperatorPlan(j) = Host(<<Where(cond, x, y, out)>>)
    BY <1>2, <1>9 DEF OperatorPlan, WherePlan, IsFloat, cond, x, y, out
  <2>2. Valid(cond) /\ Valid(x) /\ Valid(y)
    BY <1>1, OperandIs
  <2>3. out = Joined(cond.shape, Joined(x.shape, y.shape))
    BY <1>2, <1>3, <1>4, <1>9, JoinedThree
  <2>4. Broadcast(x.shape, y.shape) # Refused /\ Broadcast(cond.shape, Joined(x.shape, y.shape)) # Refused
    <3>1. \A a, b : Broadcastable(a, b) => Broadcast(a, b) # Refused
      <4> SUFFICES ASSUME NEW a, NEW b, Broadcastable(a, b)
                   PROVE  Broadcast(a, b) # Refused
        OBVIOUS
      <4>1. Broadcast(a, b) = BroadcastTo(a, b, Joined(a, b))
        BY DEF Broadcast
      <4>2. "out" \in DOMAIN BroadcastTo(a, b, Joined(a, b)) /\ "out" \notin DOMAIN Refused
        BY DEF BroadcastTo, Refused
      <4> QED BY <4>1, <4>2
    <3> QED BY <1>2, <1>9, <3>1
  <2> DEFINE selected(i) == IF ToInt(cond)[read(cond, i)] # 0 THEN x.data[read(x, i)] ELSE y.data[read(y, i)]
  <2>5. Where(cond, x, y, out) = New(x.dtype, out, [i \in 0 .. Product(out) - 1 |-> selected(i)])
    BY <1>2, <2>2, <2>3, <2>4 DEF Where, Movable
  <2>6. ASSUME NEW i \in 0 .. Product(out) - 1
        PROVE  selected(i) = picked(i)
    <3>1. ToInt(cond)[read(cond, i)] = IF cond.data[read(cond, i)] # 0 THEN 1 ELSE 0
      <4> HIDE DEF read
      <4>1. read(cond, i) \in DOMAIN cond.data
        BY <1>6
      <4> QED BY <1>2, <4>1 DEF ToInt
    <3> HIDE DEF read
    <3> QED BY <1>6, <3>1
  <2> HIDE DEF selected, picked
  <2> QED BY <1>7, <2>1, <2>5, <2>6 DEF ResultsMean
<1> QED BY <1>8, <1>9

\* A tensor that is stretched to a shape.
Expands(j) ==
  /\ j.op = "Expand" /\ Operand(j.x[1]) /\ j.target \in Seq(Nat)
  /\ Broadcastable(j.x[1].shape, j.target)

LEMMA BroadcastIs ==
  ASSUME NEW a, NEW b, Broadcastable(a, b)
  PROVE  Broadcast(a, b) = BroadcastTo(a, b, Joined(a, b)) /\ Broadcast(a, b) # Refused
<1>1. Broadcast(a, b) = BroadcastTo(a, b, Joined(a, b))
  BY DEF Broadcast
<1>2. "out" \in DOMAIN BroadcastTo(a, b, Joined(a, b)) /\ "out" \notin DOMAIN Refused
  BY DEF BroadcastTo, Refused
<1> QED BY <1>1, <1>2

LEMMA ExpandRuns ==
  ASSUME NEW j, Expands(j)
  PROVE  ResultsMean(j)
<1> DEFINE x == j.x[1]
           out == Joined(x.shape, j.target)
           meant(i) == At(x, Shrunk(x.shape, CoordAt(out, i)))
<1>1. j.op = "Expand" /\ Operand(x) /\ j.target \in Seq(Nat) /\ Broadcastable(x.shape, j.target)
  BY DEF Expands
<1>2. x.shape \in Seq(Nat) /\ Valid(x)
  BY <1>1, OperandIs
<1> HIDE DEF x
<1>3. /\ out \in Seq(Nat) /\ out # <<-1>> /\ Fitting(x.shape, out)
      /\ Stretched(<<x.shape, j.target>>) = out
  BY <1>1, <1>2, TwoJoined
<1> HIDE DEF out
<1>4. OperatorMeaning(j) = <<New(x.dtype, out, [i \in 0 .. Product(out) - 1 |-> meant(i)])>>
  <2>1. OperatorMeaning(j) = <<MeantExpand(x, j.target)>>
    BY <1>1 DEF OperatorMeaning, x
  <2>2. MeantExpand(x, j.target) = New(x.dtype, out, [i \in 0 .. Product(out) - 1 |-> meant(i)])
    BY <1>3 DEF MeantExpand, Make
  <2> QED BY <2>1, <2>2
<1>5. OperatorPlan(j) = Host(<<New(x.dtype, out, [i \in 0 .. Product(out) - 1 |-> StretchedAt(x, out, i)])>>)
  <2>1. OperatorPlan(j) = Host(<<Expand(x, j.target)>>)
    BY <1>1 DEF OperatorPlan, x
  <2>2. Broadcast(x.shape, j.target) # Refused
    BY <1>1, BroadcastIs
  <2>3. Expand(x, j.target) = New(x.dtype, out, [i \in 0 .. Product(out) - 1 |-> StretchedAt(x, out, i)])
    BY <1>2, <2>2 DEF Expand, Movable, Moved, StretchedAt, out
  <2> QED BY <2>1, <2>3
<1>6. \A i \in 0 .. Product(out) - 1 : meant(i) = StretchedAt(x, out, i)
  BY <1>1, <1>3, StretchedAtIs
<1> HIDE DEF meant
<1> QED BY <1>4, <1>5, <1>6 DEF ResultsMean

\* Two operands of one dtype; a BOOL is 0 or 1.
Alike(a, b) ==
  /\ Operand(a) /\ Operand(b) /\ a.dtype = b.dtype /\ a.dtype \in {"FLOAT", "INT64", "INT32", "BOOL"}
  /\ a.dtype = "BOOL" => /\ \A i \in DOMAIN a.data : a.data[i] \in {0, 1}
                         /\ \A i \in DOMAIN b.data : b.data[i] \in {0, 1}

LEMMA ValuesAre ==
  ASSUME NEW x, Operand(x), x.dtype \in {"FLOAT", "INT64", "INT32", "BOOL"},
         x.dtype = "BOOL" => \A i \in DOMAIN x.data : x.data[i] \in {0, 1}
  PROVE  (IF x.dtype = "FLOAT" THEN ToFloat(x) ELSE ToInt(x)) = x.data
<1>1. x.data \in [0 .. Product(x.shape) - 1 -> Int]
  BY OperandIs
<1>2. x.data = [i \in DOMAIN x.data |-> x.data[i]]
  BY <1>1
<1>3. CASE x.dtype = "FLOAT"
  <2>1. ToFloat(x) = [i \in DOMAIN x.data |-> x.data[i]]
    BY <1>3 DEF ToFloat
  <2> QED BY <1>2, <1>3, <2>1
<1>4. CASE x.dtype \in {"INT64", "INT32"}
  <2>1. ToInt(x) = [i \in DOMAIN x.data |-> x.data[i]]
    BY <1>4 DEF ToInt
  <2> QED BY <1>2, <1>4, <2>1
<1>5. CASE x.dtype = "BOOL"
  <2>1. ToInt(x) = [i \in DOMAIN x.data |-> IF x.data[i] # 0 THEN 1 ELSE 0]
    BY <1>5 DEF ToInt
  <2>2. \A i \in DOMAIN x.data : (IF x.data[i] # 0 THEN 1 ELSE 0) = x.data[i]
    BY <1>5
  <2> QED BY <1>2, <1>5, <2>1, <2>2
<1> QED BY <1>3, <1>4, <1>5

\* The pairs that the host combines are those that ONNX means.
LEMMA PairsAre ==
  ASSUME NEW a, NEW b, Alike(a, b), Broadcastable(a.shape, b.shape)
  PROVE  /\ Operable(a, b) /\ (Float(a, b) <=> a.dtype = "FLOAT")
         /\ Pairs(a, b, Float(a, b)) =
              [i \in 0 .. Product(Joined(a.shape, b.shape)) - 1 |->
                 <<StretchedAt(a, Joined(a.shape, b.shape), i), StretchedAt(b, Joined(a.shape, b.shape), i)>>]
<1> DEFINE out == Joined(a.shape, b.shape)
           bc == BroadcastTo(a.shape, b.shape, out)
<1>1. Operand(a) /\ Operand(b) /\ a.dtype = b.dtype /\ a.dtype \in {"FLOAT", "INT64", "INT32", "BOOL"}
  BY DEF Alike
<1>2. a.shape \in Seq(Nat) /\ b.shape \in Seq(Nat) /\ Valid(a) /\ Valid(b)
  BY <1>1, OperandIs
<1>3. Broadcast(a.shape, b.shape) = bc /\ Broadcast(a.shape, b.shape) # Refused
  BY BroadcastIs
<1>4. Operable(a, b)
  BY <1>1, <1>2, <1>3 DEF Operable, Numeric
<1>5. Float(a, b) <=> a.dtype = "FLOAT"
  BY <1>1 DEF Float, Integral
<1>6. /\ (IF Float(a, b) THEN ToFloat(a) ELSE ToInt(a)) = a.data
      /\ (IF Float(a, b) THEN ToFloat(b) ELSE ToInt(b)) = b.data
  <2>1. (IF a.dtype = "FLOAT" THEN ToFloat(a) ELSE ToInt(a)) = a.data
    BY <1>1, ValuesAre DEF Alike
  <2>2. (IF b.dtype = "FLOAT" THEN ToFloat(b) ELSE ToInt(b)) = b.data
    BY <1>1, ValuesAre DEF Alike
  <2> QED BY <1>1, <1>5, <2>1, <2>2
<1>7. out \in Seq(Nat) /\ Fitting(a.shape, out) /\ Fitting(b.shape, out)
  BY <1>2, TwoJoined
<1>8. bc.out = out /\ bc.strides = Strides(out)
      /\ bc.a = StretchedStrides(a.shape, out) /\ bc.b = StretchedStrides(b.shape, out)
  BY DEF BroadcastTo
<1> HIDE DEF bc, out
<1>9. Pairs(a, b, Float(a, b)) =
        [i \in 0 .. Product(out) - 1 |->
           <<a.data[Dot(Unwind(bc.strides, i), bc.a)], b.data[Dot(Unwind(bc.strides, i), bc.b)]>>]
  <2>1. Pairs(a, b, Float(a, b)) = Matched(IF Float(a, b) THEN ToFloat(a) ELSE ToInt(a),
                                           IF Float(a, b) THEN ToFloat(b) ELSE ToInt(b),
                                           Broadcast(a.shape, b.shape))
    BY DEF Pairs
  <2>2. Pairs(a, b, Float(a, b)) = Matched(a.data, b.data, bc)
    BY <1>3, <1>6, <2>1
  <2> QED BY <1>8, <2>2 DEF Matched
<1>10. ASSUME NEW i \in 0 .. Product(out) - 1
       PROVE  /\ a.data[Dot(Unwind(bc.strides, i), bc.a)] = StretchedAt(a, out, i)
              /\ b.data[Dot(Unwind(bc.strides, i), bc.b)] = StretchedAt(b, out, i)
  <2>1. Unwind(bc.strides, i) = Walk(out, i)
    BY <1>7, <1>8, UnwindIsWalk
  <2>2. Dot(Walk(out, i), bc.a) = Dot(Walk(out, i), BcastStrides(a.shape, out))
    BY <1>2, <1>7, <1>8, StretchedDot
  <2>3. Dot(Walk(out, i), bc.b) = Dot(Walk(out, i), BcastStrides(b.shape, out))
    BY <1>2, <1>7, <1>8, StretchedDot
  <2> QED BY <2>1, <2>2, <2>3 DEF StretchedAt
<1>11. [i \in 0 .. Product(out) - 1 |->
          <<a.data[Dot(Unwind(bc.strides, i), bc.a)], b.data[Dot(Unwind(bc.strides, i), bc.b)]>>]
       = [i \in 0 .. Product(out) - 1 |-> <<StretchedAt(a, out, i), StretchedAt(b, out, i)>>]
  BY <1>10
<1> QED BY <1>4, <1>5, <1>9, <1>11 DEF out

\* Two floats, or two INT64 of which none divides by zero or is raised to a negative power;
\* the kernel has room for MaxRank dimensions.
Combines(j) ==
  /\ j.op = "Binary" /\ Alike(j.x[1], j.x[2]) /\ Broadcastable(j.x[1].shape, j.x[2].shape)
  /\ j.x[1].dtype \in {"FLOAT", "INT64"}
  /\ IsFloat(j.x[1]) => Len(Joined(j.x[1].shape, j.x[2].shape)) <= MaxRank
  /\ j.x[1].dtype = "INT64" => /\ j.fn = "Div" => \A i \in DOMAIN j.x[2].data : j.x[2].data[i] # 0
                               /\ j.fn = "Pow" => \A i \in DOMAIN j.x[2].data : j.x[2].data[i] >= 0

LEMMA CombineRuns ==
  ASSUME MaxRank \in Nat, NEW j, Combines(j)
  PROVE  ResultsMean(j) \/ ThreadsMean(j)
<1> DEFINE a == j.x[1]
           b == j.x[2]
           out == Joined(a.shape, b.shape)
           bc == BroadcastTo(a.shape, b.shape, out)
           f == a.dtype = "FLOAT"
           value(i) == Scalar(j.fn, f, StretchedAt(a, out, i), StretchedAt(b, out, i))
           data == [i \in 0 .. Product(out) - 1 |-> value(i)]
<1>1. /\ j.op = "Binary" /\ Alike(a, b) /\ Broadcastable(a.shape, b.shape)
      /\ a.dtype \in {"FLOAT", "INT64"} /\ (IsFloat(a) => Len(out) <= MaxRank)
      /\ a.dtype = "INT64" => /\ j.fn = "Div" => \A i \in DOMAIN b.data : b.data[i] # 0
                              /\ j.fn = "Pow" => \A i \in DOMAIN b.data : b.data[i] >= 0
  BY DEF Combines
<1> HIDE DEF a, b
<1>2. Operand(a) /\ Operand(b) /\ a.dtype = b.dtype
  BY <1>1 DEF Alike
<1>3. a.shape \in Seq(Nat) /\ b.shape \in Seq(Nat)
  BY <1>2, OperandIs
<1>4. /\ out \in Seq(Nat) /\ out # <<-1>> /\ Fitting(a.shape, out) /\ Fitting(b.shape, out)
      /\ Stretched(<<a.shape, b.shape>>) = out
  BY <1>1, <1>3, TwoJoined
<1>5. bc.strides = Strides(out)
      /\ bc.a = StretchedStrides(a.shape, out) /\ bc.b = StretchedStrides(b.shape, out)
      /\ Broadcast(a.shape, b.shape) = bc
  BY <1>1, BroadcastIs DEF BroadcastTo
<1>6. /\ Operable(a, b) /\ (Float(a, b) <=> f)
      /\ Pairs(a, b, Float(a, b)) =
           [i \in 0 .. Product(out) - 1 |-> <<StretchedAt(a, out, i), StretchedAt(b, out, i)>>]
  BY <1>1, PairsAre
<1> HIDE DEF bc, out, f
<1>7. ASSUME NEW i \in 0 .. Product(out) - 1, NEW t \in {a, b}
      PROVE  /\ At(t, Shrunk(t.shape, CoordAt(out, i))) = StretchedAt(t, out, i)
             /\ Load(t.data, Dot(Walk(out, i), BcastStrides(t.shape, out))) = StretchedAt(t, out, i)
             /\ Dot(Walk(out, i), StretchedStrides(t.shape, out)) = Dot(Walk(out, i), BcastStrides(t.shape, out))
             /\ \E p \in DOMAIN t.data : StretchedAt(t, out, i) = t.data[p]
  <2>1. Operand(t) /\ Fitting(t.shape, out) /\ t.shape \in Seq(Nat)
    BY <1>2, <1>3, <1>4
  <2>2. /\ At(t, Shrunk(t.shape, CoordAt(out, i))) = StretchedAt(t, out, i)
        /\ Load(t.data, Dot(Walk(out, i), BcastStrides(t.shape, out))) = StretchedAt(t, out, i)
        /\ Dot(Walk(out, i), BcastStrides(t.shape, out)) \in DOMAIN t.data
    BY <1>4, <2>1, StretchedAtIs
  <2>3. Dot(Walk(out, i), StretchedStrides(t.shape, out)) = Dot(Walk(out, i), BcastStrides(t.shape, out))
    BY <1>4, <2>1, StretchedDot
  <2> QED BY <2>2, <2>3, Zenon DEF StretchedAt
<1>8. OperatorMeaning(j) = <<New(a.dtype, out, data)>>
  <2> DEFINE divides == j.fn = "Div" /\ a.dtype # "FLOAT" /\ \E i \in DOMAIN b.data : b.data[i] = 0
             meant(i) == Scalar(j.fn, (a.dtype = "FLOAT"), At(a, Shrunk(a.shape, CoordAt(out, i))),
                                                           At(b, Shrunk(b.shape, CoordAt(out, i))))
  <2>1. OperatorMeaning(j) = <<MeantBinary(a, b, j.fn)>>
    BY <1>1 DEF OperatorMeaning, a, b
  <2>2. ~divides
    BY <1>1
  <2>3. MeantBinary(a, b, j.fn) = New(a.dtype, out, [i \in 0 .. Product(out) - 1 |-> meant(i)])
    BY <1>4, <2>2 DEF MeantBinary, Elementwise, Make
  <2>4. \A i \in 0 .. Product(out) - 1 : meant(i) = value(i)
    BY <1>7 DEF f
  <2> HIDE DEF meant, value
  <2> QED BY <2>1, <2>3, <2>4
<1>9. CASE OperatorPlan(j) = One("FLOAT", out) /\ IsFloat(a)
  <2>1. ASSUME NEW i \in 0 .. Product(out) - 1
        PROVE  BinaryThread(j, i) = data[i]
    <3>1. BinaryThread(j, i) = Scalar(j.fn, TRUE, Load(a.data, Dot(Unwind(bc.strides, i), bc.a)),
                                                  Load(b.data, Dot(Unwind(bc.strides, i), bc.b)))
      BY <1>5 DEF BinaryThread, BinaryItem, a, b
    <3>2. Unwind(bc.strides, i) = Walk(out, i)
      BY <1>4, <1>5, UnwindIsWalk
    <3>3. f = TRUE
      BY <1>9 DEF f, IsFloat
    <3> QED BY <1>5, <1>7, <3>1, <3>2, <3>3
  <2>2. \A m : \A e \in 0 .. Product(out) - 1 : OperatorStored(j, m, 1, e) = <<1, e, data[e]>>
    BY <1>1, <2>1 DEF OperatorStored
  <2>3. data = [i \in 0 .. Product(out) - 1 |-> data[i]]
    <3> HIDE DEF value
    <3> QED OBVIOUS
  <2>4. a.dtype = "FLOAT"
    BY <1>9 DEF IsFloat
  <2> HIDE DEF data
  <2> QED BY <1>4, <1>8, <1>9, <2>2, <2>3, <2>4, ThreadsAre
<1>10. CASE OperatorPlan(j) = Host(<<Binary(a, b, j.fn)>>)
  <2> DEFINE pairs == [i \in 0 .. Product(out) - 1 |-> <<StretchedAt(a, out, i), StretchedAt(b, out, i)>>]
  <2>1. Binary(a, b, j.fn) = Combined(j.fn, Float(a, b), pairs, out)
    BY <1>6 DEF Binary, out
  <2>2. DOMAIN pairs = 0 .. Product(out) - 1
    OBVIOUS
  <2>3. \A i \in DOMAIN pairs : pairs[i][1] = StretchedAt(a, out, i) /\ pairs[i][2] = StretchedAt(b, out, i)
    OBVIOUS
  <2> HIDE DEF pairs
  <2>4. ~(~Float(a, b) /\ \E i \in DOMAIN pairs : \/ j.fn = "Div" /\ pairs[i][2] = 0
                                                  \/ j.fn = "Pow" /\ pairs[i][2] < 0)
    <3> SUFFICES ASSUME ~Float(a, b), NEW i \in DOMAIN pairs
                 PROVE  ~(j.fn = "Div" /\ pairs[i][2] = 0) /\ ~(j.fn = "Pow" /\ pairs[i][2] < 0)
      OBVIOUS
    <3>1. a.dtype = "INT64"
      BY <1>1, <1>6 DEF f
    <3>2. PICK p \in DOMAIN b.data : pairs[i][2] = b.data[p]
      BY <1>7, <2>2, <2>3
    <3>3. b.data[p] \in Int
      BY <1>2, <3>2, OperandIs
    <3> QED BY <1>1, <3>1, <3>2, <3>3
  <2>5. Binary(a, b, j.fn) = New(IF Float(a, b) THEN "FLOAT" ELSE "INT64", out,
                                 [i \in DOMAIN pairs |-> Scalar(j.fn, Float(a, b), pairs[i][1], pairs[i][2])])
    BY <2>1, <2>4 DEF Combined
  <2>6. (IF Float(a, b) THEN "FLOAT" ELSE "INT64") = a.dtype /\ Float(a, b) = f
    BY <1>1, <1>6 DEF f, Float
  <2>7. \A i \in 0 .. Product(out) - 1 : Scalar(j.fn, Float(a, b), pairs[i][1], pairs[i][2]) = value(i)
    BY <2>2, <2>3, <2>6
  <2> HIDE DEF value
  <2>8. [i \in DOMAIN pairs |-> Scalar(j.fn, Float(a, b), pairs[i][1], pairs[i][2])] = data
    BY <2>2, <2>7
  <2> QED BY <1>8, <1>10, <2>5, <2>6, <2>8 DEF ResultsMean
<1>11. \/ OperatorPlan(j) = One("FLOAT", out) /\ IsFloat(a)
       \/ OperatorPlan(j) = Host(<<Binary(a, b, j.fn)>>)
  <2> DEFINE small == \A i \in 1 .. 2 : ~OnDevice(j, i) /\ Size(j.x[i]) <= SmallHost
             device == IsFloat(a) /\ IsFloat(b) /\ ~small
  <2>1. OperatorPlan(j) = BinaryPlan(j)
    BY <1>1 DEF OperatorPlan
  <2>2. ~(device /\ (~Broadcastable(a.shape, b.shape) \/ ~(Len(out) <= MaxRank)))
    BY <1>1
  <2>3. BinaryPlan(j) =
          CASE device /\ (~Broadcastable(a.shape, b.shape) \/ Len(out) > MaxRank) -> Host(<<Refused>>)
            [] device /\ Broadcastable(a.shape, b.shape) /\ Len(out) <= MaxRank -> One("FLOAT", out)
            [] ~device -> Host(<<Binary(a, b, j.fn)>>)
    BY DEF BinaryPlan, a, b, out
  <2>4. CASE device
    <3>1. Len(out) <= MaxRank /\ ~(Len(out) > MaxRank)
      <4>1. Len(out) \in Nat /\ Len(out) <= MaxRank
        BY <1>1, <1>4, <2>4
      <4> QED BY <4>1
    <3> HIDE DEF small
    <3> QED BY <1>1, <2>1, <2>3, <2>4, <3>1
  <2>5. CASE ~device
    <3> HIDE DEF device
    <3> QED BY <2>1, <2>3, <2>5
  <2> QED BY <2>4, <2>5
<1> QED BY <1>9, <1>10, <1>11

\* Two operands of one dtype that are compared.
Compares(j) ==
  j.op = "Compare" /\ Alike(j.x[1], j.x[2]) /\ Broadcastable(j.x[1].shape, j.x[2].shape)

LEMMA CompareRuns ==
  ASSUME NEW j, Compares(j)
  PROVE  ResultsMean(j)
<1> DEFINE a == j.x[1]
           b == j.x[2]
           out == Joined(a.shape, b.shape)
           value(i) == IF Compared(j.fn, StretchedAt(a, out, i), StretchedAt(b, out, i)) THEN 1 ELSE 0
           meant(i) == IF Compared(j.fn, At(a, Shrunk(a.shape, CoordAt(out, i))), At(b, Shrunk(b.shape, CoordAt(out, i))))
                         THEN 1 ELSE 0
           pairs == [i \in 0 .. Product(out) - 1 |-> <<StretchedAt(a, out, i), StretchedAt(b, out, i)>>]
<1>1. j.op = "Compare" /\ Alike(a, b) /\ Broadcastable(a.shape, b.shape)
  BY DEF Compares
<1> HIDE DEF a, b
<1>2. Operand(a) /\ Operand(b)
  BY <1>1 DEF Alike
<1>3. a.shape \in Seq(Nat) /\ b.shape \in Seq(Nat)
  BY <1>2, OperandIs
<1>4. /\ out \in Seq(Nat) /\ Fitting(a.shape, out) /\ Fitting(b.shape, out)
      /\ Stretched(<<a.shape, b.shape>>) = out
  BY <1>1, <1>3, TwoJoined
<1>5. Operable(a, b) /\ Pairs(a, b, Float(a, b)) = pairs
  BY <1>1, PairsAre
<1> HIDE DEF out
<1>6. OperatorMeaning(j) = <<New("BOOL", out, [i \in 0 .. Product(out) - 1 |-> meant(i)])>>
  <2>1. OperatorMeaning(j) = <<MeantCompare(a, b, j.fn)>>
    BY <1>1 DEF OperatorMeaning, a, b
  <2>2. MeantCompare(a, b, j.fn) = New("BOOL", out, [i \in 0 .. Product(out) - 1 |-> meant(i)])
    BY <1>4 DEF MeantCompare, Elementwise, Make
  <2> QED BY <2>1, <2>2
<1>7. OperatorPlan(j) = Host(<<New("BOOL", out, [i \in 0 .. Product(out) - 1 |-> value(i)])>>)
  <2>1. OperatorPlan(j) = Host(<<Compare(a, b, j.fn)>>)
    BY <1>1 DEF OperatorPlan, a, b
  <2>2. Compare(a, b, j.fn) = New("BOOL", out, AllCompared(j.fn, pairs))
    BY <1>5 DEF Compare, out
  <2>3. AllCompared(j.fn, pairs) = [i \in 0 .. Product(out) - 1 |-> value(i)]
    BY DEF AllCompared
  <2> QED BY <2>1, <2>2, <2>3
<1>8. \A i \in 0 .. Product(out) - 1 : meant(i) = value(i)
  BY <1>2, <1>4, StretchedAtIs
<1> HIDE DEF meant, value
<1> QED BY <1>6, <1>7, <1>8 DEF ResultsMean

==============================================================================
