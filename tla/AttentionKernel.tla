---------------------------- MODULE AttentionKernel ----------------------------
(***************************************************************************)
(* GroupQueryAttention (interp.rs, shaders/group_query_attention.rs): a    *)
(* workgroup per head, query and batch scores the keys of the past and of  *)
(* the present, weighs their values, and appends the present ones to the   *)
(* past.  Operands: q, k, v, past_k, past_v, cos and sin of the rotation.  *)
(***************************************************************************)
EXTENDS RowKernels

Heads(job)   == job.qHeads
Batch(job)   == job.x[1].shape[1]
Queries(job)    == job.x[1].shape[2]
HeadDim(job) == job.x[1].shape[3] \div job.qHeads
Past(job)    == job.x[4].shape[3]
Length(job)  == Past(job) + Queries(job)

AttentionShapes(job) ==
  /\ job.qHeads > 0 /\ job.kvHeads > 0 /\ job.qHeads % job.kvHeads = 0
  /\ Rank(job.x[1]) = 3 /\ job.x[1].shape[3] % job.qHeads = 0
  /\ job.x[2].shape = <<Batch(job), Queries(job), job.kvHeads * HeadDim(job)>>
  /\ job.x[3].shape = job.x[2].shape
  /\ Rank(job.x[4]) = 4 /\ job.x[5].shape = job.x[4].shape
  /\ job.x[4].shape = <<Batch(job), job.kvHeads, Past(job), HeadDim(job)>>
  /\ Length(job) <= MaxContext
  /\ \A i \in {6, 7} : Size(job.x[i]) >= Length(job) * (HeadDim(job) \div 2)

\* Two trees with nothing between the reading of the maximum and the writing of
\* the sums into the same memory.
AttentionProgram == Tree(1) \o Tree(2) \o <<Store>>

AttentionPlan(job) ==
  IF ~AttentionShapes(job) THEN Host(<<Refused, Refused, Refused>>)
  ELSE LET present == <<Batch(job), job.kvHeads, Length(job), HeadDim(job)>>
           groups == Batch(job) * Queries(job) * Heads(job)
       IN Teams(<<Out("FLOAT", job.x[1].shape), Out("FLOAT", present), Out("FLOAT", present)>>,
                AttentionProgram, [g \in 0 .. groups - 1 |-> {g}])

\* Workgroup g is head h of query s of batch b.
HeadOf(job, g)  == g % Heads(job)
QueryOf(job, g) == (g \div Heads(job)) % Queries(job)
BatchOf(job, g) == g \div (Heads(job) * Queries(job))
KeyHead(job, h) == h \div (job.qHeads \div job.kvHeads)

\* Where dimension d of a head lies: in place, or interleaved when the transpose
\* before the operator was folded into it.
Physical(job, d) ==
  LET half == HeadDim(job) \div 2 IN
  IF ~job.reorder \/ HeadDim(job) # PairedDim THEN d ELSE (d % half) * 2 + (d \div half)

\* Mutant: both halves are turned the same way.
TurnedSame(job, value, other, d, position) ==
  LET half == HeadDim(job) \div 2
      at == position * half + (d % half)
  IN IF ~job.rotary THEN value
     ELSE value * Load(job.x[6].data, at) + other * Load(job.x[7].data, at)

Turned(job, value, other, d, position) ==
  LET half == HeadDim(job) \div 2
      at == position * half + (d % half)
      signed == IF d >= half THEN other ELSE -other
  IN IF ~job.rotary THEN value
     ELSE value * Load(job.x[6].data, at) + signed * Load(job.x[7].data, at)

\* Dimension d of head h of query or key s, turned by its position.
Current(job, i, heads, b, s, h, d) ==
  LET base == ((b * Queries(job) + s) * heads + h) * HeadDim(job)
      half == HeadDim(job) \div 2
      other == IF d >= half THEN d - half ELSE d + half
  IN Turned(job, Load(job.x[i].data, base + Physical(job, d)),
            Load(job.x[i].data, base + Physical(job, other)), d, Past(job) + s)

\* Dimension d of the key (i = 4) or the value (i = 5) at a position.
PastAt(job, i, b, h, position, d) ==
  Load(job.x[i].data, ((b * job.kvHeads + h) * Past(job) + position) * HeadDim(job) + d)
ValueNow(job, b, s, h, d) ==
  Load(job.x[3].data, ((b * Queries(job) + s) * job.kvHeads + h) * HeadDim(job) + d)
KeyAt(job, b, h, position, d) ==
  IF position < Past(job) THEN PastAt(job, 4, b, h, position, d)
  ELSE Current(job, 2, job.kvHeads, b, position - Past(job), h, d)
ValueAt(job, b, h, position, d) ==
  IF position < Past(job) THEN PastAt(job, 5, b, h, position, d)
  ELSE ValueNow(job, b, position - Past(job), h, d)

Dims(job) == 0 .. HeadDim(job) - 1

\* A query sees the positions up to its own.
Limit(job, g) == Past(job) + QueryOf(job, g) + 1

Score(job, g, position) ==
  LET b == BatchOf(job, g)
      h == HeadOf(job, g)
  IN job.scale * Sum(Dims(job), LAMBDA d :
       Current(job, 1, job.qHeads, b, QueryOf(job, g), h, d)
         * KeyAt(job, b, KeyHead(job, h), position, d))

AttentionPart(job, g, pass, lane, taken) ==
  LET mine == Strided(Limit(job, g), lane) IN
  IF pass = 1 THEN Max({Lowest} \cup {Score(job, g, p) : p \in mine})
              ELSE Sum(mine, LAMBDA p : Exp(Score(job, g, p) - taken[1]))

\* The weight of a position is what the lane that visits it made of its maximum.
AttentionStores(job, g, lane, taken) ==
  LET b == BatchOf(job, g)
      s == QueryOf(job, g)
      h == HeadOf(job, g)
      weight(p) == Exp(Score(job, g, p) - taken[p % Local][1])
      weighed(d) == Sum(0 .. Limit(job, g) - 1, LAMBDA p : weight(p) * ValueAt(job, b, KeyHead(job, h), p, d))
      mine == Strided(HeadDim(job), lane)
      there(p, d) == ((b * job.kvHeads + h) * Length(job) + p) * HeadDim(job) + d
      kept == IF s = 0 THEN 0 .. Past(job) - 1 ELSE {}
      answer == {<<1, ((b * Queries(job) + s) * Heads(job) + h) * HeadDim(job) + d,
                   (weighed(d) * Unit) \div taken[lane][2]>> : d \in mine}
      present == {<<2, there(p, d), KeyAt(job, b, h, p, d)>> : p \in kept \cup {Past(job) + s}, d \in mine}
                 \cup {<<3, there(p, d), ValueAt(job, b, h, p, d)>> : p \in kept \cup {Past(job) + s}, d \in mine}
  IN IF h < job.kvHeads THEN answer \cup present ELSE answer

=============================================================================
