------------------------------- MODULE DevicePlan -------------------------------
(***************************************************************************)
(* How the handler of an operator (interp.rs) has it computed.             *)
(*                                                                         *)
(* A job is an operator with its operands: job.x is the sequence of input  *)
(* tensors, job.home says for each whether it resides on the host or on    *)
(* the device, the other fields are attributes and the operands that the   *)
(* handler reads on the host.  Its plan is on the host, with the results,  *)
(* or on the device, with the dtypes and shapes of the outputs, the sizes  *)
(* of the temporary buffers after them, and the launches, one after the    *)
(* other.  A launch gives every workgroup of its grid the items that its   *)
(* threads compute.                                                        *)
(***************************************************************************)
EXTENDS HostOps

CONSTANTS
  LogLocal,    \* a workgroup has 2^LogLocal threads
  MaxRank,     \* dimensions that fit into the push constants of a kernel
  MaxGroups    \* workgroups along the first dimension of a grid

Local == 2^LogLocal
Lanes == 0 .. Local - 1

\* What a read outside a buffer finds, and what memory holds that nothing wrote.
Outside   == 999999
Unwritten == 888888

Load(f, i) == IF i \in DOMAIN f THEN f[i] ELSE Outside

OnDevice(job, i) == job.home[i] = "device"
IsFloat(x) == x.dtype = "FLOAT"

Out(dtype, shape) == [dtype |-> dtype, shape |-> shape]

Host(results) == [path |-> "host", results |-> results]

\* A plan whose threads work alone, and one whose workgroups follow a program.
Passes(outs, scratch, launches) ==
  [path |-> "device", outs |-> outs, scratch |-> scratch, launches |-> launches, program |-> <<>>]
Device(outs, launches) == Passes(outs, <<>>, launches)
Teams(outs, program, launch) ==
  [path |-> "device", outs |-> outs, scratch |-> <<>>, launches |-> <<launch>>, program |-> program]

----------------------------------------------------------------------------
(* Grids.  A launch of no elements is left out by the code: no workgroups. *)

\* Mutant: the threads past the last element are not idle.
LinearPast(n) ==
  [g \in 0 .. CeilDiv(n, Local) - 1 |-> g * Local .. (g + 1) * Local - 1]

\* One thread per element, the threads past the last one idle.
Linear(n) ==
  [g \in 0 .. CeilDiv(n, Local) - 1 |-> {e \in g * Local .. (g + 1) * Local - 1 : e < n}]

\* Mutant: the rows of a folded grid are one workgroup apart.
FoldingNarrow(n) ==
  LET gx == Clamp(CeilDiv(n, Local), 1, MaxGroups)
      gy == CeilDiv(n, gx * Local)
      From(g) == (g \div gx) * Local + ((g % gx) * Local)
  IN [g \in 0 .. gx * gy - 1 |-> {e \in From(g) .. From(g) + Local - 1 : e < n}]

\* The same folded into rows of at most MaxGroups workgroups.
Folding(n) ==
  LET gx == Clamp(CeilDiv(n, Local), 1, MaxGroups)
      gy == CeilDiv(n, gx * Local)
      From(g) == (g \div gx) * (gx * Local) + ((g % gx) * Local)
  IN [g \in 0 .. gx * gy - 1 |-> {e \in From(g) .. From(g) + Local - 1 : e < n}]

\* One workgroup per row of work, in as many grid rows as that takes.
PerRow(rows) ==
  LET gx == Clamp(rows, 1, MaxGroups)
      gy == CeilDiv(rows, gx)
  IN [g \in 0 .. gx * gy - 1 |-> {r \in {(g \div gx) * gx + (g % gx)} : r < rows}]

\* A grid of tiles over batches of rows and columns, less what hangs over the edge.
Tiled(batches, rows, cols, high, wide) ==
  LET gx == CeilDiv(cols, wide)
      gy == CeilDiv(rows, high)
      Cell(g) == ((g \div gx) % gy) * high
      Side(g) == (g % gx) * wide
  IN [g \in 0 .. gx * gy * batches - 1 |->
        {g \div (gx * gy)} \X (Cell(g) .. Min({Cell(g) + high, rows}) - 1)
                           \X (Side(g) .. Min({Side(g) + wide, cols}) - 1)]

----------------------------------------------------------------------------
(* Programs of a workgroup that shares memory.  Every lane follows the      *)
(* same steps and passes a barrier only with all the others.               *)

Barrier == <<"barrier", 0>>

\* Every lane puts its part of a pass into shared memory, where they are merged
\* in pairs, half as many at every level; then every lane takes the first.
Tree(pass) ==
  <<<<"put", pass>>, Barrier>>
    \o FlattenSeq([i \in 1 .. LogLocal |-> <<<<"merge", 2^(LogLocal - i)>>, Barrier>>])
    \o <<<<"take", pass>>>>

Store == <<"store", 0>>

\* The elements of a row of n that a lane visits.
Strided(n, lane) == {i \in 0 .. n - 1 : i % Local = lane}
Sum(S, f(_)) == MapThenSumSet(f, S)

----------------------------------------------------------------------------
One(dtype, shape) == Device(<<Out(dtype, shape)>>, <<Linear(Product(shape))>>)

=============================================================================
