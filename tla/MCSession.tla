------------------------------- MODULE MCSession -------------------------------
(* Small instances of ProviderMemory, and of the modules it extends, for TLC. *)
EXTENDS ProviderMemory, TLC

Weight(name) == [table |-> "uploads", name |-> name, variant |-> 0]
Packed(name, shape) == [table |-> "packed", name |-> name, variant |-> shape]
Kernel(name, variant) == [table |-> "pipelines", name |-> name, variant |-> variant]

Zero == [table |-> "zero", name |-> "zero", variant |-> 0]

\* The weight v is read as it is by one node and packed by the other.
TwoNodes ==
  << [asks |-> <<Weight("v"), Kernel("Add", 0)>>, reads |-> {"x"}, writes |-> "h", dead |-> {"x"}],
     [asks |-> <<Packed("v", 0), Zero>>, reads |-> {"h"}, writes |-> "y", dead |-> {"h"}] >>
TwoAsks == UNION {Range(TwoNodes[i].asks) : i \in DOMAIN TwoNodes}

\* Two activations of one graph that differ in alpha.
TwoAlphas ==
  << [asks |-> <<Kernel("LeakyRelu", 1)>>, reads |-> {"x"}, writes |-> "h", dead |-> {"x"}],
     [asks |-> <<Kernel("LeakyRelu", 2)>>, reads |-> {"h"}, writes |-> "y", dead |-> {"h"}] >>
AlphaAsks == UNION {Range(TwoAlphas[i].asks) : i \in DOMAIN TwoAlphas}

In  == {"x"}
Out == {"y"}
Units == 0 .. 3
RunBound == [session |-> 2, provider |-> 1]
OpenBound == [session |-> 4, provider |-> 1]
Symmetry == Permutations(Handle) \cup Permutations(Thread)

\* The proofs are about ordinary use, and some of them about keys that say all that
\* was asked for: those of the first program do.
ASSUME ProgramIsOrdinary == Uses = OrdinaryUse => Ordinary
ASSUME TwoNodesKeysAreFaithful == Program = TwoNodes => FaithfulKeys
=============================================================================
