-------------------------- MODULE MCSourceRegistry --------------------------
EXTENDS SourceRegistry, TLC
CONSTANTS c1, c2, s1, s2
MCConsumers == {c1, c2}
MCStreams == {s1, s2}
MCHevc == {s1}
MCRates == {0}
MCTwoRates == {0, 500}
MCOne == {s1}
Symmetric == Permutations(MCConsumers)
=============================================================================
