---------------------------- MODULE MCEsnSweep ----------------------------
EXTENDS EsnSweep, FiniteSets

CONSTANT MaxMatches  \* bound: at most this many ESNs satisfy the predicate

SmallMatchSets == {S \in SUBSET Candidate : Cardinality(S) <= MaxMatches}

=============================================================================
