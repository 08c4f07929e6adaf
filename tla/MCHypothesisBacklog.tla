------------------------- MODULE MCHypothesisBacklog ------------------------
EXTENDS HypothesisBacklog, TLC

CONSTANTS b1, b2, l0, l1

Symmetry == Permutations({b1, b2})
=============================================================================
