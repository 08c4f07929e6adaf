--------------------------- MODULE MCArtifactStore --------------------------
EXTENDS ArtifactStore, TLC

CONSTANTS b1, b2, l0, l1

MCBodies == {b1, b2}

Symmetry == Permutations(MCBodies)
=============================================================================
