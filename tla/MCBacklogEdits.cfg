CONSTANTS
    Keys = {1, 2}
    HypKeys = {1}
    BlhKeys = {2}
    b1 = b1
    b2 = b2
    l0 = l0
    l1 = l1
    Bodies = {b1, b2}
    Lives = {l0, l1}
    FirstLife = l0
    MaxNum = 2
    MaxRecords = 1
SPECIFICATION EditsSpec
INVARIANTS
    EditedHypothesesPreserved
