CONSTANTS
    Keys = {1, 2}
    b1 = b1
    b2 = b2
    l0 = l0
    l1 = l1
    Bodies = {b1, b2}
    Lives = {l0, l1}
    Gid = "generator"
    Prefix = "ART"
    FirstLife = l0
    MaxNum = 3
    MaxRecords = 2
SYMMETRY Symmetry
SPECIFICATION Spec
INVARIANTS
    IdsDistinct
PROPERTIES
    EditsSurvive
