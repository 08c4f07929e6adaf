\* Three commands, two accounts, three writes.
CONSTANTS
    Procs = {p1, p2, p3}
    Kinds = {"setup", "mcp", "init", "update", "job", "auth", "upload", "delete", "webPurge"}
    Labels <- MCLabels
    Rosters <- MCRosters
    MaxWrites = 3
SYMMETRY Symmetry
SPECIFICATION Spec
INVARIANTS
    
    SnapshotIsCurrent
PROPERTIES
    
    BindingsFollowLabels
CHECK_DEADLOCK FALSE
