CONSTANTS
    Subjects = {"self", "other"}
    Self = "self"
    Candidates <- MCCandidates
    Policies = {"p1", "p2"}
    Permitting = {"p1", "p2"}
    Inputs = {1}
    AutoRefresh = FALSE
    Interference = {"plan", "policy"}
    Serial = FALSE
    MaxRuns = 2
    MaxApprovals = 2
SPECIFICATION CrashSpec
INVARIANTS
    AuditIsTruthful
    RevisionsNeverShared
PROPERTY
    ImplementsAuthority
