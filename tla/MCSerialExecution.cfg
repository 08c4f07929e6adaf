CONSTANTS
    Subjects = {"self", "other"}
    Self = "self"
    Candidates <- MCCandidates
    Policies = {"p1"}
    Permitting = {"p1"}
    Inputs = {1, 2}
    AutoRefresh = TRUE
    Interference = {"auth", "inputs"}
    Serial = TRUE
    MaxRuns = 1
    MaxApprovals = 1
SPECIFICATION Spec
INVARIANTS
    SentUnderDecision
    SentCredentialIsOwn
    RefreshedRunSendsNothing

    
