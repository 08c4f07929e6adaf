CONSTANTS
    Subjects = {"self", "other"}
    Self = "self"
    Candidates <- MCCandidates
SPECIFICATION AuthSpec
INVARIANTS
    ReadyCredentialIsOwn
    
