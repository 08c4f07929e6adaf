SPECIFICATION Spec
CONSTANTS
    Accounts <- MCAccounts
    PublicScope = FALSE
    Captures <- MCCaptures
    About <- MCAbout
    Used <- MCUsed
    Aim = "p1"
    History <- MCHistory
    MaxExchanges = 6
    Unreviewed <- MCUnreviewed
    Policies <- MCPolicies
INVARIANTS
    
    
    CurrentInventoryIsProjected
    ReviewedCleanupHolds
CHECK_DEADLOCK FALSE
