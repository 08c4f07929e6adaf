CONSTANTS
    Files = {"f1", "f2"}
    Names = {"n1", "n2"}
    Actors = {"A", "UNKNOWN"}
    Modes = {"NORMAL_BEHAVIOR", "RESEARCHER_PROBE", "AUTHENTICATION", "MIXED", "UNKNOWN"}
    Directs <- MCDirects
    Manuals <- MCManuals
    Entries <- MCEntries
    Hints <- MCHints
    Exchanges <- MCExchanges
    Journeys <- MCJourneys
    Policies <- MCPolicies
    MaxImports = 2
SPECIFICATION Spec
INVARIANTS
    FilesAgree
    OnlyNormalTrafficCounts
    
PROPERTIES
    ResearcherContextSurvives
    AnalysisFollowsManifest
