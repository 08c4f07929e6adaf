CONSTANTS
    Settings = {"accounts", "rules"}
    Evidence = {"none", "bare", "rich"}
    Editable = {"inventory", "model", "hypotheses"}
    MaxChanges = 2
    Modes = {"default", "force", "report-only"}
    Dies = TRUE
    MaxCommands = 2
CHECK_DEADLOCK FALSE
SPECIFICATION ReportSpec
INVARIANTS
    CompleteIsCurrent
    InventoryIsIntact
    ReportLeavesCurrent
PROPERTIES
    ReportEnds
