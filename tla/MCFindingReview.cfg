CONSTANTS
    Facts <- MCFacts
    Invariants = {i1, i2}
    Narratives = {n1}
    Contents = {c1}
    Kinds = {"before"}
    Assessments <- MCAssessments
    MaxChanges = 3
    MaxVersion = 2
SYMMETRY Symmetric
SPECIFICATION Spec
INVARIANTS
    CurrentReportIsBacked
    StatusIsSettled
PROPERTIES
    ReportsAreImmutable
    
