SPECIFICATION Spec
CONSTANTS
  Captures = {1, 2, 3, 5}
  Exchanges <- MCExchanges
  Endpoints <- MCEndpoints
  Surroundings <- MCSurroundings
  Table <- ResultTable
  Decisions = {"CONFIRMED"}
  MaxRuns = 2
  MaxDecisions = 1
INVARIANTS
  JourneysAreCausal
  JourneysIgnoreOthers
  PrerequisitesAreUnanimous
  QueueAsksEachQuestionOnce
PROPERTIES
  DecisionsOutliveAnalyses
CHECK_DEADLOCK FALSE
