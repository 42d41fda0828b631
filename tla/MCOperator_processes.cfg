SPECIFICATION FairFromStart
CONSTANTS
  Revisions = {1, 2}
  NoRevision = 0
  Sources = {"main"}
  Paths = {"k8s"}
  Automation = {TRUE}
  NoManifest = NoManifest
  HistoryLimit = 2
  Apps = {"web"}
  Operators = {"op1", "op2"}
  Budget <- BudgetProcesses
  Validated = FALSE
  Unparsable <- Nothing
  Bare <- Nothing
  Moves <- Forward
  ApplyOutcomes = {"ok"}
PROPERTIES StatusConverges
