SPECIFICATION FairFromStart
CONSTANTS
  Revisions = {1, 2}
  NoRevision = 0
  Sources = {"main"}
  Paths = {"k8s"}
  Automation = {TRUE, FALSE}
  NoManifest = NoManifest
  HistoryLimit = 2
  Apps = {"web"}
  Operators = {"op1"}
  Budget <- BudgetUsers
  Validated = FALSE
  Unparsable <- Nothing
  Bare <- Nothing
  Moves <- Forward
  ApplyOutcomes = {"ok", "err"}
INVARIANTS WakeupInv
PROPERTIES UserEditsSurvive StatusConverges
