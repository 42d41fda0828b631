SPECIFICATION Spec
CONSTANTS
  Revisions = {1, 2}
  NoRevision = 0
  Sources = {"main"}
  Paths = {"k8s"}
  Automation = {FALSE}
  NoManifest = NoManifest
  HistoryLimit = 2
  Apps = {"web"}
  Operators = {"op1"}
  Budget <- BudgetPush
  Validated = FALSE
  Unparsable <- Nothing
  Bare <- Nothing
  Moves <- AnyMove
  ApplyOutcomes = {"ok"}
PROPERTY ManualNeedsTrigger
