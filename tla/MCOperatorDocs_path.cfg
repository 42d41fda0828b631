SPECIFICATION Spec
CONSTANTS
  Revisions = {1, 2}
  NoRevision = 0
  Sources = {"main"}
  Paths = {"k8s", "prod"}
  Automation = {TRUE}
  NoManifest = NoManifest
  HistoryLimit = 2
  Apps = {"web"}
  Operators = {"op1"}
  Budget <- BudgetEdit
  Validated = FALSE
  Unparsable <- Nothing
  Bare <- Nothing
  Moves <- AnyMove
  ApplyOutcomes = {"ok"}
INVARIANT SyncedListsApplied
