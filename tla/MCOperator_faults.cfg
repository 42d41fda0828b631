SPECIFICATION Spec
CONSTANTS
  Revisions = {1, 2}
  NoRevision = 0
  Sources = {"main"}
  Paths = {"k8s"}
  Automation = {TRUE, FALSE}
  NoManifest = NoManifest
  HistoryLimit = 2
  Apps = {"web"}
  Operators = {"op1"}
  Budget <- BudgetFaults
  Validated = FALSE
  Unparsable <- LastCommit
  Bare <- FirstCommit
  Moves <- AnyMove
  ApplyOutcomes = {"ok", "err"}
INVARIANTS TypeOK SyncedWasApplied NoticeTruthful
PROPERTIES ImplementsContract LastSyncMonotone
