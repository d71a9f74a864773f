SPECIFICATION Spec
CONSTANTS
  Scenarios <- MCScenarios
  Specs = {"c", "d", "other", "account", "view", "admin"}
  Labels = {"c", "d", "team", "mine"}
  Secret = "secret"
  Reconciled = {"source"}
  MaxOther = 2
INVARIANTS
  NothingLost LeftUsable DeletedMeansGone
PROPERTIES
  SuccessMeansReconciled
CHECK_DEADLOCK FALSE
