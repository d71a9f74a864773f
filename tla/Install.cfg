SPECIFICATION FairSpec
CONSTANTS
  Definitions = {"gitrepositories", "namespace"}
  Crd = "gitrepositories"
  Workloads = {"source-controller", "kustomize-controller"}
  Components = {"source-controller", "kustomize-controller"}
  Versions = {1, 2}
  MaxRuns = 2
  MaxOther = 1
INVARIANTS SuccessMeansInstalled OwnerRespected
PROPERTIES DefinitionsFirst EveryRunEnds
