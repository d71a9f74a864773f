SPECIFICATION Spec
CONSTANTS
  CreateInputs <- MCCreateInputs
  CommandLines <- MCCommandLines
  TracedObjects <- MCTracedObjects
  TreeClusters <- MCTreeClusters
  GetCommands <- MCGetCommands
  ExportCommands <- MCExportCommands
  EventCommands <- MCEventCommands
  Repositories <- MCRepositories
  Manifests <- MCManifests
  Directories <- MCDirectories
INVARIANTS
  CreateIsTrue RewrittenMeansTheSame RelationsAreTrue ListedTruly ManifestsAreTrue MigrationIsTrue
CHECK_DEADLOCK FALSE
