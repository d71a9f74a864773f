SPECIFICATION Spec
CONSTANTS
    Paths = {"a", "b"}
    Versions = {1, 2}
    RunOptions <- MCOptions
    MaxRuns = 3
    MaxForeign = 1
INVARIANT SuccessMeansDeployed
PROPERTY CredentialsReplaced
PROPERTY OthersKept
