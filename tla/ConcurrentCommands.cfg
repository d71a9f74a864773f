SPECIFICATION Spec
CONSTANTS
    Plans <- MCPlans
    Clusters <- MCClusters
    Watches = {w1, w2}
    MaxEvents = 2
    MaxPods = 3
    Invocations <- MCInvocations
    Retries <- MCRetries
INVARIANTS
    DirectoryRestored
    LogsAreShown
    EventsPrinted
    TriggeredTruly
PROPERTY CommandsEnd
CHECK_DEADLOCK FALSE
