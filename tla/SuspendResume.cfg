SPECIFICATION FairSpec
CONSTANTS
    Objects = {"a", "b"}
    Missing = {"gone"}
    CommandLines <- TwoNames
    MaxGen = 3
    MaxForeign = 1
INVARIANT CoversWanted
INVARIANT SuspendOneSuspends
PROPERTY ResumedIsReconciled
PROPERTY WaitersConverge
