SPECIFICATION FairSpec
CONSTANTS
    KindOrder <- TwoKinds
    MaxWrites = 2
    MaxFailures = 2
INVARIANT WorkloadsKept
PROPERTY EverythingGoes
