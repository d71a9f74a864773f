SPECIFICATION Spec
CONSTANTS
    CrdOrder <- TwoCrds
    Resources = {r1, r2}
    MaxAttempts = 2
    MaxVersion = 3
SYMMETRY Symmetry
INVARIANT NothingLost
INVARIANT MigratedOnSuccess
