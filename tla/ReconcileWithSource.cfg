SPECIFICATION Spec
CONSTANTS
    Objects <- MCObjects
    SpecOf <- MCSpecOf
    StaticRefs <- MCStaticRefs
    NamesOf <- MCNamesOf
    CmdNs = "app"
    MaxArgs = 3
INVARIANT InTurn
INVARIANT OnlyIntended
INVARIANT ToldTruly
